----------------------------- MODULE RunRecords ------------------------------
(***************************************************************************)
(* One TestRun row, its TestResult rows and every request that writes      *)
(* them, at the granularity of the statements the API sends to Postgres    *)
(* (isolation level READ COMMITTED).                                       *)
(*                                                                         *)
(*   Saves            PATCH /runs/:id/results/:id      (ResultsService)    *)
(*   Completions      PATCH /runs/:id {COMPLETED}      (RunsService)       *)
(*   Imports          the transaction of importPipeline (ResultImporter)   *)
(*   Closes           ResultImporterService.close                          *)
(*   TriggerFailures  AutomatedRunsService.closeAfterTriggerFailure        *)
(*                                                                         *)
(* A transaction that took SELECT ... FOR SHARE or FOR UPDATE holds the    *)
(* run row until it commits.  A plain UPDATE of the run row waits for      *)
(* every holder, then re-evaluates its WHERE clause; the Dates among its   *)
(* parameters were computed before it was sent.  A write and the COMMIT    *)
(* that makes it visible are one step: nobody else can see or touch the    *)
(* row between them.                                                       *)
(***************************************************************************)
EXTENDS Naturals, FiniteSets, ReportMapper

CONSTANTS
  Results,          \* rows that exist when the run starts: those of the selected cases
  Reports,          \* the test reports GitLab may deliver
  Saves, Completions, Imports, Closes, TriggerFailures,   \* request ids
  Asked,            \* the statuses testers ask for
  MaxTime           \* bound on the clock

NotExecuted == "NOT_EXECUTED"
Absent == "ABSENT"            \* a row that has not been created
Null == 0                     \* a Date column that is NULL

Statuses == {NotExecuted, "PASSED", "FAILED", "BLOCKED", "SKIPPED"}
Rows == Cases \cup Tests
Requests == Saves \cup Completions \cup Imports \cup Closes \cup TriggerFailures

ASSUME RequestsDisjoint ==
  /\ Saves \cap (Completions \cup Imports \cup Closes \cup TriggerFailures) = {}
  /\ Completions \cap (Imports \cup Closes \cup TriggerFailures) = {}
  /\ Imports \cap (Closes \cup TriggerFailures) = {}
  /\ Closes \cap TriggerFailures = {}
ASSUME ResultsAssumption == Results \subseteq Cases
ASSUME ReportsAssumption == Reports \subseteq TestReport
ASSUME AskedAssumption == Asked \subseteq Statuses
ASSUME MaxTimeAssumption == MaxTime \in Nat \ {0}

VARIABLES
  now,        \* the clock that new Date() reads in the API
  run,        \* the committed TestRun row: status, completedAt, note
  results,    \* the committed TestResult rows: status, executedAt
  sharers,    \* requests holding the run row FOR SHARE
  owner,      \* the requests (at most one) holding the run row FOR UPDATE
  pc,         \* pc[q]: how far request q got
  local       \* local[q]: what q computed or read before its write

vars == <<now, run, results, sharers, owner, pc, local>>

Time == 0 .. MaxTime
Row == [status : Statuses \cup {Absent}, executedAt : Time]
Steps == {"new", "waiting", "holding", "done", "refused", "dead"}
Notes == {"none", "closed", "trigger failed"}

\* A body without a status; what a save will write: its row and the status to store.
Keep == "keep"
SaveLocal == [row : Results, status : Statuses]
\* Closers remember a date, importers also the report and the cases that were approved.
DateLocal == [date : Time]
ImportLocal == [date : Time, report : Reports, approved : SUBSET Cases]

TypeOK ==
  /\ now \in 1 .. MaxTime
  /\ run \in [status : {"IN_PROGRESS", "COMPLETED"}, completedAt : Time, note : Notes]
  /\ results \in [Rows -> Row]
  /\ sharers \subseteq Saves
  /\ owner \subseteq Completions \cup Imports
  /\ pc \in [Requests -> Steps]
  /\ local \in [Requests -> SaveLocal \cup DateLocal \cup ImportLocal]

\* RunsService.create and the trigger create the run and its NOT_EXECUTED rows in one transaction.
Init ==
  /\ now = 1
  /\ run = [status |-> "IN_PROGRESS", completedAt |-> Null, note |-> "none"]
  /\ results = [x \in Rows |-> [status |-> IF x \in Results THEN NotExecuted ELSE Absent,
                                executedAt |-> Null]]
  /\ sharers = {}
  /\ owner = {}
  /\ pc = [q \in Requests |-> "new"]
  /\ local = [q \in Requests |-> [date |-> Null]]

Goto(q, step) == pc' = [pc EXCEPT ![q] = step]
InProgress == run.status = "IN_PROGRESS"
Completed(date, note) == [status |-> "COMPLETED", completedAt |-> date, note |-> note]

------------------------------------------------------------------------------
(* ResultsService.update *)

\* Mutants of SaveLock: no lock is taken; the status the body omits is stored as it came.
SaveLockUnlocked(s) ==
  /\ pc[s] = "new"
  /\ owner = {}
  /\ InProgress
  /\ \E x \in Results, asked \in Asked :
       local' = [local EXCEPT ![s] = [row |-> x, status |-> asked]]
  /\ Goto(s, "holding")
  /\ UNCHANGED <<now, run, results, sharers, owner>>

SaveLockNoFallback(s) ==
  /\ pc[s] = "new"
  /\ owner = {}
  /\ InProgress
  /\ \E x \in Results, asked \in Asked \cup {Keep} :
       local' = [local EXCEPT ![s] = [row |-> x, status |-> asked]]
  /\ sharers' = sharers \cup {s}
  /\ Goto(s, "holding")
  /\ UNCHANGED <<now, run, results, owner>>

\* SELECT ... FOR SHARE, read the result row, and answer 409 when the run is completed.
SaveLock(s) ==
  /\ pc[s] = "new"
  /\ owner = {}
  /\ IF InProgress
       THEN /\ \E x \in Results, asked \in Asked \cup {Keep} :
                 local' = [local EXCEPT ![s] =
                   [row |-> x, status |-> IF asked = Keep THEN results[x].status ELSE asked]]
            /\ sharers' = sharers \cup {s}
            /\ Goto(s, "holding")
       ELSE Goto(s, "refused") /\ UNCHANGED <<local, sharers>>
  /\ UNCHANGED <<now, run, results, owner>>

\* Mutant of SaveWrite: the save also writes the run row, for which it needs the row alone.
SaveWriteTouchesRun(s) ==
  /\ pc[s] = "holding"
  /\ sharers = {s}
  /\ sharers' = {}
  /\ Goto(s, "done")
  /\ UNCHANGED <<now, run, results, owner, local>>

\* UPDATE the result and commit, which releases the lock.
SaveWrite(s) ==
  /\ pc[s] = "holding"
  /\ LET w == local[s] IN
     results' = [results EXCEPT ![w.row] =
       [status |-> w.status,
        executedAt |-> IF w.status = NotExecuted THEN Null ELSE now]]
  /\ sharers' = sharers \ {s}
  /\ Goto(s, "done")
  /\ UNCHANGED <<now, run, owner, local>>

------------------------------------------------------------------------------
(* SELECT ... FOR UPDATE, shared by RunsService.update and importPipeline: *)
(* the request goes on only if the row it locked is still IN_PROGRESS.     *)

\* Mutants of LockForUpdate: the status is not checked again; shared locks do not conflict.
LockForUpdateUnchecked(q, before) ==
  /\ pc[q] = before
  /\ owner = {}
  /\ sharers = {}
  /\ owner' = {q}
  /\ Goto(q, "holding")
  /\ UNCHANGED <<now, run, results, sharers, local>>

LockForUpdateIgnoringShares(q, before) ==
  /\ pc[q] = before
  /\ owner = {}
  /\ InProgress
  /\ owner' = {q}
  /\ Goto(q, "holding")
  /\ UNCHANGED <<now, run, results, sharers, local>>

LockForUpdate(q, before) ==
  /\ pc[q] = before
  /\ owner = {}
  /\ sharers = {}
  /\ IF InProgress THEN owner' = {q} /\ Goto(q, "holding")
                   ELSE Goto(q, "refused") /\ UNCHANGED owner
  /\ UNCHANGED <<now, run, results, sharers, local>>

CompleteLock(c) == LockForUpdate(c, "new")

CompleteWrite(c) ==
  /\ pc[c] = "holding"
  /\ run' = Completed(now, run.note)
  /\ owner' = {}
  /\ Goto(c, "done")
  /\ UNCHANGED <<now, results, sharers, local>>

\* The report, whose executedAt is the pipeline's finished_at, or the current time when GitLab gives
\* none, and then the approved cases of the project.  finished_at comes from GitLab's clock, which may
\* be behind or ahead of this one, and is stored as it is.
ImportRead(i) ==
  /\ pc[i] = "new"
  /\ \E finished \in 1 .. MaxTime, report \in Reports, approved \in SUBSET Cases :
       local' = [local EXCEPT ![i] = [date |-> finished, report |-> report, approved |-> approved]]
  /\ Goto(i, "waiting")
  /\ UNCHANGED <<now, run, results, sharers, owner>>

ImportLock(i) == LockForUpdate(i, "waiting")

\* The rows of the cases and tests the report fills are updated or created, rows of cases without a
\* test keep their status, and the run is completed.
ImportWrite(i) ==
  LET filled == MapTestReport(local[i].report, local[i].approved) IN
  /\ pc[i] = "holding"
  /\ results' = [x \in Rows |->
       IF x \in DOMAIN filled THEN [status |-> filled[x], executedAt |-> local[i].date]
                              ELSE results[x]]
  /\ run' = Completed(now, run.note)
  /\ owner' = {}
  /\ Goto(i, "done")
  /\ UNCHANGED <<now, sharers, local>>

------------------------------------------------------------------------------
(* Plain UPDATEs of the run row *)

\* The statement's parameters, its completedAt among them, are computed first.
Prepare(q) ==
  /\ pc[q] = "new"
  /\ local' = [local EXCEPT ![q] = [date |-> now]]
  /\ Goto(q, "waiting")
  /\ UNCHANGED <<now, run, results, sharers, owner>>

Unlocked == owner = {} /\ sharers = {}

\* close: UPDATE ... WHERE status = 'IN_PROGRESS'.
CloseWrite(k) ==
  /\ pc[k] = "waiting"
  /\ Unlocked
  /\ run' = IF InProgress THEN Completed(local[k].date, "closed") ELSE run
  /\ Goto(k, "done")
  /\ UNCHANGED <<now, results, sharers, owner, local>>

\* closeAfterTriggerFailure: UPDATE ... WHERE id = ..., whatever the status.
TriggerFailureWrite(t) ==
  /\ pc[t] = "waiting"
  /\ Unlocked
  /\ run' = Completed(local[t].date, "trigger failed")
  /\ Goto(t, "done")
  /\ UNCHANGED <<now, results, sharers, owner, local>>

------------------------------------------------------------------------------
(* Environment *)

Tick ==
  /\ now < MaxTime
  /\ now' = now + 1
  /\ UNCHANGED <<run, results, sharers, owner, pc, local>>

\* The API process dies, or Prisma's transaction timeout passes: Postgres rolls q back.
Abort(q) ==
  /\ pc[q] \in {"waiting", "holding"}
  /\ Goto(q, "dead")
  /\ sharers' = sharers \ {q}
  /\ owner' = owner \ {q}
  /\ UNCHANGED <<now, run, results, local>>

Save(s) == SaveLock(s) \/ SaveWrite(s)
Complete(c) == CompleteLock(c) \/ CompleteWrite(c)
Import(i) == ImportRead(i) \/ ImportLock(i) \/ ImportWrite(i)
Close(k) == Prepare(k) \/ CloseWrite(k)
TriggerFailure(t) == Prepare(t) \/ TriggerFailureWrite(t)

Request(q) ==
  \/ q \in Saves /\ Save(q)
  \/ q \in Completions /\ Complete(q)
  \/ q \in Imports /\ Import(q)
  \/ q \in Closes /\ Close(q)
  \/ q \in TriggerFailures /\ TriggerFailure(q)

Answered(q) == pc[q] \in {"done", "refused", "dead"}

\* Every request was answered and the clock stopped: the model is at its end.
Finished ==
  /\ \A q \in Requests : Answered(q)
  /\ UNCHANGED vars

Next ==
  \/ \E q \in Requests : Request(q)
  \/ Tick
  \/ \E q \in Requests : Abort(q)
  \/ Finished

Spec == Init /\ [][Next]_vars

\* A statement that can run, runs: Postgres grants a free row lock to its waiters.
Fairness == \A q \in Requests : WF_vars(Request(q))

FairSpec == Spec /\ Fairness

------------------------------------------------------------------------------
(* Properties *)

\* FOR SHARE against FOR UPDATE: no result of a completed run ever changes, not even by a save
\* that read IN_PROGRESS before the completion (ResultsService.update, RunsService.update).
CompletedRunIsReadOnly == [][~InProgress => results' = results]_vars

\* A completed run keeps its status, its completedAt and its note.
CompletedOnce == [][~InProgress => run' = run]_vars

\* Of all the requests only a trigger failure rewrites a completed run: a second completion is
\* refused, a closing's WHERE clause no longer matches, an import notices under its lock
\* (RunsService.update, close, importPipeline).
OnlyTriggerFailuresRewrite ==
  [][~InProgress => run' = run \/ \E t \in TriggerFailures : TriggerFailureWrite(t)]_vars

\* The row an import has filled, and whose date is therefore GitLab's.
DatedByGitlab(x) ==
  \E i \in Imports : /\ pc[i] = "done"
                     /\ x \in DOMAIN MapTestReport(local[i].report, local[i].approved)
                     /\ results[x].executedAt = local[i].date

\* completedAt is stamped after the FOR UPDATE lock, so when a tester or an import completed a run, no
\* result that a tester saved is newer than the run, also not one saved while the completion waited or
\* the report was on its way (ResultsService.update, RunsService.update, importPipeline).  Nothing is
\* said of the rows the import itself filled: their date is the one GitLab gave.
CompletedAfterItsResults ==
  (~InProgress /\ run.note = "none") =>
    \A x \in Rows : results[x].executedAt <= run.completedAt \/ DatedByGitlab(x)

\* A test that failed shows in the run for ever once its report is imported: as a failed result of
\* every approved case it names, or as a failed result of its own.  No other test of the case hides
\* it, and no save that was on its way (aggregate, mapTestReport, importPipeline, the row locks).
FailuresShow ==
  \A i \in Imports : pc[i] = "done" =>
    \A t \in DOMAIN local[i].report : local[i].report[t].status \in {"failed", "error"} =>
      LET cases == local[i].report[t].tags \cap local[i].approved IN
      \A x \in (IF cases = {} THEN {t} ELSE cases) : results[x].status = "FAILED"

\* No order of the lock requests leaves a request waiting for ever: the lock protocol has no deadlock.
EveryRequestIsAnswered ==
  \A q \in Requests : <>Answered(q)

TheRun == "run"
Contract == INSTANCE RunContract WITH
  Run <- {TheRun},
  Contents <- [Rows -> Row],
  phase <- [r \in {TheRun} |-> IF InProgress THEN "open" ELSE "closed"],
  ledger <- [r \in {TheRun} |-> results]

\* The lock protocol keeps the promise of RunContract.
ImplementsContract == Contract!Spec
==============================================================================
