# Verification of the Ejad test-case tool API

TLA+ models of the API in this repository (NestJS, Prisma, Postgres, GitLab),
the TLC runs that check them on small instances, and the TLAPS proofs of what
holds for every instance. Paths below are relative to `src/src/modules` unless
they start with `src/`.

1. [The system](#1-the-system) - 2. [The modules](#2-the-modules) -
3. [What the runs check](#3-what-the-runs-check) - 4. [Fairness](#4-fairness) -
5. [What is proved](#5-what-is-proved) - 6. [Where code and promise part](#6-where-code-and-promise-part) -
7. [What is abstracted or left out](#7-what-is-abstracted-or-left-out) - 8. [Plan](#8-plan)

## 1. The system

The tool keeps a catalogue of test cases per project. Testers execute them in
*manual runs* and record results; *automated runs* start a GitLab pipeline whose
test report the API imports. AI agents read and write through MCP tools; what
they write is reviewed by people. There is one API process (the code sometimes
allows for several), one Postgres database and one GitLab.

| Part | State it keeps | Operations | Interacts with |
|---|---|---|---|
| Runs and results (`runs/`) | `TestRun`, `TestResult` rows | create, rename, complete a run; save a result | row locks, shared with the importer |
| Automated runs (`automated-runs/`) | the same rows; in memory the polling pass | trigger, poll, close, import, make a case of an unlinked result | GitLab through `withToken`; writes the rows testers write |
| GitLab connection (`gitlab/`) | `GitlabConnection`, `GitlabOAuthState` rows; in memory the refreshes in flight | start and complete OAuth, refresh, disconnect, mark as broken | GitLab OAuth; called by everything that needs a token |
| Repository and automation (`automation/`) | the project's repository link; the coverage cache | link, unlink, browse, save files, open merge requests, coverage | GitLab repository API; the poller reads the link |
| Test cases and review (`test-cases/`) | `TestCase` rows: fields, code, review state | create, edit, soft-delete, approve one or many | suggestions and MCP write the same rows |
| Suggestions (`suggestions/`) | `TestCaseSuggestion` rows | propose or replace, accept, reject | the case row, locked first |
| MCP (`mcp/`) | none of its own | read tools, `create_test_cases`, `update_test_case`, `create_module` | test cases, suggestions |
| API tokens (`api-tokens/`) | `ApiToken` rows; in memory the rate windows | create, verify, touch, revoke, limit | the MCP guard |
| Import and export (`import-export/`) | previews in memory | parse, preview, confirm, export | cases, modules, codes |
| Users and authentication (`users/`, `auth/`) | `User` rows; the JWTs browsers hold | login, refresh, logout, change an account | every guard reads the account |
| Projects, modules, reports | rows | CRUD, aggregation | modules are also made by imports and agents |

### What is hard, and what makes each part correct

* **Runs.** A save shares the run row (`FOR SHARE`), a completion and an import
  want it alone (`FOR UPDATE`), a closing is a plain conditional `UPDATE`, and
  the closing after a failed trigger is an unconditional one. Correct: results
  of a completed run never change; it is completed once; `completedAt` is not
  earlier than the results that testers saved; nobody waits for ever.
* **Automated runs.** The poller decides on a snapshot of the database taken at
  the start of a pass, then awaits several GitLab calls per run; testers, the
  trigger request, a relinked repository, a broken connection and crashes all
  move in between. Correct: no run is timed out early or although it finished,
  none is closed under a live trigger, results come only from finished jobs,
  and every run is closed in the end.
* **GitLab connection.** GitLab rotates refresh tokens: each works once, and an
  answer may be lost. Refreshes, relinks and disconnections interleave between
  reading the row, calling GitLab and writing the row. Correct: one refresh at
  a time; no valid token that nobody knows; an ACTIVE connection works; no
  user's calls ever carry another user's token.
* **Cases and suggestions.** A human edit, an approval or a deletion may commit
  between the read and the write of an agent's update or of an accept. Correct:
  at most one pending suggestion; an accept replaces just the values it was made
  against; an agent never writes to an approved case; a suggestion is resolved
  once; no lock cycle.
* **Codes and import**: concurrent code allocation with retries on the unique
  index; a file whose module names derive the same code, imported into a project
  that gets modules meanwhile; two cases made of one result. Correct: a code
  keeps its case for ever, also when that case is deleted; nobody fails to get a
  code except to a rival; the rows of a module name end up in the module of that
  name.
* **Automation files.** A save reads the branch and the file by several calls
  before it commits, while people push and merge and other tabs save; a coverage
  scan takes one or two calls per file. Correct: a save replaces only what its
  tester saw; it is refused as a conflict only if there was one; coverage is
  that of its commit, whatever the cache holds.
* **Access.** Fixed rate windows in a map of limited size; accounts checked by a
  guard and changed by a later write. Correct: a token is neither let through
  above the window rule nor refused below its limit; administrators cannot take
  the last of them away one by one.

## 2. The modules

```
RunContract <---- implemented by ---- RunRecords <- MCRunRecords     ReportMapper -> RunRecords
        ^-------- implemented by ---- PipelineRuns <- MCPipelineRuns
CaseContract <--- implemented by ---- CaseReview
GitlabConnections
ImportFiles -> CaseCodes <- MCCaseCodes
GitlabRepo -> FileSaves, CoverageScans -> AutomationFiles <- MCAutomationFiles
ApiAccess <- MCApiAccess
```

`A -> B` and `B <- A` mean that B extends A or A extends B. `RunRecords`,
`PipelineRuns`, `GitlabConnections`, `CaseReview`, `CaseCodes`, `AutomationFiles` and
`ApiAccess` each have a module `...Proofs` with theorems (section 5); `CoverageScansProofs`
holds those about scans and extends `AutomationFilesProofs`. The `MC...` modules
name the values of constants that a cfg cannot spell, and symmetries.

**`RunContract`** is the promise about runs: a run opens once, its results may
change while it is open, possibly in the step that closes it, and neither
changes afterwards.

**`RunRecords`** is one `TestRun` row with its `TestResult` rows. Each request
is a sequence of actions, one per SQL statement: `SaveLock`/`SaveWrite`
(`runs/results.service.ts`), `CompleteLock`/`CompleteWrite`
(`runs/runs.service.ts`), `ImportRead`/`ImportLock`/`ImportWrite`
(`automated-runs/result-importer.service.ts`), `Prepare`/`CloseWrite` (the
importer's `close`) and `Prepare`/`TriggerFailureWrite`
(`closeAfterTriggerFailure`). `sharers` and `owner` are the row locks; `Abort`
is a rollback. The last write of a transaction and its COMMIT are one step,
because nobody else can see or touch the locked rows in between.

**`ReportMapper`** is `report-mapper.ts` as operators: `MapTestReport` says which
rows of a run a test report fills (one per tagged case, one per test that names
no approved case) and with which status (`Aggregate`: a failure counts most).
`RunRecords` applies it in `ImportWrite`, to the cases approved when `ImportRead`
read them.

**`PipelineRuns`** is the life of automated runs, one action per statement or
GitLab call: the trigger (`CreateRun`, `PipelineAccepted` or `PipelineFailed`,
`CloseAfterTriggerFailure`, `MarkAfterUnauthorized`, `SavePipeline` with its
retry), the poller (`StartPass` takes the snapshot, `PollRun`, `PollPipeline`,
`PollJobs`, `ReadReport`, `ImportResults` are the awaits of `pollRun`), testers
(`CompleteByHand`, `SaveByHand`), GitLab (`PipelineMoves`), administrators
(`ChangeLink`, `ChangeConnection`), `Crash` and `Tick`. The row-lock detail of
`RunRecords` appears here as atomic transactions.

**`GitlabConnections`** is `gitlab-connection.service.ts`: one action per
statement or GitLab call of `startOAuth` (`DropOldLinks`, `CreateLink`),
`completeOAuth` (`ClaimLink` ... `RetirePrevious`, `Discard`), `disconnect`,
`accessToken`/`refresh` (`ReadConnection`, `Decide`, `Joined`, `Reread`,
`SendRefresh`, `AfterRejection`, `WriteRefreshed`, ...) and `withToken` (`Use`,
`MarkNeedsReconnect`). `live` is the set of token pairs GitLab honours;
`refreshing` is the map of promises in the process; `Age` makes a pair due.

**`CaseContract`** is the promise about a case edited by people and agents,
each request acting at one instant: an agent writes directly only to a draft,
otherwise its proposal waits; accepting it replaces exactly the values it was
made against.

**`CaseReview`** is one `TestCase` row and its suggestions: `EditRead`/
`EditWrite`, `RemoveRead`/`RemoveWrite` (`test-cases.service.ts`),
`ApproveRead`/`ApproveWrite` (`case-review.service.ts`), `ProposeRead` ...
`ProposeCreate` (`mcp-write.service.ts` and `createOrReplace`), `AcceptRead` ...
`AcceptWrite` and `Reject` (`suggestions.service.ts`). `locked` is the
`FOR UPDATE` lock of the case; `Taken` says which suggestion rows a transaction
that has not committed has written or locked. A field's value is one that people
write or one that agents write, so that the properties can tell whose words a
field holds.

**`ImportFiles`** holds the pure part of an import: `ParsedRows` is
`parseImportRows` (a name keeps the code of its first row, an ID prefix or a
derived code with a suffix), `Plan` is what `ensureModules` decides from the rows
and the modules of the project (by name first, then by code, collisions last).
`Suffixed` lists the suffixed codes that are tried, in order; the code has no last
one, the model stops at the end of the list (a bound).

**`CaseCodes`** is how the cases of a project get their codes: `CreateRead`/
`CreateInsert` are one attempt of `TestCasesService.create` (web, and each item
of the MCP tool), `LinkRead`/`LinkInsert`/`LinkCommit` the transaction of
`unlinked-results.service.ts`, `Preview`, `Forget`, `ConfirmTake`, `ReadModules`
(which computes the plan), `CreateModule` (one per module of the plan),
`ReadAllCodes`, `ReadUpdatable`, `UpdateRow`/`SkipRow`/`CreateRow` and
`ConfirmCommit` the import (`import.store.ts`, `import.service.ts`) with one
action per statement and per row. `held` says which open transaction inserted or
updated a case or a module; whoever wants the same row, or the same value of a
unique index, waits for it. `ChangeCase` stands for approvals and removals,
`AddModule` for the modules people and agents add.

**`GitlabRepo`** is what `src/` relies on of a GitLab repository: commits, the
default branch and one work branch, its merge requests, and what people do to
them (`Push`, `MergeMr`, `CloseMr`). `CommitVerdict` is GitLab's answer to a
commit with `last_commit_id`. The content of a file is named by the commit that
last changed it, so a property can tell whose content it is.

**`FileSaves`** is `readFile` and `saveFile` of `automation.service.ts`, one action
per GitLab call: `ReadFile`, `GetBranch`, `HeadFile`, `GetFile`, `Commit`, `Retry`
(a lost race to create the branch), then the merge request: `ListOpen`,
`UpdateMr`, `CreateMr`, `Relist`. `CallFails` lets any of them fail: before the
commit the save fails, after it the save succeeds without a merge request.

**`CoverageScans`** is `coverage.service.ts` with `coverage-cache.ts` and
`mapWithConcurrency`: `Start` resolves the commit and looks in the cache,
`ListTree`, then `ScanHead`/`ScanGet` per file in a pool of workers, and `Cover`
over the cases approved by then. `cache` is shared, in the order of use.

**`AutomationFiles`** composes them over one repository and one project, whose
tests folder an administrator may move (`Relink`) and whose cases reviewers
approve.

**`ApiAccess`** is who may call: accounts (`UpdateUser` is the guards and the check,
`UpdateWrite` the write of `users.service.ts`), browser sessions (`Login`,
`Refresh`, `Logout`), personal access tokens (`CreateToken`, `RevokeToken`,
`Verify`, `Touch`) and `TokenRateLimiter` (`Hit`, with the pruning of a full map).
`allowed`, `refused` and `forgiven` are histories for `RateIsKept`.

Each module also contains the *mutants* of some of its operators: the same
operator with a plausible bug (a lock not taken, a guard dropped, an off-by-one).
They are used by no action; replacing the operator by its mutant must break the
property it is listed with in `PROJECT.json`.

## 3. What the runs check

| Run | Module, cfg | Checks | Distinct states |
|---|---|---|---|
| `records_races` | `MCRunRecords`, `RunRecords_races` | `TypeOK`, `CompletedAfterItsResults`, `FailuresShow`, `CompletedRunIsReadOnly`, `OnlyTriggerFailuresRewrite`, `ImplementsContract`, `EveryRequestIsAnswered` | 217 000 |
| `records_rewrite` | `MCRunRecords`, `RunRecords_rewrite` | `CompletedOnce`, violated | - |
| `pipeline_pair` | `MCPipelineRuns`, `PipelineRuns_pair` | `ImportedFromFinished`, `NoEarlyTimeout`, `SweepSparesLiveTriggers`, `FinishedIsNotTimedOut` | 1 023 000 |
| `pipeline_single` | `MCPipelineRuns`, `PipelineRuns_single` | `TypeOK`, `ImplementsContract`, `EveryRunCloses` | 222 000 |
| `pipeline_stuck` | `MCPipelineRuns`, `PipelineRuns_stuck` | `EveryRunCloses`, violated | - |
| `connection_shared` | `GitlabConnections_shared` | `NoOrphanedToken`, `LinkUsedOnce`, `TokensStayWithTheirUser`, `NobodyElseRefreshed` | 3 172 000 |
| `connection_relink` | `GitlabConnections_relink` | `TypeOK`, `ActiveConnectionWorks`, `EveryCallIsAnswered` | 325 000 |
| `connection_orphan` | `GitlabConnections_orphan` | `NoOrphanedToken`, violated | - |
| `review_races` | `CaseReview_races` | `TypeOK`, `OnePending`, `ResolvedOnce`, `ImplementsContract`, `EveryRequestIsAnswered` | 162 000 |
| `codes_races` | `MCCaseCodes`, `CaseCodes_races` | `TypeOK`, `OnlyOutrunByRivals`, `ImportClashesOnlyWithOthers`, `CaseOfResultIsLinked`, `RowsJoinTheirModule`, `CodeIsForever` | 715 000 |
| `files_races` | `MCAutomationFiles`, `AutomationFiles_races` | `TypeOK`, `ConflictOnlyWithOthers`, `MergeRequestNamesEdits`, `CoverageIsOfItsCommit`, `NothingOverwrittenUnseen` | 291 000 |
| `access_limits` | `MCApiAccess`, `ApiAccess_limits` | `TypeOK`, `RateIsKept`, `LastAdminFallsOnlyToStaleRequest` | 1 625 000 |

**Runs and results.** *records_races*: two saves (so that two share the lock),
a completion, an import, a closing and a trigger failure on a run with one
selected case. The report has a failed and a passed test of that case, so their
order could matter, and a cancelled test of none; the case may not be approved
when the import reads, and then all three tests get rows of their own. The clock
has two instants after the start, all that "earlier than" needs, and GitLab's
`finished_at` is either of them whatever the time is here, so its clock may be
behind or ahead; each kind of
write exists once beyond the two saves because two exclusive writers of one kind
differ only by name. The locks conflict on one row, so more results add rows and
no new order. *records_rewrite* is the same instance with one save.

**Automated runs.** *pipeline_pair*: two runs in one pass, so the second is
decided on a snapshot that the first one's GitLab calls made old. `Grace` is 1
and `Timeout` 2: both ages, and the instants on and past each, are reached
(`MaxTime` is 4). Fetching jobs and the report may fail at any time; `getPipeline`
does not, for `FinishedIsNotTimedOut` speaks of the time GitLab answers. There
are no disturbances, and the runs are symmetric. *pipeline_single*: one run with
up to three disturbances (crash, relink, lost connection), in which only
`getPipeline` fails, possibly for ever. *pipeline_stuck* lets the other two
calls fail as well.

**GitLab connection.** *connection_shared*: u1 has a connection, u2 authorizes
that GitLab account or another one, one link is completed twice, two calls of
either user race on expiring tokens, somebody disconnects, one answer may be
lost. *connection_relink*: u1 reauthorizes and disconnects while two calls run.
In both GitLab may refuse a refresh with 400 or 401, and a call with 401, at any
time and for whatever reason.
`MaxPairs = 4` allows the initial pair, a reauthorization and two refreshes;
`MaxLosses = 1` a lost answer, after which nothing can be promised about its
pair (`lost`).

**Cases.** *review_races*: two fields (one that a change touches and one it does
not), one value each for people and agents, two proposals so that one replaces,
or races with, the other, and one request of each other kind. The case starts
as a draft or approved.

**Codes.** *codes_races*: one create, two requests for one unlinked result, two
confirmations and two previews, of which any three requests are made
(`MaxRequests`). The project has the module AUTH ("auth"); the name "authors" derives
AUTH too and becomes AUTH2 on a collision, "cart" derives CART. The four files
have an ID and a row without one; a module whose derived code is another one's
and a module that does not exist; an ID that names a code derived before, used
twice; and the same after a row with errors. `MaxAttempts` is 2 instead of 5: one
clash is retried and a second is final; `MaxChanges = 2` lets a case be approved
or rejected and a module appear; `MaxNumber = 5` is not exceeded by three
requests. Links, confirmations and previews are symmetric.

**Files.** *files_races*: two saves and two coverage requests, of which any two
are made (`MaxRequests`), so a save meets a save, a scan a scan, and each the
other. People push once (`MaxPushes`) and may merge or close a merge request;
two files of which one is tracked; contents that are text, too large or binary;
two tests folders, one inside the other; two workers; a cache of one entry, so
that it evicts.

**Access.** *access_limits*: two users of either role, two tokens, one MCP call in
flight at a time, two account updates, four requests in all. `Limit = 2`,
`Window = 2` and three instants: a request at the end of a window, one past it,
and one refused are all reached. `MaxKeys = 1` makes the second token find the
map full, with a bucket that is live or over.

`CHECK_DEADLOCK` is on in every run: most modules have a `Finished` step that is
enabled only when nothing is left to do, so a deadlock is a request that can
never go on. In `AutomationFiles` and `ApiAccess` no request waits for another;
`Relink` and `Restart` stay enabled, so the deadlock check says nothing there.

## 4. Fairness

* `RunRecords`, `CaseReview`: weak fairness of each request. Postgres grants a
  free row lock to a waiter, and Node continues a handler when its query is
  answered. In `RunRecords` every request arrives (fewer requests are a smaller
  instance); in `CaseReview` only those that were received go on.
* `PipelineRuns`: weak fairness of each trigger request and of the poller, whose
  interval restarts for ever (`onApplicationBootstrap`, `pipeline-poller.service.ts`);
  strong fairness of `Tick`, which the poller's database statements keep
  disabling and which time does not care about. Nothing is assumed of testers,
  GitLab's pipelines or the connection.
* `GitlabConnections`: weak fairness of each received call. Calls of GitLab end
  because of the request timeout; a refresh settles its promise on every path.

Liveness is checked by TLC only. It is out of reach of the proof system.

`CaseCodes`, `AutomationFiles` and `ApiAccess` assume no fairness: their properties
are about safety only.

## 5. What is proved

The theorems hold for any sets of requests, rows, users, files and codes and any
bounds. What they assume of the constants is named in the modules (kinds of
requests are disjoint, no sentinel is a value, clocks and bounds are numbers);
TLC evaluates these assumptions on every run. Each inductive invariant `IInv` was
checked by TLC as an invariant of a run before it was proved, and each action has
a lemma (or a step) of its own saying that it preserves `IInv`.

| Module | Theorem | Property | Further hypothesis |
|---|---|---|---|
| `RunRecordsProofs` | `TypeCorrect` | `TypeOK` | |
| | `CompletionFollowsResults` | `CompletedAfterItsResults` | |
| | `FailuresStayVisible` | `FailuresShow` | |
| | `ReadOnlyAfterCompletion` | `CompletedRunIsReadOnly` | |
| | `RewrittenOnlyByTriggerFailures` | `OnlyTriggerFailuresRewrite` | |
| | `RefinesContract` | `ImplementsContract` | |
| | `NoCircleOfWaiters`, `RequestsAreFinite` | (for `EveryRequestIsAnswered`) | |
| `PipelineRunsProofs` | `TypeCorrect` | `TypeOK` | |
| | `OnlyFinishedIsImported` | `ImportedFromFinished` | |
| | `TimeoutIsNeverEarly` | `NoEarlyTimeout` | |
| | `LiveTriggersAreSpared` | `SweepSparesLiveTriggers` | |
| | `FinishedIsKept` | `FinishedIsNotTimedOut` | `getPipeline` never fails |
| | `RefinesContract` | `ImplementsContract` | |
| `GitlabConnectionsProofs` | `TypeCorrect` | `TypeOK` | |
| | `ConnectionsWork` | `ActiveConnectionWorks` | |
| | `LinksAreSpent` | `LinkUsedOnce` | |
| | `OnlyOvertakenUpsertsOrphan` | `NoOrphanedToken` | no upsert is overtaken |
| | `FirstConnectionOrphansNothing` | `NoOrphanedToken` | one link, of users without a connection |
| | `NobodyOrphansWithoutRelink` | `NoOrphanedToken` | nobody links an account |
| | `NoRefreshIsOutrun` | `NobodyElseRefreshed` | one process |
| | `TokensAreOfOneUser` | `TokensStayWithTheirUser` | |
| | `NobodyWaitsForAWaiter`, `RequestsAreFinite` | (for `EveryCallIsAnswered`) | |
| `CaseReviewProofs` | `TypeCorrect` | `TypeOK` | |
| | `OnePendingSuggestion` | `OnePending` | |
| | `NobodyResolvesTwice` | `ResolvedOnce` | |
| | `RefinesContract` | `ImplementsContract` | |
| | `NoCircleOfWaiters`, `RequestsAreFinite` | (for `EveryRequestIsAnswered`) | |
| `CaseCodesProofs` | `TypeCorrect` | `TypeOK` | |
| | `RowsStayTogether` | `RowsJoinTheirModule` | |
| | `OneCasePerResult` | `CaseOfResultIsLinked` | |
| | `CodesAreKept` | `CodeIsForever` | |
| | `OutrunByRivals` | `OnlyOutrunByRivals` | |
| | `ImportsClashWithOthers` | `ImportClashesOnlyWithOthers` | |
| `AutomationFilesProofs` | `NoUnseenOverwrite` | `NothingOverwrittenUnseen` | |
| | `ConflictsAreOthers` | `ConflictOnlyWithOthers` | |
| | `AnswersStayNamed` | `MergeRequestNamesEdits` | |
| `CoverageScansProofs` | `CoverageStaysWithItsCommit` | `CoverageIsOfItsCommit` | |
| | `TypeCorrect` | `TypeOK` of `AutomationFiles` | |
| `ApiAccessProofs` | `LastAdminIsGuarded` | `LastAdminFallsOnlyToStaleRequest` | |
| | `TypeCorrect` | `TypeOK` | |
| | `RateKept` | `RateIsKept` | |

The arguments, and why the properties are not inductive alone:

* **`RunRecordsProofs`.** A save writes in its second step, and nothing in that
  step looks at the run. What protects it is the lock taken in the first:
  `HoldersOwnAnOpenRun` (a request in its second step holds a lock, and while any
  is there the run is IN_PROGRESS), `ExclusiveIsAlone`, `LocalsFitTheirRequest`
  (a save remembers a row and a status, a closing a date not later than now, an
  import a date of GitLab's clock) and `RowsAreSane` (while the run is open, no row is
  dated later than now). `DatesStay`: once it is completed, dates do not move.
  `CompletedRunIsSettled` then says what any step can do to a completed run.
  `FailuresStayVisible` has an invariant of its own: an import that
  is done has completed the run, so no save can follow it.
* **`PipelineRunsProofs`.** `RowsFitRequests` ties a row to the trigger request
  that created it (no pipeline before GitLab accepted it) and `PollerFits` says
  which of the things the poller read before several awaits is still so: a job
  that was final is final, a run past its timeout is past it. `StepsConcernOneRun` says that a step changes one run, from
  which the action properties and the refinement follow run by run.
* **`GitlabConnectionsProofs`.** A refresh or a completion that has GitLab's
  answer carries a pair that no row ever held. `TokensFit` and `StoredOnce` say
  this freshness: pairs are numbered as GitLab issues them and each number is on
  one way only, so the row that is written cannot hold the pair another request is
  about to revoke or spend. `RowsFit`, `ControlsFit` and `LinksFit` bind rows,
  requests and links. `NoOrphanedToken` is inductive beside these, except at one
  step: an upsert that writes over a pair which got into the row after
  `completeOAuth` read it (`Overtaken`). So `OnlyOvertakenUpsertsOrphan` names the
  one way to an orphan, the one `connection_orphan` shows, and the two theorems
  after it are cases in which it cannot happen; `ClaimsFit` is the invariant of
  the first connection, whose bounds `connection_shared` checks.
  `NoRefreshIsOutrun` adds `LeadersFit`: whoever is between
  its call and its write is the one in the map of promises.
  `TokensAreOfOneUser` rests on `OneOwner`: a user *owns* the pair in the user's row
  and those the user's requests hold or have read, and no pair has two owners. A new
  pair has none yet, and every other step hands a pair on within one user, because a
  joined refresh acts for the user whose entry of the map it is (`MapFits`,
  `JoinedAreOfOneUser`).
* **`CaseReviewProofs`.** `OneHolder`: only the holder of the case's lock is
  between its first and last write. `ProposalsFit` and `AcceptsFit` say what the
  holder knows: a proposal that has deleted the pending suggestion finds none
  when it inserts, an accept that passed its check still faces the values it was
  made against.
* **`CaseCodesProofs`.** A code is attached to a case for ever because rows are
  only inserted under a code nobody has (`RowsOK`); a link that holds a code
  commits it with the result or not at all (`LinksHoldFreeCodes`,
  `UnlinkedHasNoCase`). `CreateFits` counts: an attempt reads a number above all
  that are used, so the code it finds taken was taken meanwhile and lies above
  those that beat the earlier attempts; n failed attempts are n distinct codes.
  `ImportFits` says that what an import has inserted is among the codes it knows,
  so a clash is with somebody else. `MaxOfBounded` and `NextCodeIsAbove` are the
  facts about `nextCaseCode`.

  `RowsStayTogether` is about three loops over the rows of a file and what happens
  to their outcome while others write. `ParsedRowsFit`: two names of one
  module code did not both derive it, because a derived code is never one that the
  file already has. `FirstFits` and `AllFits`: after any part
  of the wanted rows, each of them is settled (its code leads to a module of its
  name, or to one that the plan creates with that name) or waits as a collision, and
  what is settled stays so, since a step writes only the code of its own row and
  `wanted` has each code once. `PlanSettles` puts them together. `JInv` carries the
  plan to the commit: a module that is being inserted is not there yet
  (`HeldModulesAreNew`), codes of a plan differ, and no step renames or removes a
  module, so the modules that the plan relied on and those it created are there at
  the end (`ModulesStay`, `PlanFits`).

  A loop is a fold, and the induction theorems of the library cannot be cited (they
  take an operator). `FoldExists` therefore argues by the least counterexample
  (`LeastOfNaturals`, `IndexInduction`) that a fold over the indices of a sequence
  exists as a function and that what each step preserves holds of it (`Preserves`);
  the fold of the community modules is a `CHOOSE` of just that function.
* **`AutomationFilesProofs`.** A save that got past its comparison sends the
  commit its tester loaded as `last_commit_id` (`SavesFit`), and branches point at
  commits that exist (`RepoFits`), so what GitLab accepts replaces what was loaded.
  Commits and merge requests only grow, each step's by one author, and the work
  branch goes away only with a merge (`Grown`). A save has written nothing before
  its commit and remembers whether it saw the work branch (`SaveFits`), so if the
  branch now refuses it, somebody else committed or merged. `AloneFits` and
  `ReadersFit` are about descriptions: a save that is about to replace one has read
  what every earlier answer put there, unless two were in that part at once.
* **`CoverageScansProofs`.** `PoolFits` says what the workers of a scan have
  between them: every file of the tree is left, being read, or done, and what is
  done shows the tags of that file at the scan's commit, which no push can change.
  `CacheFits` says it of the whole entries, which eviction and reordering keep.
* **`ApiAccessProofs`.** An update that is about to write was not refused as one
  that deactivates or demotes its own caller (`UpdatesFit`), and it changes its
  target only. So whoever falls last fell to somebody who was none any more.
  For the limiter, a stretch of one window's length meets at most two windows of a
  token, and of the earlier one not the first request, hence `2 * Limit - 1`.
  `Running` says this of the bucket that is there, `Quiet` of a token whose bucket
  is over, pruned or dropped: what it was let through lately is below the limit,
  or all buckets were dropped in that stretch.

Only model-checked, because the prover has no liveness: `EveryRequestIsAnswered`
(of `RunRecords` and of `CaseReview`), `EveryRunCloses` and `EveryCallIsAnswered`.
For those that are about requests, theorems say what they rest on besides fairness,
for every number of requests: `RequestsAreFinite` (each step of a request leads to a
later one, so none retries for ever), and that who holds what others wait for does
not wait itself. In `RunRecords` the holder of the row is at its last statement
(`HoldersAreAtTheirWrite`); in `CaseReview` the holder of the case finds the
suggestion rows free, because whoever has those has the case (`HolderNeverWaits`);
in `GitlabConnections` a joined refresh is one that runs by itself, and a settled
promise is not left in the map (`JoinedWaitForARefresh`, `MapFits`). `EveryRunCloses`
depends on time and on the poller's turns and has no such part.
Every other property that a passing run checks, the invariants, the action
properties and the three refinements, is stated by a theorem above; those with a
hypothesis in the last column hold under it, as they do in their runs. The
violated properties of section 6 are counterexamples of TLC.

Proving changed the models in these places, none of which adds or removes a
behaviour within the bounds:

* `CommitVerdict` was a `CASE` whose guards overlapped, which TLC reads in order and
  TLA+ does not; its guards now exclude one another.
* `ReadCodes` and `CreateRow` name the bound on the numbers of codes in their
  guards, `Preview` and `ReadModules` the bound on suffixes: `UniqueModuleCode` is
  `None` when the listed suffixes run out (the code's loop has no end), and an
  import that would need more is not considered. Without these `held` would be
  applied outside its domain.
* `ImportFiles` and `CaseCodes` wrote maps with operators of the module `TLC`, whose
  definitions the prover does not expand; they use `Put` (`Map.set`) instead. The
  next module to create is the one with the least index.
* `allowed` of `ApiAccess` is the sequence of times instead of a count for each.

## 6. Where code and promise part

Each of the first three is a run that TLC finds violated:

1. **A completed run is rewritten** (`records_rewrite`).
   `automated-runs.service.ts:109` closes the run whatever its status. If a
   tester completed it while GitLab was being called, `completedAt` and `note`
   are overwritten, although "Completed runs are read-only" (design spec, line
   129). Nothing else does that: `OnlyTriggerFailuresRewrite` is checked and proved.
2. **A run may stay open for ever** (`pipeline_stuck`). Only a failing
   `getPipeline` reaches the timeout check; `resolveFinalStatus` and
   `importPipeline` are called outside the `try` (`pipeline-poller.service.ts:178`),
   so a run whose `jobs` or `test_report` call keeps failing is never closed.
3. **A token is left valid** (`connection_orphan`). `completeOAuth` reads the
   connection to retire before it upserts (`gitlab-connection.service.ts:199`). A
   refresh that stores a new pair in between has it overwritten and not revoked.
   That is the only way: `OnlyOvertakenUpsertsOrphan` proves it.

The models show more behaviours of this kind, which no property here claims
either way.

Runs:

* Two saves of one result both hold `FOR SHARE`. A save without a status stores
  the status it read, undoing the other's (`results.service.ts:23`).
* The pass tests the `pipelineId` it read at its start but the age of the run
  when its turn comes, so a slow pass sweeps a run whose pipeline was saved
  meanwhile (`pipeline-poller.service.ts:132`).
* The executedAt of imported results is the pipeline's `finished_at`, stored as it
  is (`result-importer.service.ts:46`), while `completedAt` is the API's time: if
  GitLab's clock is ahead, a run is completed before its results were executed.
  `CompletedAfterItsResults` therefore speaks of the results that testers saved.
* When the first attempt of `savePipeline` did commit but was reported as failed,
  its retry overwrites a newer `pipelineStatus` that the poller stored in between
  (`automated-runs.service.ts:87`).
* An answer to `createPipeline` that breaks off while it is read is no
  `GitlabHttpError`; the run is noted as not started though its pipeline runs
  (`gitlab-api.service.ts:359`).

GitLab connection:

* Two `startOAuth` requests of one user that interleave leave two usable links
  (`gitlab-connection.service.ts:133`).
* A 401 answered to a call that still used the replaced token marks the freshly
  refreshed connection (`gitlab-connection.service.ts:280`).
* Any 400 or 401 of the refresh call counts as a refused refresh token
  (`gitlab-connection.service.ts:43`), also one by which GitLab refuses the client
  itself: wrong client credentials mark every connection whose token expires,
  although its refresh token works. Because of these two, no property says that
  only broken connections are marked.
* With two API processes the loser of a refresh may re-read the row before the
  winner wrote it, and marks a working connection (`gitlab-connection.service.ts:316`).
  `connection_shared` has one process, as deployed.

Cases, codes and imports:

* `update` and `remove` of a case check `deletedAt` and then write by id alone
  (`test-cases.service.ts:156`), so an edit may land on a case deleted in
  between. `CaseContract.Edit` allows it.
* The five attempts of `create` help nobody inside a transaction: after a unique
  violation Postgres refuses every further statement of it, so `createCase` fails
  on its first clash (`unlinked-results.service.ts:41`).
* An import matches rows against `updatable`, read without a lock; a case
  deleted before its row is handled is still updated (`import.service.ts:57`).
* A preview leaves the store before the transaction that imports it, so after a
  clash the file must be uploaded again (`import.service.ts:43`).
* An ID in a file is compared as text: `TC-AUTH-1` and `TC-AUTH-001` are two
  codes (`case-code.ts:1`, `import.parser.ts:134`).
* "Never let two module names silently share one code" (`import.parser.ts:157`)
  covers derived codes only: a name whose first row has the ID prefix AUTH takes
  AUTH although another name derived it before, and both end in one module. If
  that code collides with a module of the project, the rows with `TC-AUTH-...`
  go to AUTH2 too, although such a code "always maps to that project module"
  (`import.service.ts:152`). `RowsJoinTheirModule` excepts
  just the rows that another name's ID prefix takes along.
* Two imports that update the same rows in opposite orders wait for one another
  (`import.service.ts:96`); Postgres aborts one of them, as the model does.

Automation files:

* Two saves to one work branch that overlap build the merge request's
  description from the same old one, and the later update drops the other's
  file, although the description is of "all files edited so far"
  (`mr-description.ts:20`, `automation.service.ts:231`).
* A 401 in the merge request phase is swallowed there: the save succeeds without
  a merge request and the connection is not marked.
* If the answer to the commit is lost, the save is reported as failed though the
  commit is on the branch; the next save of that tab is a conflict.

Access:

* The fixed window lets through up to `2 * limit - 1` calls within one window's
  length, and a restart or the pruning of a full map forgives what was counted,
  where `src/README.md:91` says "120 requests per minute per token".
* "At most once per minute per token" (`api-tokens.service.ts:108`) does not hold
  for concurrent calls: both decide on the `lastUsedAt` they read.
* Nobody can deactivate or demote themselves (`users.service.ts:32`), but two
  administrators can do it to each other at the same time, and then there is
  none. `LastAdminFallsOnlyToStaleRequest` says that it takes such a race.

## 7. What is abstracted or left out

* Contents: a result is a status and a date, a report the tags and the outcome
  of its tests, with rows named by their case or test; a case is two fields; the
  content of a file is the commit that wrote it. Titles, durations, error texts,
  wording, formatting and DTO validation are left out, authorization too except
  in `ApiAccess`; a refusal for such a reason changes nothing.
* `PipelineRuns` bounds the time of a trigger request by `Grace` (its GitLab
  call is limited to `GITLAB_REQUEST_TIMEOUT_MS`, 15 s, against two minutes) but
  not that of a pass.
* `GitlabConnections` has no crash of the process (a crash between GitLab's
  answer and the write loses a pair, as a lost answer does) and no revocation on
  GitLab's own pages. `ClaimLink` looks the state up and claims it in one step;
  the claim is conditional and repeats what the lookup found.
* `PipelineRuns` knows of a job whether it is final (`JobFinal`), not which of the
  final statuses it has.
* `CaseReview` aborts only transactions; an edit, removal or approval that dies
  between its statements is one that never goes on.
* `CaseCodes` drops the rows of a file that have errors (they are skipped
  first), takes codes as module and number, lets each row be skipped or updated
  whatever the strategy of its request, and leaves out the contents of cases, the
  renaming and deletion of modules, and the run an import may create. `LinkRead` is
  the check of `unlinked-results.service.ts:31` and the read of the codes that
  `create` does next; `LinkCommit` repeats the check.
* `AutomationFiles` has one work branch, which all saves use; saves to different
  branches share nothing but `main`. Merging a merge request removes the branch,
  as `createMergeRequest` asks; nobody deletes it otherwise. GitLab's paging of
  trees, headers and URLs are left out, and with them the limit on the number of
  files a scan reads (`MAX_SCANNED_FILES`) and its answer for a file that is missing
  (it reads one commit, from which none vanishes).
* `ApiAccess` does not create users or change passwords, and takes the hash of a
  token as the token. An update changes the role or the activity of an account, not
  both at once, and its guards and its look at the account are one step.
* The validation of a repository link (a few reads before one update), renaming
  a run, listing, reports, export and the read tools of MCP change no state
  that a property reads. The HTTP shell, its IP-keyed limit and the configuration
  are framework code.

## 8. Plan

What is left, most valuable first:

1. The run an import creates, and the scope of a run, against the cases approved
   or deleted meanwhile; result summaries against the rows they count.
2. Renaming and deleting modules and projects while imports and creates run.
3. Password changes against sessions that are still open.
