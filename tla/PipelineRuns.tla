---------------------------- MODULE PipelineRuns -----------------------------
(***************************************************************************)
(* The life of automated runs: the request that triggers them, GitLab's    *)
(* pipelines, the poller that follows them and imports their results, the  *)
(* testers who may complete a run or save a result by hand, the project's  *)
(* repository link, the triggering user's GitLab connection, and crashes   *)
(* of the API.  One step is one database statement or transaction (or one  *)
(* GitLab call); between two awaits of a handler everybody else may move.  *)
(* Time is counted in units of the order of the sweep's grace period.      *)
(***************************************************************************)
EXTENDS Naturals

CONSTANTS
  Runs,             \* runs that may be triggered, all by one user in one project
  FailingCalls,     \* subset of GitlabCalls: the polled endpoints that may fail
  Grace,            \* STUCK_RUN_GRACE_MS
  Timeout,          \* GITLAB_RUN_TIMEOUT_MINUTES
  MaxTime,          \* bound on the clock
  MaxDisturbances,  \* bound on crashes and on connection and link changes
  None              \* no run is being polled

GitlabCalls == {"pipeline", "jobs", "report"}

ASSUME TimesAssumption ==
  Grace \in Nat /\ Timeout \in Nat /\ MaxTime \in Nat /\ Timeout < MaxTime
ASSUME DisturbancesAssumption == MaxDisturbances \in Nat
ASSUME CallsAssumption == FailingCalls \subseteq GitlabCalls

VARIABLES
  now,           \* the clock
  run,           \* run[r]: the TestRun row
  results,       \* results[r]: who wrote the results of r last
  request,       \* request[r]: how far the request that triggers r got
  gitlab,        \* gitlab[r]: the pipeline of r in GitLab
  link,          \* the GitLab project linked: the one r was triggered in, another, or none
  connection,    \* the triggering user's GitlabConnection row
  poller,        \* the poller's pass: what it read and how far it got
  disturbances

vars == <<now, run, results, request, gitlab, link, connection, poller, disturbances>>

NotConfirmed == "The pipeline could not be confirmed as started"
LinkRemoved  == "The repository link was removed"
PipelineGone == "The pipeline no longer exists in GitLab"
TimedOut     == "Timed out waiting for GitLab"
NoReport     == "Pipeline finished without a test report"
CouldNotStart == "GitLab could not start the pipeline"
MayHaveStarted == "GitLab didn't confirm the pipeline"
Notes == {"none", NotConfirmed, LinkRemoved, PipelineGone, TimedOut, NoReport,
          CouldNotStart, MayHaveStarted}

RunRow == [status : {"ABSENT", "IN_PROGRESS", "COMPLETED"}, note : Notes,
           pipelineId : BOOLEAN, startedAt : 0 .. MaxTime]
\* The failures of createPipeline: GitLab refused (4xx), refused the token (401), gave no answer
\* (status 0) or a 5xx, or its answer broke off while it was being read (not a GitlabHttpError).
CallFailures == {"refused", "unauthorized", "unconfirmed", "broken off"}
RequestSteps == {"new", "created", "accepted", "retrying", "marking", "done", "dead"} \cup CallFailures
\* "job done": the ejad-playwright job is final, the pipeline waits for a manual job.
PipelineStates == {"none", "running", "job done", "final", "gone"}
Links == {"home", "other", "none"}
\* What runOnePass reads of a run, once, at the start of the pass.
Snapshot == [id : Runs, pipelineId : BOOLEAN, link : Links]

TypeOK ==
  /\ now \in 0 .. MaxTime
  /\ run \in [Runs -> RunRow]
  /\ results \in [Runs -> {"NOT_EXECUTED", "saved", "imported"}]
  /\ request \in [Runs -> RequestSteps]
  /\ gitlab \in [Runs -> PipelineStates]
  /\ link \in Links
  /\ connection \in {"ACTIVE", "NEEDS_RECONNECT", "none"}
  /\ poller \in [step : {"idle", "next", "pipeline", "jobs", "report", "import"},
                 queue : SUBSET Snapshot, current : Snapshot \cup {None}, past : BOOLEAN]
  /\ disturbances \in 0 .. MaxDisturbances

\* onApplicationBootstrap: a process starts between two passes.
IdlePoller == [step |-> "idle", queue |-> {}, current |-> None, past |-> FALSE]

Init ==
  /\ now = 0
  /\ run = [r \in Runs |-> [status |-> "ABSENT", note |-> "none", pipelineId |-> FALSE, startedAt |-> 0]]
  /\ results = [r \in Runs |-> "NOT_EXECUTED"]
  /\ request = [r \in Runs |-> "new"]
  /\ gitlab = [r \in Runs |-> "none"]
  /\ link = "home"
  /\ connection = "ACTIVE"
  /\ poller = IdlePoller
  /\ disturbances = 0

InProgress(r) == run[r].status = "IN_PROGRESS"
Elapsed(r) == now - run[r].startedAt

\* The two ages pollRun acts on, with mutants that act one unit too early.
PastAtLimit(r) == Elapsed(r) >= Timeout
Past(r) == Elapsed(r) > Timeout
StuckAtLimit(r) == Elapsed(r) >= Grace
Stuck(r) == Elapsed(r) > Grace

Goto(r, step) == request' = [request EXCEPT ![r] = step]

\* markNeedsReconnect: updateMany, whatever the row holds by now.
Mark(c) == IF c = "none" THEN c ELSE "NEEDS_RECONNECT"

\* ResultImporterService.close: UPDATE ... WHERE status = 'IN_PROGRESS'.
Close(r, note) ==
  run' = IF InProgress(r) THEN [run EXCEPT ![r].status = "COMPLETED", ![r].note = note] ELSE run

------------------------------------------------------------------------------
(* AutomatedRunsService.trigger *)

\* The checks (repository linked, usable token), then the run and its results in one transaction.
CreateRun(r) ==
  /\ request[r] = "new"
  /\ link = "home" /\ connection = "ACTIVE"
  /\ now + Timeout < MaxTime    \* bound: every run can still time out
  /\ run' = [run EXCEPT ![r].status = "IN_PROGRESS", ![r].startedAt = now]
  /\ Goto(r, "created")
  /\ UNCHANGED <<now, results, gitlab, link, connection, poller, disturbances>>

\* POST /projects/:id/pipeline: GitLab starts the pipeline of r.
CreatePipeline(r) == gitlab' = [gitlab EXCEPT ![r] = "running"]

\* createPipeline is answered: the pipeline exists.
PipelineAccepted(r) ==
  /\ request[r] = "created"
  /\ CreatePipeline(r)
  /\ Goto(r, "accepted")
  /\ UNCHANGED <<now, run, results, link, connection, poller, disturbances>>

\* createPipeline throws.  Only a 4xx says that GitLab started nothing.
PipelineFailed(r) ==
  /\ request[r] = "created"
  /\ \E failure \in CallFailures :
       /\ Goto(r, failure)
       /\ \/ UNCHANGED gitlab
          \/ failure \in {"unconfirmed", "broken off"} /\ CreatePipeline(r)
  /\ UNCHANGED <<now, run, results, link, connection, poller, disturbances>>

\* closeAfterTriggerFailure: the note says how certain the failure is; the run is completed
\* whatever its status.  A 401 then also marks the connection.
CloseAfterTriggerFailure(r) ==
  /\ request[r] \in CallFailures
  /\ run' = [run EXCEPT ![r].status = "COMPLETED",
                        ![r].note = IF request[r] = "unconfirmed" THEN MayHaveStarted
                                                                  ELSE CouldNotStart]
  /\ Goto(r, IF request[r] = "unauthorized" THEN "marking" ELSE "done")
  /\ UNCHANGED <<now, results, gitlab, link, connection, poller, disturbances>>

MarkAfterUnauthorized(r) ==
  /\ request[r] = "marking"
  /\ connection' = Mark(connection)
  /\ Goto(r, "done")
  /\ UNCHANGED <<now, run, results, gitlab, link, poller, disturbances>>

\* Mutant of SavePipeline: the pipeline's status lands in the run's status column.
SavePipelineStatus(r) ==
  /\ request[r] = "accepted"
  /\ run' = [run EXCEPT ![r].pipelineId = TRUE, ![r].status = gitlab[r]]
  /\ Goto(r, "done")
  /\ UNCHANGED <<now, results, gitlab, link, connection, poller, disturbances>>

\* savePipeline, whatever the run's status.  It may fail, before or after the commit, and is
\* tried a second time.
SavePipeline(r) ==
  /\ request[r] \in {"accepted", "retrying"}
  /\ \/ /\ run' = [run EXCEPT ![r].pipelineId = TRUE]
        /\ Goto(r, "done")
     \/ /\ run' \in {run, [run EXCEPT ![r].pipelineId = TRUE]}
        /\ Goto(r, IF request[r] = "accepted" THEN "retrying" ELSE "done")
  /\ UNCHANGED <<now, results, gitlab, link, connection, poller, disturbances>>

TriggerStep(r) ==
  \/ PipelineAccepted(r)
  \/ PipelineFailed(r)
  \/ CloseAfterTriggerFailure(r)
  \/ MarkAfterUnauthorized(r)
  \/ SavePipeline(r)

InFlight(r) == request[r] \notin {"new", "done", "dead"}

------------------------------------------------------------------------------
(* PipelinePollerService *)

\* runOnePass: the pass reads every unfinished run once, links included.
StartPass ==
  /\ poller.step = "idle"
  /\ \E r \in Runs : InProgress(r)
  /\ poller' = [poller EXCEPT !.step = "next",
       !.queue = {[id |-> r, pipelineId |-> run[r].pipelineId, link |-> link]
                    : r \in {x \in Runs : InProgress(x)}}]
  /\ UNCHANGED <<now, run, results, request, gitlab, link, connection, disturbances>>

\* pollRun is over for the current run; the pass ends with its last run.
NextRun(queue) ==
  poller' = [step |-> IF queue = {} THEN "idle" ELSE "next", queue |-> queue,
             current |-> None, past |-> FALSE]

\* The first awaits of pollRun, for the oldest run left: everything but the connection comes from
\* the snapshot.
PollRun(s) ==
  LET rest == poller.queue \ {s}
  IN
  /\ poller.step = "next"
  /\ s \in poller.queue
  /\ \A x \in rest : run[s.id].startedAt <= run[x.id].startedAt
  /\ \/ /\ ~s.pipelineId
        /\ IF Stuck(s.id) THEN Close(s.id, NotConfirmed) ELSE UNCHANGED run
        /\ NextRun(rest)
     \/ /\ s.pipelineId /\ s.link = "none"
        /\ Close(s.id, LinkRemoved)
        /\ NextRun(rest)
     \/ /\ s.pipelineId /\ s.link # "none" /\ connection # "ACTIVE"
        /\ IF Past(s.id) THEN Close(s.id, TimedOut) ELSE UNCHANGED run
        /\ NextRun(rest)
     \/ /\ s.pipelineId /\ s.link # "none" /\ connection = "ACTIVE"
        /\ poller' = [step |-> "pipeline", queue |-> rest, current |-> s, past |-> Past(s.id)]
        /\ UNCHANGED run
  /\ UNCHANGED <<now, results, request, gitlab, link, connection, disturbances>>

\* How a GitLab call made through withToken can fail: the connection is unusable by now, GitLab
\* answers 401 (which marks the connection), or with another error, or not at all.
CallFails(call) ==
  \/ connection # "ACTIVE" /\ UNCHANGED connection
  \/ call \in FailingCalls /\ connection' \in {connection, Mark(connection)}

\* GitLab answers 404: the pipeline is gone, or is not one of the project asked for.
NotFound(r, project) == gitlab[r] = "gone" \/ project = "other"

PollAnd(step) == poller' = [poller EXCEPT !.step = step]

\* The run is closed once it was past the timeout when its turn came.  The mutant leaves it open.
NeverGiveUp(r) == UNCHANGED run
GiveUpIfPast(r) == IF poller.past THEN Close(r, TimedOut) ELSE UNCHANGED run

\* The ejad-playwright job is final.  The mutant guesses from the pipeline being there.
AnyJobFinal(r) == TRUE
JobFinal(r) == gitlab[r] # "running"

\* Mutant of PollPipeline: the timeout is checked before GitLab is asked.
PollPipelineTimeoutFirst ==
  /\ poller.step = "pipeline"
  /\ poller.past
  /\ Close(poller.current.id, TimedOut)
  /\ NextRun(poller.queue)
  /\ UNCHANGED <<now, results, request, gitlab, link, connection, disturbances>>

\* getPipeline.  The only call whose failure still reaches the timeout check.
PollPipeline ==
  LET r == poller.current.id IN
  /\ poller.step = "pipeline"
  /\ \/ /\ connection = "ACTIVE" /\ NotFound(r, poller.current.link)
        /\ Close(r, PipelineGone)
        /\ NextRun(poller.queue)
        /\ UNCHANGED connection
     \/ /\ CallFails("pipeline")
        /\ GiveUpIfPast(r)
        /\ NextRun(poller.queue)
     \/ /\ connection = "ACTIVE" /\ ~NotFound(r, poller.current.link)
        /\ PollAnd(IF gitlab[r] = "final" THEN "report" ELSE "jobs")
        /\ UNCHANGED <<run, connection>>
  /\ UNCHANGED <<now, results, request, gitlab, link, disturbances>>

\* resolveFinalStatus: the pipeline is not final, its ejad-playwright job may be.
PollJobs ==
  LET r == poller.current.id IN
  /\ poller.step = "jobs"
  /\ \/ /\ CallFails("jobs") \/ (NotFound(r, poller.current.link) /\ UNCHANGED connection)
        /\ NextRun(poller.queue)
        /\ UNCHANGED run
     \/ /\ connection = "ACTIVE" /\ ~NotFound(r, poller.current.link)
        /\ IF JobFinal(r) THEN PollAnd("report") /\ UNCHANGED run
                          ELSE GiveUpIfPast(r) /\ NextRun(poller.queue)
        /\ UNCHANGED connection
  /\ UNCHANGED <<now, results, request, gitlab, link, disturbances>>

\* importPipeline up to its transaction: re-read the link, fetch the report and the jobs.
ReadReport ==
  LET r == poller.current.id IN
  /\ poller.step = "report"
  /\ \/ /\ \/ CallFails("report")
           \/ link # "none" /\ NotFound(r, link) /\ UNCHANGED connection
        /\ NextRun(poller.queue)
        /\ UNCHANGED run
     \/ /\ connection = "ACTIVE"
        /\ \/ link = "none" /\ Close(r, LinkRemoved)
           \/ link # "none" /\ ~NotFound(r, link) /\ Close(r, NoReport)
        /\ NextRun(poller.queue)
        /\ UNCHANGED connection
     \/ /\ connection = "ACTIVE" /\ link # "none" /\ ~NotFound(r, link)
        /\ PollAnd("import")
        /\ UNCHANGED <<run, connection>>
  /\ UNCHANGED <<now, results, request, gitlab, link, disturbances>>

\* Mutant of ImportResults: the status is not checked again under the lock.
ImportResultsUnchecked ==
  /\ poller.step = "import"
  /\ run' = [run EXCEPT ![poller.current.id].status = "COMPLETED"]
  /\ results' = [results EXCEPT ![poller.current.id] = "imported"]
  /\ NextRun(poller.queue)
  /\ UNCHANGED <<now, request, gitlab, link, connection, disturbances>>

\* The import transaction: it gives up if the run was completed meanwhile.
ImportResults ==
  LET r == poller.current.id IN
  /\ poller.step = "import"
  /\ IF InProgress(r)
       THEN /\ run' = [run EXCEPT ![r].status = "COMPLETED"]
            /\ results' = [results EXCEPT ![r] = "imported"]
       ELSE UNCHANGED <<run, results>>
  /\ NextRun(poller.queue)
  /\ UNCHANGED <<now, request, gitlab, link, connection, disturbances>>

PollerStep ==
  \/ StartPass
  \/ \E s \in poller.queue : PollRun(s)
  \/ PollPipeline
  \/ PollJobs
  \/ ReadReport
  \/ ImportResults

------------------------------------------------------------------------------
(* Testers, administrators, GitLab and the machine *)

\* PATCH /runs/:id {COMPLETED}: RunsService.update does not ask for the type of the run.
CompleteByHand(r) ==
  /\ InProgress(r)
  /\ run' = [run EXCEPT ![r].status = "COMPLETED"]
  /\ UNCHANGED <<now, results, request, gitlab, link, connection, poller, disturbances>>

SaveByHand(r) ==
  /\ InProgress(r)
  /\ results' = [results EXCEPT ![r] = "saved"]
  /\ UNCHANGED <<now, run, request, gitlab, link, connection, poller, disturbances>>

\* GitLab runs the pipeline to its end, or an owner deletes it.
PipelineMoves(r) ==
  /\ \/ gitlab[r] = "running" /\ gitlab' \in {[gitlab EXCEPT ![r] = s] : s \in {"job done", "final", "gone"}}
     \/ gitlab[r] = "job done" /\ gitlab' \in {[gitlab EXCEPT ![r] = s] : s \in {"final", "gone"}}
     \/ gitlab[r] = "final" /\ gitlab' = [gitlab EXCEPT ![r] = "gone"]
  /\ UNCHANGED <<now, run, results, request, link, connection, poller, disturbances>>

Disturb ==
  /\ disturbances < MaxDisturbances
  /\ disturbances' = disturbances + 1

\* RepositoryService.link and unlink.
ChangeLink ==
  /\ Disturb
  /\ link' \in Links \ {link}
  /\ UNCHANGED <<now, run, results, request, gitlab, connection, poller>>

\* The user connects or disconnects GitLab, or another call marks the connection.
ChangeConnection ==
  /\ Disturb
  /\ connection' \in {"ACTIVE", "NEEDS_RECONNECT", "none"} \ {connection}
  /\ connection = "none" => connection' = "ACTIVE"
  /\ UNCHANGED <<now, run, results, request, gitlab, link, poller>>

\* The API process dies and starts again: requests and the pass in flight are lost.
Crash ==
  /\ Disturb
  /\ request' = [r \in Runs |-> IF InFlight(r) THEN "dead" ELSE request[r]]
  /\ poller' = IdlePoller
  /\ UNCHANGED <<now, run, results, gitlab, link, connection>>

\* Time passes between passes and during GitLab calls, not during database statements.  Every call
\* of a trigger request ends within GITLAB_REQUEST_TIMEOUT_MS, far below Grace; a pass has several
\* calls per run, so it may outlast Grace: one polled run stands for all those before the next.
Tick ==
  /\ now < MaxTime
  /\ poller.step \notin {"next", "import"}
  /\ \A r \in Runs : InFlight(r) => Elapsed(r) < Grace
  /\ now' = now + 1
  /\ UNCHANGED <<run, results, request, gitlab, link, connection, poller, disturbances>>

Environment ==
  \/ \E r \in Runs : CreateRun(r) \/ CompleteByHand(r) \/ SaveByHand(r) \/ PipelineMoves(r)
  \/ ChangeLink
  \/ ChangeConnection
  \/ Crash

\* Nothing is left to do: every run created is completed.
Finished ==
  /\ \A r \in Runs : ~InFlight(r) /\ ~InProgress(r)
  /\ UNCHANGED vars

Next ==
  \/ \E r \in Runs : TriggerStep(r)
  \/ PollerStep
  \/ Environment
  \/ Tick
  \/ Finished

Spec == Init /\ [][Next]_vars

\* The interval restarts the poller for ever, every request goes on and time passes; nothing is
\* assumed of testers, of GitLab's pipelines or of the connection.
Fairness ==
  /\ \A r \in Runs : WF_vars(TriggerStep(r))
  /\ WF_vars(PollerStep)
  /\ SF_vars(Tick)

FairSpec == Spec /\ Fairness

------------------------------------------------------------------------------
(* Properties *)

\* A run is closed as timed out only when it is past its timeout, however old the snapshot and
\* the answers the poller decides on (pollRun).
NoEarlyTimeout ==
  [][\A r \in Runs : run'[r].note = TimedOut /\ run[r].note # TimedOut => Elapsed(r) > Timeout]_vars

\* The sweep for runs without a pipeline never takes a run whose trigger request is still going on
\* ("in case that call is simply still in flight", pollRun).
SweepSparesLiveTriggers ==
  [][\A r \in Runs : run'[r].note = NotConfirmed /\ run[r].note # NotConfirmed => ~InFlight(r)]_vars

\* Results are imported only from a pipeline, or an ejad-playwright job, that finished
\* (resolveFinalStatus, importPipeline).
ImportedFromFinished ==
  \A r \in Runs : results[r] = "imported" => gitlab[r] \in {"job done", "final", "gone"}

\* While the calls are answered and the connection is usable, a run whose test job has finished is
\* imported, not discarded as timed out, also past the timeout (pollRun).
FinishedIsNotTimedOut ==
  [][\A r \in Runs : run'[r].note = TimedOut /\ run[r].note # TimedOut
                        => gitlab[r] = "running" \/ connection # "ACTIVE"]_vars

\* Every automated run is completed in the end, by an import, a closing note or a tester: also when
\* the API crashed, the connection broke or GitLab's calls keep failing (pollRun).
EveryRunCloses == \A r \in Runs : InProgress(r) ~> ~InProgress(r)

Contract == INSTANCE RunContract WITH
  Run <- Runs,
  Contents <- {"NOT_EXECUTED", "saved", "imported"},
  phase <- [r \in Runs |-> CASE run[r].status = "ABSENT" -> "absent"
                             [] run[r].status = "IN_PROGRESS" -> "open"
                             [] run[r].status = "COMPLETED" -> "closed"],
  ledger <- results

\* Trigger, poller and testers together keep the promise of RunContract.
ImplementsContract == Contract!Spec
==============================================================================
