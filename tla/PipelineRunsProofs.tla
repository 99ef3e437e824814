-------------------------- MODULE PipelineRunsProofs --------------------------
(***************************************************************************)
(* PipelineRuns, proved for every number of runs, every grace period and   *)
(* timeout and every choice of failing calls.                              *)
(*                                                                         *)
(* The poller acts on what it read before several awaits.  IInv says which *)
(* of that stays true: a run in a snapshot was created, its pipeline       *)
(* exists when the snapshot has an id, a job that was final is final still *)
(* and a run found past its timeout is past it still.  The sweep and live  *)
(* triggers are kept apart by time alone.                                  *)
(***************************************************************************)
EXTENDS PipelineRuns, TLAPS

USE DEF IdlePoller, CreatePipeline

\* A run has a row when its request got past the first transaction, and then its row only grows older.
RowFits(r) ==
  /\ run[r].status = "ABSENT" <=> request[r] = "new"
  /\ run[r].startedAt <= now
  /\ InFlight(r) => Elapsed(r) <= Grace
  /\ run[r].pipelineId => request[r] \notin {"new", "created"}
  /\ run[r].pipelineId \/ request[r] \in {"accepted", "retrying"} => gitlab[r] # "none"
  /\ request[r] \in {"new", "created"} => gitlab[r] = "none"
RowsFitRequests == \A r \in Runs : RowFits(r)

\* What the snapshot says of a run and will go on to be so.
SnapshotFits(s) ==
  /\ request[s.id] # "new"
  /\ s.pipelineId => request[s.id] # "created" /\ gitlab[s.id] # "none"

Busy == poller.step \in {"pipeline", "jobs", "report", "import"}

PollerFits ==
  /\ \A s \in poller.queue : SnapshotFits(s)
  /\ Busy => /\ poller.current \in Snapshot /\ poller.current.pipelineId
             /\ SnapshotFits(poller.current)
             /\ poller.past => Past(poller.current.id)
  /\ poller.step \in {"report", "import"} =>
       gitlab[poller.current.id] \in {"job done", "final", "gone"}

IInv == TypeOK /\ RowsFitRequests /\ PollerFits /\ ImportedFromFinished

USE DEF Goto, PollAnd

LEMMA InitIInv == Init => IInv
<1> SUFFICES ASSUME Init PROVE IInv
  OBVIOUS
<1>1. 0 \in 0 .. MaxTime /\ 0 \in 0 .. MaxDisturbances
  BY TimesAssumption, DisturbancesAssumption
<1>2. run \in [Runs -> RunRow]
  BY <1>1 DEF Init, RunRow, Notes
<1>3. TypeOK
  BY <1>1, <1>2 DEF Init, TypeOK, RequestSteps, PipelineStates, Links
<1>4. RowsFitRequests
  <2> SUFFICES ASSUME NEW r \in Runs
               PROVE  RowFits(r)
    BY DEF RowsFitRequests
  <2>1. run[r] = [status |-> "ABSENT", note |-> "none", pipelineId |-> FALSE, startedAt |-> 0]
    BY DEF Init
  <2>2. run[r].status = "ABSENT" /\ run[r].startedAt = 0
    BY <2>1
  <2>3. run[r].pipelineId = FALSE
    BY <2>1
  <2>4. request[r] = "new" /\ now = 0 /\ gitlab[r] = "none"
    BY DEF Init
  <2> QED BY <2>2, <2>3, <2>4 DEF RowFits, InFlight
<1> QED BY <1>3, <1>4 DEF Init, IInv, PollerFits, Busy, ImportedFromFinished

\* What a step may do to the rows when it neither creates a run nor saves its pipeline.
RowsStay ==
  /\ run' \in [Runs -> RunRow]
  /\ \A r \in Runs : /\ run'[r].startedAt = run[r].startedAt
                     /\ run'[r].pipelineId = run[r].pipelineId
                     /\ run'[r].status = "ABSENT" <=> run[r].status = "ABSENT"

LEMMA CloseStays ==
  ASSUME TypeOK, NEW r \in Runs, NEW note \in Notes, Close(r, note)
  PROVE  RowsStay
<1>1. CASE ~InProgress(r)
  BY <1>1 DEF Close, RowsStay, TypeOK
<1>2. CASE InProgress(r)
  BY <1>2 DEF Close, InProgress, RowsStay, TypeOK, RunRow
<1> QED BY <1>1, <1>2

LEMMA UnchangedStays ==
  ASSUME TypeOK, UNCHANGED run
  PROVE  RowsStay
BY DEF RowsStay, TypeOK

\* A step of the poller or of a tester: the requests, the pipelines and the clock stand still.
LEMMA RowsStayFit ==
  ASSUME IInv, RowsStay, UNCHANGED <<now, request, gitlab>>
  PROVE  RowsFitRequests'
BY DEF IInv, RowsStay, RowsFitRequests, RowFits, InFlight, Elapsed

\* pollRun is over: the rest of the snapshot is as good as before.
LEMMA NextRunFits ==
  ASSUME IInv, RowsStay, NEW queue \in SUBSET poller.queue, NextRun(queue),
         UNCHANGED <<now, request, gitlab, link, disturbances>>,
         connection' \in {"ACTIVE", "NEEDS_RECONNECT", "none"},
         results' \in [Runs -> {"NOT_EXECUTED", "saved", "imported"}],
         ImportedFromFinished'
  PROVE  IInv'
<1>1. poller' = [step |-> IF queue = {} THEN "idle" ELSE "next", queue |-> queue,
                 current |-> None, past |-> FALSE]
  BY DEF NextRun
<1>2. poller' \in [step : {"idle", "next", "pipeline", "jobs", "report", "import"},
                   queue : SUBSET Snapshot, current : Snapshot \cup {None}, past : BOOLEAN]
  BY <1>1 DEF IInv, TypeOK
<1>3. TypeOK'
  BY <1>2 DEF IInv, TypeOK, RowsStay
<1>4. PollerFits'
  BY <1>1 DEF IInv, PollerFits, SnapshotFits, Busy
<1> QED BY <1>3, <1>4, RowsStayFit DEF IInv

Final == {"job done", "final", "gone"}

\* A step outside the poller takes nothing back that the pass relies on.
LEMMA PollerStaysFit ==
  ASSUME IInv, UNCHANGED poller, now' \in Nat, now <= now',
         \A r \in Runs :
           /\ request[r] # "new" => /\ request'[r] # "new"
                                    /\ run'[r].startedAt = run[r].startedAt
           /\ request[r] \notin {"new", "created"} => request'[r] # "created"
           /\ gitlab[r] # "none" => gitlab'[r] # "none"
           /\ gitlab[r] \in Final => gitlab'[r] \in Final
  PROVE  PollerFits'
<1>1. ASSUME NEW s \in Snapshot, SnapshotFits(s) PROVE SnapshotFits(s)'
  BY <1>1 DEF SnapshotFits, Snapshot
<1>2. \A s \in poller.queue : s \in Snapshot
  BY DEF IInv, TypeOK
<1>3. ASSUME Busy PROVE /\ poller.current \in Snapshot /\ poller.current.pipelineId
                        /\ SnapshotFits(poller.current)'
                        /\ poller.past => Past(poller.current.id)'
  <2> DEFINE r == poller.current.id
  <2>1. /\ poller.current \in Snapshot /\ SnapshotFits(poller.current)
        /\ poller.current.pipelineId /\ (poller.past => Past(r))
    BY <1>3 DEF IInv, PollerFits
  <2>2. r \in Runs /\ request[r] # "new"
    BY <2>1 DEF Snapshot, SnapshotFits
  <2>3. now \in Nat /\ run[r].startedAt \in Nat /\ run'[r].startedAt = run[r].startedAt
    BY <2>2, TimesAssumption DEF IInv, TypeOK, RunRow
  <2>4. Past(r) => Past(r)'
    BY <2>3, TimesAssumption DEF Past, Elapsed
  <2> QED BY <1>1, <2>1, <2>4
<1>4. poller.step \in {"report", "import"} => gitlab'[poller.current.id] \in Final
  <2> SUFFICES ASSUME poller.step \in {"report", "import"}
               PROVE  gitlab'[poller.current.id] \in Final
    OBVIOUS
  <2>1. poller.current.id \in Runs /\ gitlab[poller.current.id] \in Final
    BY DEF IInv, PollerFits, Busy, Snapshot, Final
  <2> QED BY <2>1
<1> QED BY <1>1, <1>2, <1>3, <1>4 DEF IInv, PollerFits, Busy, Final

LEMMA CreateRunIInv ==
  ASSUME IInv, NEW r \in Runs, CreateRun(r)
  PROVE  IInv'
<1>1. now \in 0 .. MaxTime /\ run[r] \in RunRow /\ now \in Nat
  BY TimesAssumption DEF IInv, TypeOK
<1>2. /\ run' = [run EXCEPT ![r].status = "IN_PROGRESS", ![r].startedAt = now]
      /\ request' = [request EXCEPT ![r] = "created"]
      /\ request[r] = "new" /\ UNCHANGED <<now, gitlab, poller, results>>
  BY DEF CreateRun
<1>3. /\ run'[r].status = "IN_PROGRESS" /\ run'[r].startedAt = now
      /\ run'[r].pipelineId = run[r].pipelineId
      /\ run' \in [Runs -> RunRow]
      /\ \A x \in Runs \ {r} : run'[x] = run[x]
  BY <1>1, <1>2 DEF IInv, TypeOK, RunRow
<1>4. request'[r] = "created" /\ \A x \in Runs \ {r} : request'[x] = request[x]
  BY <1>2 DEF IInv, TypeOK
<1>5. TypeOK'
  BY <1>2, <1>3 DEF CreateRun, IInv, TypeOK, RequestSteps
<1>6. RowsFitRequests'
  <2> SUFFICES ASSUME NEW x \in Runs
               PROVE  RowFits(x)'
    BY DEF RowsFitRequests
  <2>1. CASE x = r
    <3>1. ~run[r].pipelineId /\ gitlab[r] = "none"
      BY <1>2 DEF IInv, RowsFitRequests, RowFits
    <3> QED BY <1>1, <1>2, <1>3, <1>4, <2>1, <3>1, TimesAssumption DEF RowFits, Elapsed
  <2>2. CASE x # r
    BY <1>2, <1>3, <1>4, <2>2 DEF IInv, RowsFitRequests, RowFits, InFlight, Elapsed
  <2> QED BY <2>1, <2>2
<1>7. PollerFits'
  BY <1>1, <1>2, <1>3, <1>4, PollerStaysFit
<1>8. ImportedFromFinished'
  BY <1>2 DEF IInv, ImportedFromFinished
<1> QED BY <1>5, <1>6, <1>7, <1>8 DEF IInv

\* A request in flight goes on to a step after "created".
Moves(r, step) ==
  /\ InFlight(r) /\ Goto(r, step)
  /\ step \in RequestSteps \ {"new", "created"}
  /\ run' \in [Runs -> RunRow] /\ \A x \in Runs \ {r} : run'[x] = run[x]
  /\ run'[r].startedAt = run[r].startedAt /\ run'[r].status # "ABSENT"
  /\ gitlab' \in [Runs -> PipelineStates] /\ \A x \in Runs \ {r} : gitlab'[x] = gitlab[x]
  /\ gitlab'[r] = gitlab[r] \/ gitlab[r] = "none"
  /\ step \in {"accepted", "retrying"} \/ run'[r].pipelineId => gitlab'[r] # "none"
  /\ connection' \in {"ACTIVE", "NEEDS_RECONNECT", "none"}
  /\ UNCHANGED <<now, results, link, poller, disturbances>>

LEMMA MovesIInv ==
  ASSUME IInv, NEW r \in Runs, NEW step, Moves(r, step)
  PROVE  IInv'
<1>1. request'[r] = step /\ \A x \in Runs \ {r} : request'[x] = request[x]
  BY DEF IInv, TypeOK, Moves
<1>2. now \in Nat
  BY TimesAssumption DEF IInv, TypeOK
<1>3. TypeOK'
  BY DEF IInv, TypeOK, Moves
<1>4. RowsFitRequests'
  <2> SUFFICES ASSUME NEW x \in Runs
               PROVE  RowFits(x)'
    BY DEF RowsFitRequests
  <2>1. CASE x = r
    BY <1>1, <2>1 DEF IInv, RowsFitRequests, RowFits, InFlight, Elapsed, Moves
  <2>2. CASE x # r
    BY <1>1, <2>2 DEF IInv, RowsFitRequests, RowFits, InFlight, Elapsed, Moves
  <2> QED BY <2>1, <2>2
<1>5. PollerFits'
  <2>1. ASSUME NEW x \in Runs
        PROVE  /\ request[x] # "new" => request'[x] # "new" /\ run'[x].startedAt = run[x].startedAt
               /\ request[x] \notin {"new", "created"} => request'[x] # "created"
               /\ gitlab[x] # "none" => gitlab'[x] # "none"
               /\ gitlab[x] \in Final => gitlab'[x] \in Final
    BY <1>1 DEF Moves, Final
  <2>2. UNCHANGED <<poller, now>>
    BY DEF Moves
  <2> QED BY <1>2, <2>1, <2>2, PollerStaysFit
<1>6. ImportedFromFinished'
  <2> SUFFICES ASSUME NEW x \in Runs, results[x] = "imported"
               PROVE  gitlab'[x] \in Final
    BY DEF ImportedFromFinished, Moves, Final
  <2>1. gitlab[x] \in Final
    BY DEF IInv, ImportedFromFinished, Final
  <2> QED BY <2>1 DEF Moves, Final
<1> QED BY <1>3, <1>4, <1>5, <1>6 DEF IInv

LEMMA HasRow ==
  ASSUME IInv, NEW r \in Runs, InFlight(r)
  PROVE  /\ run \in [Runs -> RunRow] /\ run[r].status # "ABSENT"
         /\ run[r].pipelineId => gitlab[r] # "none"
         /\ request[r] = "created" => gitlab[r] = "none" /\ ~run[r].pipelineId
BY DEF IInv, TypeOK, RowsFitRequests, RowFits, InFlight

LEMMA AcceptedIInv ==
  ASSUME IInv, NEW r \in Runs, PipelineAccepted(r)
  PROVE  IInv'
<1>1. InFlight(r) /\ Goto(r, "accepted")
  BY DEF PipelineAccepted, InFlight
<1>2. /\ gitlab' = [gitlab EXCEPT ![r] = "running"] /\ request[r] = "created"
      /\ UNCHANGED <<now, run, results, link, connection, poller, disturbances>>
  BY DEF PipelineAccepted
<1>3. gitlab' \in [Runs -> PipelineStates] /\ gitlab'[r] = "running"
  BY <1>2 DEF IInv, TypeOK, PipelineStates
<1>4. Moves(r, "accepted")
  BY <1>1, <1>2, <1>3, HasRow DEF IInv, TypeOK, RequestSteps, Moves
<1> QED BY <1>4, MovesIInv

LEMMA FailedIInv ==
  ASSUME IInv, NEW r \in Runs, PipelineFailed(r)
  PROVE  IInv'
<1>1. PICK failure \in CallFailures :
        /\ Goto(r, failure)
        /\ \/ UNCHANGED gitlab
           \/ gitlab' = [gitlab EXCEPT ![r] = "running"]
  BY DEF PipelineFailed
<1>2. /\ request[r] = "created" /\ InFlight(r)
      /\ UNCHANGED <<now, run, results, link, connection, poller, disturbances>>
  BY DEF PipelineFailed, InFlight
<1>3. /\ gitlab' \in [Runs -> PipelineStates]
      /\ gitlab'[r] = gitlab[r] \/ gitlab'[r] = "running"
      /\ \A x \in Runs \ {r} : gitlab'[x] = gitlab[x]
  BY <1>1 DEF IInv, TypeOK, PipelineStates
<1>4. failure \in RequestSteps \ {"new", "created"} /\ failure \notin {"accepted", "retrying"}
  BY DEF CallFailures, RequestSteps
<1>5. Moves(r, failure)
  BY <1>1, <1>2, <1>3, <1>4, HasRow DEF IInv, TypeOK, Moves
<1> QED BY <1>5, MovesIInv

LEMMA CloseAfterFailureIInv ==
  ASSUME IInv, NEW r \in Runs, CloseAfterTriggerFailure(r)
  PROVE  IInv'
<1> DEFINE note == IF request[r] = "unconfirmed" THEN MayHaveStarted ELSE CouldNotStart
           step == IF request[r] = "unauthorized" THEN "marking" ELSE "done"
<1>1. /\ run' = [run EXCEPT ![r].status = "COMPLETED", ![r].note = note]
      /\ Goto(r, step) /\ request[r] \in CallFailures
      /\ UNCHANGED <<now, results, gitlab, link, connection, poller, disturbances>>
  BY DEF CloseAfterTriggerFailure
<1>2. note \in Notes /\ step \in RequestSteps \ {"new", "created", "accepted", "retrying"}
  BY DEF Notes, RequestSteps
<1>3. run \in [Runs -> RunRow] /\ run[r].status # "ABSENT" /\ InFlight(r)
  BY <1>1, HasRow DEF CallFailures, InFlight
<1> HIDE DEF note, step
<1>4. /\ run' \in [Runs -> RunRow]
      /\ \A x \in Runs \ {r} : run'[x] = run[x]
      /\ run'[r].status = "COMPLETED" /\ run'[r].startedAt = run[r].startedAt
      /\ run'[r].pipelineId = run[r].pipelineId
  BY <1>1, <1>2, <1>3 DEF RunRow
<1>5. run'[r].pipelineId => gitlab'[r] # "none"
  BY <1>1, <1>3, <1>4, HasRow
<1>6. Moves(r, step)
  BY <1>1, <1>2, <1>3, <1>4, <1>5 DEF IInv, TypeOK, Moves
<1> QED BY <1>6, MovesIInv

LEMMA MarkIInv ==
  ASSUME IInv, NEW r \in Runs, MarkAfterUnauthorized(r)
  PROVE  IInv'
<1>1. /\ request[r] = "marking" /\ InFlight(r) /\ Goto(r, "done")
      /\ connection' = Mark(connection)
      /\ UNCHANGED <<now, run, results, gitlab, link, poller, disturbances>>
  BY DEF MarkAfterUnauthorized, InFlight
<1>2. connection' \in {"ACTIVE", "NEEDS_RECONNECT", "none"}
  BY <1>1 DEF Mark
<1>3. Moves(r, "done")
  BY <1>1, <1>2, HasRow DEF IInv, TypeOK, RequestSteps, Moves
<1> QED BY <1>3, MovesIInv

\* What the answer of savePipeline may leave behind, whichever of its outcomes it is.
LEMMA SaveKeeps ==
  ASSUME IInv, NEW r \in Runs, SavePipeline(r)
  PROVE  /\ run' \in [Runs -> RunRow]
         /\ \A x \in Runs \ {r} : run'[x] = run[x]
         /\ run'[r].status = run[r].status /\ run'[r].startedAt = run[r].startedAt
         /\ run'[r].note = run[r].note
<1>1. run' = run \/ run' = [run EXCEPT ![r].pipelineId = TRUE]
  BY DEF SavePipeline
<1>2. run \in [Runs -> RunRow]
  BY DEF IInv, TypeOK
<1>3. CASE run' = run
  BY <1>2, <1>3
<1>4. CASE run' = [run EXCEPT ![r].pipelineId = TRUE]
  BY <1>2, <1>4 DEF RunRow
<1> QED BY <1>1, <1>3, <1>4

LEMMA SavePipelineIInv ==
  ASSUME IInv, NEW r \in Runs, SavePipeline(r)
  PROVE  IInv'
<1>1. /\ request[r] \in {"accepted", "retrying"} /\ InFlight(r)
      /\ Goto(r, "done") \/ Goto(r, "retrying")
      /\ UNCHANGED <<now, results, gitlab, link, connection, poller, disturbances>>
  BY DEF SavePipeline, InFlight
<1>2. gitlab[r] # "none"
  BY <1>1 DEF IInv, RowsFitRequests, RowFits
<1>3. ASSUME NEW step \in {"done", "retrying"}, Goto(r, step) PROVE Moves(r, step)
  BY <1>1, <1>2, <1>3, SaveKeeps, HasRow DEF IInv, TypeOK, RequestSteps, Moves
<1> QED BY <1>1, <1>3, MovesIInv

LEMMA TriggerIInv ==
  ASSUME IInv, NEW r \in Runs, TriggerStep(r)
  PROVE  IInv'
BY AcceptedIInv, FailedIInv, CloseAfterFailureIInv, MarkIInv, SavePipelineIInv DEF TriggerStep

LEMMA StartPassIInv == IInv /\ StartPass => IInv'
<1> SUFFICES ASSUME IInv, StartPass
             PROVE  IInv'
  OBVIOUS
<1> DEFINE read == {[id |-> r, pipelineId |-> run[r].pipelineId, link |-> link]
                      : r \in {x \in Runs : InProgress(x)}}
<1>1. /\ poller.step = "idle"
      /\ poller' = [poller EXCEPT !.step = "next", !.queue = read]
      /\ UNCHANGED <<now, run, results, request, gitlab, link, connection, disturbances>>
  BY DEF StartPass
<1>2. ASSUME NEW s \in read PROVE s \in Snapshot /\ SnapshotFits(s)
  <2>1. PICK r \in Runs : InProgress(r) /\ s = [id |-> r, pipelineId |-> run[r].pipelineId, link |-> link]
    OBVIOUS
  <2>2. run[r].pipelineId \in BOOLEAN /\ link \in Links
    BY DEF IInv, TypeOK, RunRow
  <2>3. s.id = r /\ s.pipelineId = run[r].pipelineId
    BY <2>1
  <2>4. /\ request[r] # "new"
        /\ run[r].pipelineId => request[r] # "created" /\ gitlab[r] # "none"
    BY <2>1 DEF IInv, RowsFitRequests, RowFits, InProgress
  <2> QED BY <2>1, <2>2, <2>3, <2>4 DEF Snapshot, SnapshotFits
<1> HIDE DEF read
<1>3. poller'.step = "next" /\ poller'.queue = read /\ TypeOK'
  BY <1>1, <1>2 DEF IInv, TypeOK
<1>4. PollerFits'
  BY <1>1, <1>2, <1>3 DEF PollerFits, SnapshotFits, Busy
<1>5. RowsFitRequests'
  BY <1>1, UnchangedStays, RowsStayFit DEF IInv
<1> QED BY <1>1, <1>3, <1>4, <1>5 DEF IInv, ImportedFromFinished

\* pollRun goes on to its next call, for the same run.
LEMMA GoesOnIInv ==
  ASSUME IInv, Busy, NEW step \in {"jobs", "report", "import"}, PollAnd(step),
         step \in {"report", "import"} => gitlab[poller.current.id] \in Final,
         UNCHANGED <<now, run, results, request, gitlab, link, connection, disturbances>>
  PROVE  IInv'
<1>1. /\ poller'.step = step /\ poller'.queue = poller.queue
      /\ poller'.current = poller.current /\ poller'.past = poller.past /\ TypeOK'
  BY DEF IInv, TypeOK
<1>2. PollerFits'
  BY <1>1 DEF IInv, PollerFits, SnapshotFits, Busy, Past, Elapsed, Final
<1>3. RowsFitRequests'
  BY UnchangedStays, RowsStayFit DEF IInv
<1> QED BY <1>1, <1>2, <1>3 DEF IInv, ImportedFromFinished

\* pollRun ends without an import.
Ends(queue) ==
  /\ RowsStay /\ NextRun(queue) /\ queue \in SUBSET poller.queue
  /\ connection' \in {"ACTIVE", "NEEDS_RECONNECT", "none"}
  /\ UNCHANGED <<now, results, request, gitlab, link, disturbances>>

LEMMA EndsIInv ==
  ASSUME IInv, NEW queue, Ends(queue)
  PROVE  IInv'
<1>1. ImportedFromFinished'
  BY DEF IInv, Ends, ImportedFromFinished
<1>2. results' \in [Runs -> {"NOT_EXECUTED", "saved", "imported"}]
  BY DEF IInv, TypeOK, Ends
<1> QED BY <1>1, <1>2, NextRunFits DEF Ends

LEMMA PollRunIInv ==
  ASSUME IInv, NEW s \in poller.queue, PollRun(s)
  PROVE  IInv'
<1> DEFINE rest == poller.queue \ {s}
<1>1. /\ s \in Snapshot /\ s.id \in Runs /\ SnapshotFits(s)
      /\ {NotConfirmed, LinkRemoved, TimedOut} \subseteq Notes
  BY DEF IInv, TypeOK, Snapshot, PollerFits, Notes
<1>2. UNCHANGED <<now, results, request, gitlab, link, connection, disturbances>>
  BY DEF PollRun
<1>3. CASE NextRun(rest) /\ (\E note \in {NotConfirmed, LinkRemoved, TimedOut} : Close(s.id, note))
  BY <1>1, <1>2, <1>3, CloseStays, EndsIInv DEF IInv, TypeOK, Ends
<1>4. CASE NextRun(rest) /\ UNCHANGED run
  BY <1>2, <1>4, UnchangedStays, EndsIInv DEF IInv, TypeOK, Ends
<1>5. CASE /\ s.pipelineId /\ UNCHANGED run
           /\ poller' = [step |-> "pipeline", queue |-> rest, current |-> s, past |-> Past(s.id)]
  <2>1. Past(s.id) \in BOOLEAN
    BY DEF Past
  <2>2. /\ poller'.step = "pipeline" /\ poller'.queue = rest
        /\ poller'.current = s /\ poller'.past = Past(s.id) /\ TypeOK'
    BY <1>1, <1>2, <1>5, <2>1 DEF IInv, TypeOK
  <2>3. Past(s.id)' = Past(s.id)
    BY <1>2, <1>5 DEF Past, Elapsed
  <2>4. PollerFits'
    BY <1>1, <1>2, <1>5, <2>2, <2>3 DEF IInv, PollerFits, SnapshotFits, Busy
  <2>5. RowsFitRequests'
    BY <1>2, <1>5, UnchangedStays, RowsStayFit DEF IInv
  <2> QED BY <1>2, <2>2, <2>4, <2>5 DEF IInv, ImportedFromFinished
<1> QED BY <1>3, <1>4, <1>5 DEF PollRun

\* What a call of the poller leaves of the connection is a connection.
LEMMA CallKeepsConnection ==
  ASSUME TypeOK, NEW call, CallFails(call)
  PROVE  connection' \in {"ACTIVE", "NEEDS_RECONNECT", "none"}
BY DEF TypeOK, CallFails, Mark

\* The run of a busy poller, and the notes it may be closed with.
LEMMA CurrentRun ==
  ASSUME IInv, Busy
  PROVE  /\ poller.current.id \in Runs
         /\ gitlab[poller.current.id] \in PipelineStates \ {"none"}
         /\ {NotConfirmed, LinkRemoved, PipelineGone, TimedOut, NoReport} \subseteq Notes
         /\ poller.past => Past(poller.current.id)
BY DEF IInv, TypeOK, PollerFits, SnapshotFits, Snapshot, Notes

LEMMA GiveUpStays ==
  ASSUME IInv, Busy, GiveUpIfPast(poller.current.id)
  PROVE  RowsStay
BY CurrentRun, CloseStays, UnchangedStays DEF GiveUpIfPast, IInv

LEMMA PollPipelineIInv == IInv /\ PollPipeline => IInv'
<1> SUFFICES ASSUME IInv, PollPipeline
             PROVE  IInv'
  OBVIOUS
<1> DEFINE r == poller.current.id
<1>1. Busy /\ UNCHANGED <<now, results, request, gitlab, link, disturbances>>
  BY DEF PollPipeline, Busy
<1>2. CASE Close(r, PipelineGone) /\ NextRun(poller.queue) /\ UNCHANGED connection
  <2>1. RowsStay
    BY <1>1, <1>2, CurrentRun, CloseStays DEF IInv
  <2> QED BY <1>1, <1>2, <2>1, EndsIInv DEF IInv, TypeOK, Ends
<1>3. CASE CallFails("pipeline") /\ GiveUpIfPast(r) /\ NextRun(poller.queue)
  BY <1>1, <1>3, GiveUpStays, CallKeepsConnection, EndsIInv DEF IInv, Ends
<1>4. CASE /\ PollAnd(IF gitlab[r] = "final" THEN "report" ELSE "jobs")
           /\ UNCHANGED <<run, connection>>
  <2>1. CASE gitlab[r] = "final"
    BY <1>1, <1>4, <2>1, GoesOnIInv DEF Final
  <2>2. CASE gitlab[r] # "final"
    BY <1>1, <1>4, <2>2, GoesOnIInv DEF Final
  <2> QED BY <2>1, <2>2
<1> QED BY <1>2, <1>3, <1>4 DEF PollPipeline

LEMMA PollJobsIInv == IInv /\ PollJobs => IInv'
<1> SUFFICES ASSUME IInv, PollJobs
             PROVE  IInv'
  OBVIOUS
<1> DEFINE r == poller.current.id
<1>1. Busy /\ UNCHANGED <<now, results, request, gitlab, link, disturbances>>
  BY DEF PollJobs, Busy
<1>2. CASE /\ CallFails("jobs") \/ UNCHANGED connection
           /\ NextRun(poller.queue) /\ UNCHANGED run
  BY <1>1, <1>2, UnchangedStays, CallKeepsConnection, EndsIInv DEF IInv, TypeOK, Ends
<1>3. CASE GiveUpIfPast(r) /\ NextRun(poller.queue) /\ UNCHANGED connection
  BY <1>1, <1>3, GiveUpStays, EndsIInv DEF IInv, TypeOK, Ends
<1>4. CASE JobFinal(r) /\ PollAnd("report") /\ UNCHANGED <<run, connection>>
  <2>1. gitlab[r] \in Final
    BY <1>1, <1>4, CurrentRun DEF JobFinal, PipelineStates, Final
  <2> QED BY <1>1, <1>4, <2>1, GoesOnIInv
<1> QED BY <1>2, <1>3, <1>4 DEF PollJobs

LEMMA ReadReportIInv == IInv /\ ReadReport => IInv'
<1> SUFFICES ASSUME IInv, ReadReport
             PROVE  IInv'
  OBVIOUS
<1> DEFINE r == poller.current.id
<1>1. Busy /\ UNCHANGED <<now, results, request, gitlab, link, disturbances>>
  BY DEF ReadReport, Busy
<1>2. CASE /\ CallFails("report") \/ UNCHANGED connection
           /\ NextRun(poller.queue) /\ UNCHANGED run
  BY <1>1, <1>2, UnchangedStays, CallKeepsConnection, EndsIInv DEF IInv, TypeOK, Ends
<1>3. CASE /\ Close(r, LinkRemoved) \/ Close(r, NoReport)
           /\ NextRun(poller.queue) /\ UNCHANGED connection
  <2>1. RowsStay
    BY <1>1, <1>3, CurrentRun, CloseStays DEF IInv
  <2> QED BY <1>1, <1>3, <2>1, EndsIInv DEF IInv, TypeOK, Ends
<1>4. CASE PollAnd("import") /\ UNCHANGED <<run, connection>>
  <2>1. gitlab[r] \in Final
    BY DEF ReadReport, IInv, PollerFits, Final
  <2> QED BY <1>1, <1>4, <2>1, GoesOnIInv
<1> QED BY <1>2, <1>3, <1>4 DEF ReadReport

LEMMA ImportIInv == IInv /\ ImportResults => IInv'
<1> SUFFICES ASSUME IInv, ImportResults
             PROVE  IInv'
  OBVIOUS
<1> DEFINE r == poller.current.id
<1>1. /\ Busy /\ NextRun(poller.queue)
      /\ UNCHANGED <<now, request, gitlab, link, connection, disturbances>>
  BY DEF ImportResults, Busy
<1>2. CASE ~InProgress(r)
  BY <1>1, <1>2, UnchangedStays, EndsIInv DEF IInv, TypeOK, Ends, ImportResults
<1>3. CASE InProgress(r)
  <2>1. /\ run' = [run EXCEPT ![r].status = "COMPLETED"]
        /\ results' = [results EXCEPT ![r] = "imported"]
    BY <1>3 DEF ImportResults
  <2>2. run \in [Runs -> RunRow] /\ r \in Runs /\ gitlab[r] \in Final
    BY <1>1, CurrentRun DEF IInv, TypeOK, ImportResults, PollerFits, Final
  <2>3. RowsStay
    BY <1>3, <2>1, <2>2 DEF RowsStay, RunRow, InProgress
  <2>4. results' \in [Runs -> {"NOT_EXECUTED", "saved", "imported"}]
    BY <2>1 DEF IInv, TypeOK
  <2>5. ImportedFromFinished'
    BY <1>1, <2>1, <2>2 DEF IInv, TypeOK, ImportedFromFinished, Final
  <2> QED BY <1>1, <2>3, <2>4, <2>5, NextRunFits DEF IInv, TypeOK
<1> QED BY <1>2, <1>3

LEMMA PollerIInv == IInv /\ PollerStep => IInv'
BY StartPassIInv, PollRunIInv, PollPipelineIInv, PollJobsIInv, ReadReportIInv, ImportIInv
   DEF PollerStep

LEMMA CompleteByHandIInv ==
  ASSUME IInv, NEW r \in Runs, CompleteByHand(r)
  PROVE  IInv'
<1>1. /\ run' = [run EXCEPT ![r].status = "COMPLETED"] /\ InProgress(r)
      /\ UNCHANGED <<now, results, request, gitlab, link, connection, poller, disturbances>>
  BY DEF CompleteByHand
<1>2. RowsStay
  BY <1>1 DEF IInv, TypeOK, RowsStay, RunRow, InProgress
<1>3. TypeOK'
  BY <1>1, <1>2 DEF IInv, TypeOK, RowsStay
<1>4. now \in Nat
  BY TimesAssumption DEF IInv, TypeOK
<1>5. PollerFits'
  BY <1>1, <1>2, <1>4, PollerStaysFit DEF RowsStay
<1> QED BY <1>1, <1>2, <1>3, <1>5, RowsStayFit DEF IInv, ImportedFromFinished

LEMMA SaveByHandIInv ==
  ASSUME IInv, NEW r \in Runs, SaveByHand(r)
  PROVE  IInv'
<1>1. /\ results' = [results EXCEPT ![r] = "saved"]
      /\ UNCHANGED <<now, run, request, gitlab, link, connection, poller, disturbances>>
  BY DEF SaveByHand
<1>2. TypeOK' /\ ImportedFromFinished'
  BY <1>1 DEF IInv, TypeOK, ImportedFromFinished
<1>3. RowsFitRequests'
  BY <1>1, UnchangedStays, RowsStayFit DEF IInv
<1>4. PollerFits'
  BY <1>1 DEF IInv, PollerFits, SnapshotFits, Busy, Past, Elapsed
<1> QED BY <1>2, <1>3, <1>4 DEF IInv

LEMMA PipelineMovesIInv ==
  ASSUME IInv, NEW r \in Runs, PipelineMoves(r)
  PROVE  IInv'
<1>1. PICK s \in Final : gitlab' = [gitlab EXCEPT ![r] = s]
  BY DEF PipelineMoves, Final
<1>2. /\ gitlab[r] # "none"
      /\ UNCHANGED <<now, run, results, request, link, connection, poller, disturbances>>
  BY DEF PipelineMoves
<1>3. gitlab' \in [Runs -> PipelineStates] /\ gitlab'[r] = s
      /\ \A x \in Runs \ {r} : gitlab'[x] = gitlab[x]
  BY <1>1 DEF IInv, TypeOK, PipelineStates, Final
<1>4. TypeOK'
  BY <1>2, <1>3 DEF IInv, TypeOK
<1>5. RowsFitRequests'
  <2> SUFFICES ASSUME NEW x \in Runs
               PROVE  RowFits(x)'
    BY DEF RowsFitRequests
  <2> QED BY <1>1, <1>2, <1>3 DEF IInv, RowsFitRequests, RowFits, InFlight, Elapsed, Final
<1>6. now \in Nat
  BY TimesAssumption DEF IInv, TypeOK
<1>7. PollerFits'
  <2>1. ASSUME NEW x \in Runs
        PROVE  /\ gitlab[x] # "none" => gitlab'[x] # "none"
               /\ gitlab[x] \in Final => gitlab'[x] \in Final
    BY <1>3 DEF Final
  <2> QED BY <1>2, <1>6, <2>1, PollerStaysFit
<1>8. ImportedFromFinished'
  BY <1>2, <1>3 DEF IInv, ImportedFromFinished, Final
<1> QED BY <1>4, <1>5, <1>7, <1>8 DEF IInv

LEMMA LinkAndConnectionIInv == IInv /\ (ChangeLink \/ ChangeConnection) => IInv'
<1> SUFFICES ASSUME IInv, ChangeLink \/ ChangeConnection
             PROVE  IInv'
  OBVIOUS
<1>1. /\ UNCHANGED <<now, run, results, request, gitlab, poller>>
      /\ disturbances < MaxDisturbances /\ disturbances' = disturbances + 1
      /\ link' \in Links /\ connection' \in {"ACTIVE", "NEEDS_RECONNECT", "none"}
  BY DEF ChangeLink, ChangeConnection, Disturb, IInv, TypeOK
<1>2. disturbances' \in 0 .. MaxDisturbances
  BY <1>1, DisturbancesAssumption DEF IInv, TypeOK
<1>3. TypeOK' /\ ImportedFromFinished'
  BY <1>1, <1>2 DEF IInv, TypeOK, ImportedFromFinished
<1>4. RowsFitRequests'
  BY <1>1, UnchangedStays, RowsStayFit DEF IInv
<1>5. PollerFits'
  BY <1>1 DEF IInv, PollerFits, SnapshotFits, Busy, Past, Elapsed
<1> QED BY <1>3, <1>4, <1>5 DEF IInv

LEMMA CrashIInv == IInv /\ Crash => IInv'
<1> SUFFICES ASSUME IInv, Crash
             PROVE  IInv'
  OBVIOUS
<1>1. /\ UNCHANGED <<now, run, results, gitlab, link, connection>>
      /\ disturbances < MaxDisturbances /\ disturbances' = disturbances + 1
      /\ request' = [r \in Runs |-> IF InFlight(r) THEN "dead" ELSE request[r]]
      /\ poller' = [step |-> "idle", queue |-> {}, current |-> None, past |-> FALSE]
  BY DEF Crash, Disturb
<1>2. disturbances' \in 0 .. MaxDisturbances
  BY <1>1, DisturbancesAssumption DEF IInv, TypeOK
<1>3. request' \in [Runs -> RequestSteps]
  BY <1>1 DEF IInv, TypeOK, RequestSteps
<1>4. TypeOK' /\ ImportedFromFinished'
  BY <1>1, <1>2, <1>3 DEF IInv, TypeOK, ImportedFromFinished
<1>5. RowsFitRequests'
  <2> SUFFICES ASSUME NEW x \in Runs
               PROVE  RowFits(x)'
    BY DEF RowsFitRequests
  <2>1. request'[x] = IF InFlight(x) THEN "dead" ELSE request[x]
    BY <1>1
  <2> QED BY <1>1, <2>1 DEF IInv, RowsFitRequests, RowFits, InFlight, Elapsed
<1>6. PollerFits'
  BY <1>1 DEF PollerFits, Busy
<1> QED BY <1>4, <1>5, <1>6 DEF IInv

\* Time waits for the requests in flight: that alone keeps them younger than the grace period.
LEMMA TickIInv == IInv /\ Tick => IInv'
<1> SUFFICES ASSUME IInv, Tick
             PROVE  IInv'
  OBVIOUS
<1>1. /\ now' = now + 1 /\ now < MaxTime
      /\ \A r \in Runs : InFlight(r) => Elapsed(r) < Grace
      /\ UNCHANGED <<run, results, request, gitlab, link, connection, poller, disturbances>>
  BY DEF Tick
<1>2. now \in Nat /\ now' \in 0 .. MaxTime
  BY <1>1, TimesAssumption DEF IInv, TypeOK
<1>3. TypeOK' /\ ImportedFromFinished'
  BY <1>1, <1>2 DEF IInv, TypeOK, ImportedFromFinished
<1>4. RowsFitRequests'
  <2> SUFFICES ASSUME NEW x \in Runs
               PROVE  RowFits(x)'
    BY DEF RowsFitRequests
  <2>1. run[x].startedAt \in Nat
    BY TimesAssumption DEF IInv, TypeOK, RunRow
  <2>2. RowFits(x) /\ (InFlight(x) => Elapsed(x) < Grace)
    BY <1>1 DEF IInv, RowsFitRequests
  <2> QED BY <1>1, <1>2, <2>1, <2>2, TimesAssumption DEF RowFits, InFlight, Elapsed
<1>5. PollerFits'
  BY <1>1, <1>2, PollerStaysFit, TimesAssumption
<1> QED BY <1>3, <1>4, <1>5 DEF IInv

LEMMA StutterIInv == IInv /\ UNCHANGED vars => IInv'
<1> SUFFICES ASSUME IInv, UNCHANGED vars
             PROVE  IInv'
  OBVIOUS
<1>1. TypeOK' /\ ImportedFromFinished'
  BY DEF vars, IInv, TypeOK, ImportedFromFinished
<1>2. RowsFitRequests'
  BY UnchangedStays, RowsStayFit DEF IInv, vars
<1>3. PollerFits'
  BY DEF vars, IInv, PollerFits, SnapshotFits, Busy, Past, Elapsed
<1> QED BY <1>1, <1>2, <1>3 DEF IInv

LEMMA NextIInv == IInv /\ [Next]_vars => IInv'
<1>1. IInv /\ Environment => IInv'
  BY CreateRunIInv, CompleteByHandIInv, SaveByHandIInv, PipelineMovesIInv, LinkAndConnectionIInv,
     CrashIInv DEF Environment
<1> QED BY <1>1, TriggerIInv, PollerIInv, TickIInv, StutterIInv DEF Next, Finished

LEMMA Invariance == Spec => []IInv
BY InitIInv, NextIInv, PTL DEF Spec

\* The clock, the rows, the requests and the pass always have their types.
THEOREM TypeCorrect == Spec => []TypeOK
BY Invariance, PTL DEF IInv

\* No pipeline that is still running, or that never existed, is imported: not by a stale snapshot,
\* after a crash or with another project linked (resolveFinalStatus, importPipeline).
THEOREM OnlyFinishedIsImported == Spec => []ImportedFromFinished
BY Invariance, PTL DEF IInv

------------------------------------------------------------------------------
(* What a step does to the runs *)

\* The note a run gets says the truth about it.
NoteFits(r) ==
  /\ run'[r].note = TimedOut =>
       /\ Past(r)
       /\ gitlab[r] = "running" \/ connection # "ACTIVE" \/ "pipeline" \in FailingCalls
  /\ run'[r].note = NotConfirmed => ~InFlight(r)

\* A step that concerns run r, as everybody but the trigger, the poller and the testers sees it.
Concerns(r) ==
  /\ \A x \in Runs \ {r} : /\ run'[x].status = run[x].status /\ run'[x].note = run[x].note
                           /\ results'[x] = results[x]
  /\ \/ run'[r].status = run[r].status /\ results'[r] = results[r]
     \/ run[r].status = "ABSENT" /\ run'[r].status = "IN_PROGRESS"
     \/ InProgress(r) /\ run'[r].status \in {"IN_PROGRESS", "COMPLETED"}
  /\ run'[r].note = run[r].note \/ NoteFits(r)

LEMMA CloseConcerns ==
  ASSUME TypeOK, NEW r \in Runs, NEW note \in Notes, Close(r, note), UNCHANGED results,
         note = TimedOut => /\ Past(r)
                            /\ \/ gitlab[r] = "running" \/ connection # "ACTIVE"
                               \/ "pipeline" \in FailingCalls,
         note = NotConfirmed => ~InFlight(r)
  PROVE  Concerns(r)
<1>1. CASE ~InProgress(r)
  BY <1>1 DEF Close, Concerns
<1>2. CASE InProgress(r)
  <2>1. run' = [run EXCEPT ![r].status = "COMPLETED", ![r].note = note]
    BY <1>2 DEF Close
  <2>2. /\ run'[r].status = "COMPLETED" /\ run'[r].note = note
        /\ \A x \in Runs \ {r} : run'[x] = run[x]
    BY <2>1 DEF TypeOK, RunRow
  <2> QED BY <1>2, <2>2 DEF Concerns, NoteFits
<1> QED BY <1>1, <1>2

LEMMA TriggerConcerns ==
  ASSUME IInv, NEW r \in Runs, TriggerStep(r)
  PROVE  Concerns(r)
<1>1. CASE PipelineAccepted(r) \/ PipelineFailed(r) \/ MarkAfterUnauthorized(r)
  BY <1>1 DEF PipelineAccepted, PipelineFailed, MarkAfterUnauthorized, Concerns
<1>2. CASE CloseAfterTriggerFailure(r)
  <2> DEFINE note == IF request[r] = "unconfirmed" THEN MayHaveStarted ELSE CouldNotStart
  <2>1. /\ run' = [run EXCEPT ![r].status = "COMPLETED", ![r].note = note]
        /\ UNCHANGED results /\ request[r] \in CallFailures
    BY <1>2 DEF CloseAfterTriggerFailure
  <2>2. note # TimedOut /\ note # NotConfirmed
    BY DEF MayHaveStarted, CouldNotStart, TimedOut, NotConfirmed
  <2>3. InFlight(r)
    BY <2>1 DEF CallFailures, InFlight
  <2>4. run \in [Runs -> RunRow] /\ run[r].status # "ABSENT"
    BY <2>3, HasRow
  <2> HIDE DEF note
  <2>5. /\ run'[r].status = "COMPLETED" /\ run'[r].note = note
        /\ \A x \in Runs \ {r} : run'[x] = run[x]
    BY <2>1, <2>4 DEF RunRow
  <2>6. run[r].status \in {"IN_PROGRESS", "COMPLETED"}
    BY <2>4 DEF RunRow
  <2> QED BY <2>1, <2>2, <2>5, <2>6 DEF Concerns, NoteFits, InProgress
<1>3. CASE SavePipeline(r)
  BY <1>3, SaveKeeps DEF Concerns, SavePipeline
<1> QED BY <1>1, <1>2, <1>3 DEF TriggerStep

LEMMA PollRunConcerns ==
  ASSUME IInv, NEW s \in poller.queue, PollRun(s)
  PROVE  Concerns(s.id)
<1>1. /\ s.id \in Runs /\ TypeOK /\ {NotConfirmed, LinkRemoved, TimedOut} \subseteq Notes
      /\ NotConfirmed # TimedOut /\ LinkRemoved # TimedOut /\ LinkRemoved # NotConfirmed
  BY DEF IInv, TypeOK, Snapshot, Notes, NotConfirmed, LinkRemoved, TimedOut
<1>2. UNCHANGED results
  BY DEF PollRun
<1>3. CASE UNCHANGED run
  BY <1>2, <1>3 DEF Concerns
<1>4. CASE Stuck(s.id) /\ Close(s.id, NotConfirmed)
  <2>1. ~InFlight(s.id)
    <3>1. now \in Nat /\ run[s.id].startedAt \in Nat
      BY <1>1, TimesAssumption DEF TypeOK, RunRow
    <3> QED BY <1>1, <1>4, <3>1, TimesAssumption
        DEF IInv, RowsFitRequests, RowFits, Stuck, Elapsed
  <2> QED BY <1>1, <1>2, <1>4, <2>1, CloseConcerns
<1>5. CASE Close(s.id, LinkRemoved)
  BY <1>1, <1>2, <1>5, CloseConcerns
<1>6. CASE connection # "ACTIVE" /\ Past(s.id) /\ Close(s.id, TimedOut)
  BY <1>1, <1>2, <1>6, CloseConcerns
<1> QED BY <1>3, <1>4, <1>5, <1>6 DEF PollRun

LEMMA GiveUpConcerns ==
  ASSUME IInv, Busy, UNCHANGED results, GiveUpIfPast(poller.current.id),
         \/ gitlab[poller.current.id] = "running" \/ connection # "ACTIVE"
         \/ "pipeline" \in FailingCalls
  PROVE  Concerns(poller.current.id)
<1>1. CASE poller.past
  <2>1. Close(poller.current.id, TimedOut) /\ TimedOut # NotConfirmed
    BY <1>1 DEF GiveUpIfPast, TimedOut, NotConfirmed
  <2> QED BY <1>1, <2>1, CurrentRun, CloseConcerns DEF IInv
<1>2. CASE ~poller.past
  BY <1>2 DEF GiveUpIfPast, Concerns
<1> QED BY <1>1, <1>2

LEMMA CallsConcern ==
  ASSUME IInv, PollPipeline \/ PollJobs \/ ReadReport
  PROVE  Concerns(poller.current.id)
<1> DEFINE r == poller.current.id
<1>1. Busy /\ UNCHANGED results /\ TypeOK
  BY DEF PollPipeline, PollJobs, ReadReport, Busy, IInv
<1>2. CASE UNCHANGED run
  BY <1>1, <1>2 DEF Concerns
<1>3. ASSUME NEW note \in {PipelineGone, LinkRemoved, NoReport}, Close(r, note)
      PROVE  Concerns(r)
  <2>1. note \in Notes /\ note # TimedOut /\ note # NotConfirmed
    BY DEF Notes, PipelineGone, LinkRemoved, NoReport, TimedOut, NotConfirmed
  <2> QED BY <1>1, <1>3, <2>1, CurrentRun, CloseConcerns
<1>4. CASE CallFails("pipeline") /\ GiveUpIfPast(r)
  BY <1>1, <1>4, GiveUpConcerns DEF CallFails
<1>5. CASE ~JobFinal(r) /\ GiveUpIfPast(r)
  BY <1>1, <1>5, GiveUpConcerns DEF JobFinal
<1> QED BY <1>2, <1>3, <1>4, <1>5 DEF PollPipeline, PollJobs, ReadReport

LEMMA ImportConcerns ==
  ASSUME IInv, ImportResults
  PROVE  Concerns(poller.current.id)
<1> DEFINE r == poller.current.id
<1>1. r \in Runs /\ TypeOK
  BY CurrentRun DEF IInv, ImportResults, Busy
<1>2. CASE ~InProgress(r)
  BY <1>2 DEF ImportResults, Concerns
<1>3. CASE InProgress(r)
  <2>1. /\ run' = [run EXCEPT ![r].status = "COMPLETED"]
        /\ results' = [results EXCEPT ![r] = "imported"]
    BY <1>3 DEF ImportResults
  <2> QED BY <1>1, <1>3, <2>1 DEF Concerns, TypeOK, RunRow
<1> QED BY <1>2, <1>3

\* Every step leaves all runs alone or concerns one.
LEMMA StepsConcernOneRun ==
  ASSUME IInv, [Next]_vars
  PROVE  UNCHANGED <<run, results>> \/ \E r \in Runs : Concerns(r)
<1>1. ASSUME NEW r \in Runs, CreateRun(r) PROVE Concerns(r)
  <2>1. /\ run' = [run EXCEPT ![r].status = "IN_PROGRESS", ![r].startedAt = now]
        /\ UNCHANGED results /\ request[r] = "new"
    BY <1>1 DEF CreateRun
  <2>2. run[r].status = "ABSENT" /\ run \in [Runs -> RunRow]
    BY <2>1 DEF IInv, TypeOK, RowsFitRequests, RowFits
  <2>3. /\ run'[r].status = "IN_PROGRESS" /\ run'[r].note = run[r].note
        /\ \A x \in Runs \ {r} : run'[x] = run[x]
    BY <2>1, <2>2 DEF RunRow
  <2> QED BY <2>1, <2>2, <2>3 DEF Concerns
<1>2. ASSUME NEW r \in Runs, CompleteByHand(r) PROVE Concerns(r)
  BY <1>2 DEF CompleteByHand, Concerns, InProgress, IInv, TypeOK, RunRow
<1>3. ASSUME NEW r \in Runs, SaveByHand(r) PROVE Concerns(r)
  BY <1>3 DEF SaveByHand, Concerns, InProgress, IInv, TypeOK
<1>4. CASE PollerStep
  <2>1. CASE StartPass
    BY <2>1 DEF StartPass
  <2>2. ASSUME NEW s \in poller.queue, PollRun(s) PROVE \E r \in Runs : Concerns(r)
    <3>1. s.id \in Runs
      BY DEF IInv, TypeOK, Snapshot
    <3> QED BY <2>2, <3>1, PollRunConcerns
  <2>3. CASE PollPipeline \/ PollJobs \/ ReadReport
    <3>1. Busy
      BY <2>3 DEF PollPipeline, PollJobs, ReadReport, Busy
    <3> QED BY <2>3, <3>1, CallsConcern, CurrentRun
  <2>4. CASE ImportResults
    <3>1. Busy
      BY <2>4 DEF ImportResults, Busy
    <3> QED BY <2>4, <3>1, ImportConcerns, CurrentRun
  <2> QED BY <1>4, <2>1, <2>2, <2>3, <2>4 DEF PollerStep
<1>5. CASE (\E r \in Runs : PipelineMoves(r)) \/ ChangeLink \/ ChangeConnection \/ Crash \/ Tick
           \/ UNCHANGED vars
  BY <1>5 DEF PipelineMoves, ChangeLink, ChangeConnection, Crash, Tick, vars
<1> QED BY <1>1, <1>2, <1>3, <1>4, <1>5, TriggerConcerns DEF Next, Environment, Finished

LEMMA NotesFit ==
  ASSUME IInv, [Next]_vars, NEW r \in Runs, run'[r].note # run[r].note
  PROVE  NoteFits(r)
BY StepsConcernOneRun DEF Concerns

\* However old the poller's snapshot and answers are, no run is closed as timed out before its
\* timeout: for every timeout, number of runs and interleaving (pollRun).
THEOREM TimeoutIsNeverEarly == Spec => NoEarlyTimeout
<1>1. ASSUME IInv, [Next]_vars, NEW r \in Runs, run'[r].note = TimedOut, run[r].note # TimedOut
      PROVE  Elapsed(r) > Timeout
  BY <1>1, NotesFit DEF NoteFits, Past
<1>2. IInv /\ [Next]_vars =>
        [\A r \in Runs : run'[r].note = TimedOut /\ run[r].note # TimedOut => Elapsed(r) > Timeout]_vars
  BY <1>1
<1> QED BY <1>2, Invariance, PTL DEF Spec, NoEarlyTimeout

\* A trigger request that is still going on keeps its run: the sweep and the request are kept apart
\* by nothing but the grace period, whatever its length (pollRun).
THEOREM LiveTriggersAreSpared == Spec => SweepSparesLiveTriggers
<1>1. ASSUME IInv, [Next]_vars, NEW r \in Runs, run'[r].note = NotConfirmed, run[r].note # NotConfirmed
      PROVE  ~InFlight(r)
  BY <1>1, NotesFit DEF NoteFits
<1>2. IInv /\ [Next]_vars =>
        [\A r \in Runs : run'[r].note = NotConfirmed /\ run[r].note # NotConfirmed => ~InFlight(r)]_vars
  BY <1>1
<1> QED BY <1>2, Invariance, PTL DEF Spec, SweepSparesLiveTriggers

\* While getPipeline is answered and the connection works, results that exist are not given up: a
\* finished test job is never closed as timed out (pollRun).
THEOREM FinishedIsKept ==
  ASSUME "pipeline" \notin FailingCalls
  PROVE  Spec => FinishedIsNotTimedOut
<1>1. ASSUME IInv, [Next]_vars, NEW r \in Runs, run'[r].note = TimedOut, run[r].note # TimedOut
      PROVE  gitlab[r] = "running" \/ connection # "ACTIVE"
  BY <1>1, NotesFit DEF NoteFits
<1>2. IInv /\ [Next]_vars =>
        [\A r \in Runs : run'[r].note = TimedOut /\ run[r].note # TimedOut
                            => gitlab[r] = "running" \/ connection # "ACTIVE"]_vars
  BY <1>1
<1> QED BY <1>2, Invariance, PTL DEF Spec, FinishedIsNotTimedOut

PhaseOf(r) == CASE run[r].status = "ABSENT" -> "absent"
                [] run[r].status = "IN_PROGRESS" -> "open"
                [] run[r].status = "COMPLETED" -> "closed"
Phase == [r \in Runs |-> PhaseOf(r)]

\* Trigger, poller, testers, crashes and lost links together keep the promise of RunContract, for
\* every number of runs: a run is opened once and nothing touches it once it is completed.
THEOREM RefinesContract == Spec => ImplementsContract
<1> DEFINE Kinds == {"NOT_EXECUTED", "saved", "imported"}
<1>1. Init => Contract!Init
  <2> SUFFICES ASSUME Init PROVE Contract!Init
    OBVIOUS
  <2>1. \A r \in Runs : run[r].status = "ABSENT"
    BY DEF Init
  <2>2. Phase \in [Runs -> {"absent", "open"}]
    BY <2>1 DEF Phase, PhaseOf
  <2>3. results \in [Runs -> Kinds]
    BY DEF Init
  <2> QED BY <2>2, <2>3 DEF Contract!Init, Phase, PhaseOf
<1>2. IInv /\ [Next]_vars => [Contract!Next]_(Contract!vars)
  <2> SUFFICES ASSUME IInv, [Next]_vars
               PROVE  [Contract!Next]_(Contract!vars)
    OBVIOUS
  <2>1. CASE UNCHANGED <<run, results>>
    BY <2>1 DEF Contract!vars
  <2>2. ASSUME NEW r \in Runs, Concerns(r) PROVE [Contract!Next]_(Contract!vars)
    <3>0. TypeOK /\ TypeOK'
      BY <2>2, NextIInv DEF IInv
    <3>1. /\ results \in [Runs -> Kinds] /\ results' \in [Runs -> Kinds]
          /\ \A x \in Runs \ {r} : results'[x] = results[x]
      BY <2>2, <3>0 DEF TypeOK, Concerns
    <3>2. ASSUME NEW x \in Runs
          PROVE  /\ run[x].status = "ABSENT" => Phase[x] = "absent"
                 /\ run[x].status = "IN_PROGRESS" => Phase[x] = "open"
                 /\ run[x].status = "COMPLETED" => Phase[x] = "closed"
                 /\ run[x].status \in {"ABSENT", "IN_PROGRESS", "COMPLETED"}
                 /\ run'[x].status = "ABSENT" => Phase'[x] = "absent"
                 /\ run'[x].status = "IN_PROGRESS" => Phase'[x] = "open"
                 /\ run'[x].status = "COMPLETED" => Phase'[x] = "closed"
      <4>1. run[x].status \in {"ABSENT", "IN_PROGRESS", "COMPLETED"}
        BY <3>0 DEF TypeOK, RunRow
      <4> QED BY <4>1 DEF Phase, PhaseOf
    <3>3. /\ \A x \in Runs : run'[x].status = run[x].status => Phase'[x] = Phase[x]
          /\ \A x \in Runs \ {r} : Phase'[x] = Phase[x]
          /\ Phase = [x \in Runs |-> Phase[x]] /\ Phase' = [x \in Runs |-> Phase'[x]]
      <4>1. \A x \in Runs : run'[x].status = run[x].status => Phase'[x] = Phase[x]
        BY <3>2
      <4>2. \A x \in Runs \ {r} : run'[x].status = run[x].status
        BY <2>2 DEF Concerns
      <4>3. Phase = [x \in Runs |-> Phase[x]] /\ Phase' = [x \in Runs |-> Phase'[x]]
        BY DEF Phase
      <4> QED BY <4>1, <4>2, <4>3
    <3>4. CASE run'[r].status = run[r].status /\ results'[r] = results[r]
      <4>1. Phase' = Phase /\ results' = results
        BY <3>1, <3>2, <3>3, <3>4
      <4> QED BY <4>1 DEF Contract!vars, Phase, PhaseOf
    <3>5. CASE run[r].status = "ABSENT" /\ run'[r].status = "IN_PROGRESS"
      <4>1. Phase[r] = "absent" /\ Phase' = [Phase EXCEPT ![r] = "open"]
        BY <3>1, <3>2, <3>3, <3>5
      <4> QED BY <3>1, <4>1 DEF Contract!Next, Contract!Open, Contract!Fill, Phase, PhaseOf
    <3>6. CASE InProgress(r) /\ run'[r].status = "IN_PROGRESS"
      <4>1. Phase[r] = "open" /\ Phase' = Phase
        BY <3>1, <3>2, <3>3, <3>6 DEF InProgress
      <4> QED BY <3>1, <4>1 DEF Contract!Next, Contract!Record, Contract!Fill, Phase, PhaseOf
    <3>7. CASE InProgress(r) /\ run'[r].status = "COMPLETED"
      <4>1. Phase[r] = "open" /\ Phase' = [Phase EXCEPT ![r] = "closed"]
        BY <3>1, <3>2, <3>3, <3>7 DEF InProgress
      <4> QED BY <3>1, <4>1 DEF Contract!Next, Contract!Close, Contract!Fill, Phase, PhaseOf
    <3> QED BY <2>2, <3>4, <3>5, <3>6, <3>7 DEF Concerns
  <2> QED BY <2>1, <2>2, StepsConcernOneRun
<1> QED BY <1>1, <1>2, Invariance, PTL DEF Spec, ImplementsContract, Contract!Spec
==============================================================================
