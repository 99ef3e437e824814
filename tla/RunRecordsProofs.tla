-------------------------- MODULE RunRecordsProofs ---------------------------
(***************************************************************************)
(* RunRecords, proved for every number of cases, tests, reports and        *)
(* requests and every bound on the clock.                                  *)
(*                                                                         *)
(* TypeOK is not inductive: what a save will write was read by an earlier  *)
(* statement, and what makes it safe is the row lock held since.  IInv     *)
(* adds what the locks mean: a request in the middle of its transaction    *)
(* holds the row, an exclusive holder is alone, and the run it locked is   *)
(* still IN_PROGRESS.  Everything else follows from that.                  *)
(***************************************************************************)
EXTENDS RunRecords, TLAPS

\* A request in the middle of its transaction holds the row, and locked an open run.
HoldersOwnAnOpenRun ==
  \A q \in Requests : pc[q] = "holding" => /\ InProgress
                                           /\ q \in sharers \/ owner = {q}

ExclusiveIsAlone == owner # {} => sharers = {}

\* What a request computed before its write is what that write needs.
LocalsFitTheirRequest ==
  /\ \A s \in Saves : pc[s] = "holding" => local[s] \in SaveLocal
  /\ \A i \in Imports : pc[i] \in {"waiting", "holding"} => local[i] \in ImportLocal
  /\ \A q \in Closes \cup TriggerFailures :
       pc[q] \in {"waiting", "holding"} => local[q] \in DateLocal /\ local[q].date <= now

\* Cases' rows always exist; as long as the run is open, only testers have dated results, none of them
\* in the future, and there is no closing note.
RowsAreSane ==
  /\ \A x \in Results : results[x].status \in Statuses
  /\ InProgress => run.note = "none" /\ \A x \in Rows : results[x].executedAt <= now

IInv ==
  /\ TypeOK
  /\ HoldersOwnAnOpenRun
  /\ ExclusiveIsAlone
  /\ LocalsFitTheirRequest
  /\ RowsAreSane
  /\ CompletedAfterItsResults

USE DEF Null, NotExecuted, Absent, Goto, Time, Rows, Requests, Keep

\* A report fills rows of the run, each with a status.
LEMMA ReportFillsRows ==
  ASSUME NEW report \in TestReport, NEW approved \in SUBSET Cases
  PROVE  /\ DOMAIN MapTestReport(report, approved) \subseteq Rows
         /\ \A x \in DOMAIN MapTestReport(report, approved) :
              MapTestReport(report, approved)[x] \in Statuses
<1>1. DOMAIN report \subseteq Tests
  BY DEF TestReport
<1>2. \A raw : MapTestStatus(raw) \in Statuses
  BY DEF MapTestStatus, Statuses
<1>3. \A statuses : Aggregate(statuses) \in Statuses
  BY DEF Aggregate, Statuses
<1> QED BY <1>1, <1>2, <1>3 DEF MapTestReport

LEMMA InitIInv == Init => IInv
  BY MaxTimeAssumption, ResultsAssumption
  DEF Init, IInv, TypeOK, HoldersOwnAnOpenRun, ExclusiveIsAlone, LocalsFitTheirRequest,
      RowsAreSane, CompletedAfterItsResults, InProgress, Row, Statuses, Steps, Notes,
      DateLocal, SaveLocal

\* What GitLab dated stays so while another request moves: nobody writes a date of its own into a row of
\* a completed run.
LEMMA DatesStay ==
  ASSUME TypeOK, CompletedAfterItsResults,
         NEW q \in Requests, pc[q] # "done", NEW step, Goto(q, step),
         \A r \in Requests \ {q} : local'[r] = local[r],
         results' = results, run' = run \/ InProgress' \/ run'.note # "none"
  PROVE  CompletedAfterItsResults'
<1> SUFFICES ASSUME ~InProgress', run'.note = "none", NEW x \in Rows
             PROVE  results'[x].executedAt <= run'.completedAt \/ DatedByGitlab(x)'
  BY DEF CompletedAfterItsResults
<1>1. run' = run /\ ~InProgress
  BY DEF InProgress
<1>2. CASE results[x].executedAt <= run.completedAt
  BY <1>1, <1>2
<1>3. CASE DatedByGitlab(x)
  <2>1. PICK i \in Imports : /\ pc[i] = "done"
                            /\ x \in DOMAIN MapTestReport(local[i].report, local[i].approved)
                            /\ results[x].executedAt = local[i].date
    BY <1>3 DEF DatedByGitlab
  <2>2. pc'[i] = "done" /\ local'[i] = local[i]
    BY <2>1 DEF TypeOK
  <2> QED BY <2>1, <2>2 DEF DatedByGitlab
<1> QED BY <1>1, <1>2, <1>3 DEF CompletedAfterItsResults

\* ResultsService.update under FOR SHARE.
LEMMA SaveLockIInv ==
  ASSUME IInv, NEW s \in Saves, SaveLock(s)
  PROVE  IInv'
<1> USE DEF IInv
<1>1. s \in Requests OBVIOUS
<1>2. CASE InProgress
  <2>1. PICK x \in Results, asked \in Asked \cup {Keep} :
          local' = [local EXCEPT ![s] = [row |-> x, status |-> IF asked = Keep THEN results[x].status ELSE asked]]
    BY <1>2 DEF SaveLock
  <2>2. [row |-> x, status |-> IF asked = Keep THEN results[x].status ELSE asked] \in SaveLocal
    BY AskedAssumption DEF SaveLocal, RowsAreSane
  <2>3. TypeOK'
    BY <1>1, <1>2, <2>1, <2>2 DEF SaveLock, TypeOK, Steps
  <2>4. HoldersOwnAnOpenRun' /\ ExclusiveIsAlone'
    BY <1>1, <1>2 DEF SaveLock, TypeOK, HoldersOwnAnOpenRun, ExclusiveIsAlone, InProgress
  <2>5. LocalsFitTheirRequest'
    BY <1>1, <1>2, <2>1, <2>2, RequestsDisjoint
    DEF SaveLock, TypeOK, LocalsFitTheirRequest, SaveLocal, Statuses
  <2>6. RowsAreSane' /\ CompletedAfterItsResults'
    BY <1>2 DEF SaveLock, RowsAreSane, CompletedAfterItsResults, InProgress
  <2> QED BY <2>3, <2>4, <2>5, <2>6
<1>3. CASE ~InProgress
  <2>1. CompletedAfterItsResults'
    BY <1>1, <1>3, DatesStay DEF SaveLock
  <2> QED BY <1>1, <1>3, <2>1 DEF SaveLock, TypeOK, Steps, HoldersOwnAnOpenRun, ExclusiveIsAlone,
             LocalsFitTheirRequest, RowsAreSane, InProgress
<1> QED BY <1>2, <1>3

LEMMA SaveWriteIInv ==
  ASSUME IInv, NEW s \in Saves, SaveWrite(s)
  PROVE  IInv'
<1> USE DEF IInv
<1>1. s \in Requests /\ pc[s] = "holding" /\ local[s] \in SaveLocal
  BY DEF SaveWrite, LocalsFitTheirRequest
<1>2. InProgress /\ InProgress'
  BY <1>1 DEF SaveWrite, HoldersOwnAnOpenRun, InProgress
<1>3. now \in Time /\ now' = now
  BY DEF SaveWrite, TypeOK
<1>4. TypeOK'
  <2>1. [status |-> local[s].status,
         executedAt |-> IF local[s].status = NotExecuted THEN Null ELSE now] \in Row
    BY <1>1, <1>3, MaxTimeAssumption DEF SaveLocal, Row
  <2>2. results' \in [Rows -> Row]
    BY <2>1 DEF SaveWrite, TypeOK
  <2> QED BY <1>1, <2>2 DEF SaveWrite, TypeOK, Steps
<1>5. HoldersOwnAnOpenRun' /\ ExclusiveIsAlone'
  BY <1>1, <1>2 DEF SaveWrite, TypeOK, HoldersOwnAnOpenRun, ExclusiveIsAlone
<1>6. LocalsFitTheirRequest'
  BY <1>1, <1>3 DEF SaveWrite, TypeOK, LocalsFitTheirRequest
<1>7. RowsAreSane'
  BY <1>1, <1>3 DEF SaveWrite, TypeOK, RowsAreSane, SaveLocal, InProgress, Row
<1>8. CompletedAfterItsResults'
  BY <1>2 DEF CompletedAfterItsResults
<1> QED BY <1>4, <1>5, <1>6, <1>7, <1>8

\* The lock statement of a completion (before = "new") and of an import (before = "waiting").
LEMMA LockForUpdateIInv ==
  ASSUME IInv, NEW q \in Completions \cup Imports, NEW before,
         before = "waiting" \/ q \in Completions, before \in {"new", "waiting"},
         LockForUpdate(q, before)
  PROVE  IInv'
<1> USE DEF IInv
<1>1. q \in Requests /\ q \notin Saves /\ q \notin Closes /\ q \notin TriggerFailures
  BY RequestsDisjoint
<1>2. \A p \in Requests : pc[p] # "holding"
  BY DEF LockForUpdate, HoldersOwnAnOpenRun
<1>3. TypeOK'
  BY <1>1 DEF LockForUpdate, TypeOK, Steps
<1>4. HoldersOwnAnOpenRun' /\ ExclusiveIsAlone'
  BY <1>1, <1>2 DEF LockForUpdate, TypeOK, HoldersOwnAnOpenRun, ExclusiveIsAlone, InProgress
<1>5. LocalsFitTheirRequest'
  BY <1>1, RequestsDisjoint DEF LockForUpdate, TypeOK, LocalsFitTheirRequest
<1>6. RowsAreSane'
  BY DEF LockForUpdate, RowsAreSane, InProgress
<1>7. CompletedAfterItsResults'
  BY <1>1, DatesStay DEF LockForUpdate
<1> QED BY <1>3, <1>4, <1>5, <1>6, <1>7

\* Only the completing request holds the row when it writes: no other transaction
\* is left to write a result afterwards.
LEMMA ExclusiveHolderIsTheOnlyHolder ==
  ASSUME IInv, NEW q \in Completions \cup Imports, pc[q] = "holding"
  PROVE  /\ owner = {q}
         /\ InProgress
         /\ \A p \in Requests : pc[p] = "holding" => p = q
  BY RequestsDisjoint DEF IInv, TypeOK, HoldersOwnAnOpenRun, ExclusiveIsAlone

LEMMA CompleteWriteIInv ==
  ASSUME IInv, NEW c \in Completions, CompleteWrite(c)
  PROVE  IInv'
<1> USE DEF IInv
<1>1. c \in Requests /\ pc[c] = "holding"
  BY DEF CompleteWrite
<1>2. owner = {c} /\ InProgress /\ \A p \in Requests : pc[p] = "holding" => p = c
  BY <1>1, ExclusiveHolderIsTheOnlyHolder
<1>3. \A p \in Requests : pc'[p] # "holding"
  BY <1>1, <1>2 DEF CompleteWrite, TypeOK
<1>4. TypeOK'
  BY <1>1 DEF CompleteWrite, TypeOK, Steps, Completed
<1>5. HoldersOwnAnOpenRun' /\ ExclusiveIsAlone'
  BY <1>3 DEF CompleteWrite, HoldersOwnAnOpenRun, ExclusiveIsAlone
<1>6. LocalsFitTheirRequest'
  BY <1>1, RequestsDisjoint DEF CompleteWrite, TypeOK, LocalsFitTheirRequest
<1>7. RowsAreSane' /\ CompletedAfterItsResults'
  BY <1>2 DEF CompleteWrite, RowsAreSane, CompletedAfterItsResults, Completed, InProgress
<1> QED BY <1>4, <1>5, <1>6, <1>7

\* A step that only moves one request from before its transaction to a point
\* outside it; the date that a closing remembers is not later than the clock.
LEMMA OutsideTransactionIInv ==
  ASSUME IInv, NEW q \in Requests, q \notin Saves, pc[q] # "done",
         NEW step \in Steps \ {"holding"}, Goto(q, step),
         NEW v \in DateLocal \cup ImportLocal,
         q \in Imports => v \in ImportLocal, q \notin Imports => v \in DateLocal /\ v.date <= now,
         local' = [local EXCEPT ![q] = v],
         UNCHANGED <<now, run, results, sharers, owner>>
  PROVE  IInv'
<1> USE DEF IInv
<1>2. TypeOK'
  BY DEF TypeOK
<1>3. HoldersOwnAnOpenRun' /\ ExclusiveIsAlone'
  BY DEF TypeOK, HoldersOwnAnOpenRun, ExclusiveIsAlone, InProgress
<1>4. LocalsFitTheirRequest'
  BY RequestsDisjoint DEF TypeOK, LocalsFitTheirRequest
<1>5. RowsAreSane'
  BY DEF RowsAreSane, InProgress
<1>6. CompletedAfterItsResults'
  BY DatesStay DEF TypeOK
<1> QED BY <1>2, <1>3, <1>4, <1>5, <1>6

LEMMA ImportReadIInv ==
  ASSUME IInv, NEW i \in Imports, ImportRead(i)
  PROVE  IInv'
<1>1. PICK d \in 1 .. MaxTime, report \in Reports, approved \in SUBSET Cases :
        local' = [local EXCEPT ![i] = [date |-> d, report |-> report, approved |-> approved]]
  BY DEF ImportRead
<1> DEFINE v == [date |-> d, report |-> report, approved |-> approved]
<1>2. v \in ImportLocal
  BY MaxTimeAssumption DEF ImportLocal
<1>3. i \in Requests /\ i \notin Saves
  BY RequestsDisjoint
<1>4. "waiting" \in Steps \ {"holding"}
  BY DEF Steps
<1>5. pc[i] # "done" /\ Goto(i, "waiting") /\ UNCHANGED <<now, run, results, sharers, owner>>
  BY DEF ImportRead
<1>6. local' = [local EXCEPT ![i] = v]
  BY <1>1
<1> HIDE DEF v
<1> QED BY <1>2, <1>3, <1>4, <1>5, <1>6, OutsideTransactionIInv

LEMMA PrepareIInv ==
  ASSUME IInv, NEW q \in Closes \cup TriggerFailures, Prepare(q)
  PROVE  IInv'
<1> DEFINE v == [date |-> now]
<1>1. v \in DateLocal /\ v.date <= now
  BY MaxTimeAssumption DEF IInv, TypeOK, DateLocal
<1>2. q \in Requests /\ q \notin Saves /\ q \notin Imports
  BY RequestsDisjoint
<1>3. "waiting" \in Steps \ {"holding"}
  BY DEF Steps
<1>4. /\ pc[q] # "done" /\ Goto(q, "waiting") /\ UNCHANGED <<now, run, results, sharers, owner>>
      /\ local' = [local EXCEPT ![q] = v]
  BY DEF Prepare
<1> HIDE DEF v
<1> QED BY <1>1, <1>2, <1>3, <1>4, OutsideTransactionIInv

LEMMA ImportWriteIInv ==
  ASSUME IInv, NEW i \in Imports, ImportWrite(i)
  PROVE  IInv'
<1> USE DEF IInv
<1>1. i \in Requests /\ pc[i] = "holding"
  BY DEF ImportWrite
<1>2. owner = {i} /\ InProgress /\ \A p \in Requests : pc[p] = "holding" => p = i
  BY <1>1, ExclusiveHolderIsTheOnlyHolder
<1>3. \A p \in Requests : pc'[p] # "holding"
  BY <1>1, <1>2 DEF ImportWrite, TypeOK
<1> DEFINE filled == MapTestReport(local[i].report, local[i].approved)
<1>4. local[i] \in ImportLocal /\ local[i].date \in Time
  BY <1>1 DEF LocalsFitTheirRequest, ImportLocal
<1>5. DOMAIN filled \subseteq Rows /\ \A x \in DOMAIN filled : filled[x] \in Statuses
  BY <1>4, ReportsAssumption, ReportFillsRows DEF ImportLocal
<1>6. results' = [x \in Rows |->
        IF x \in DOMAIN filled THEN [status |-> filled[x], executedAt |-> local[i].date]
                               ELSE results[x]]
  BY DEF ImportWrite
<1> HIDE DEF filled
<1>7. \A x \in Rows : /\ results'[x] \in Row
                      /\ x \in Results => results'[x].status \in Statuses
                      /\ x \in DOMAIN filled => results'[x].executedAt = local[i].date
                      /\ x \notin DOMAIN filled => results'[x].executedAt <= now
  <2> TAKE x \in Rows
  <2>1. CASE x \in DOMAIN filled
    BY <1>4, <1>5, <1>6, <2>1 DEF Row
  <2>2. CASE x \notin DOMAIN filled
    BY <1>2, <1>6, <2>2 DEF TypeOK, RowsAreSane
  <2> QED BY <2>1, <2>2
<1>8. TypeOK'
  <2>1. results' \in [Rows -> Row]
    BY <1>6, <1>7
  <2> QED BY <1>1, <2>1 DEF ImportWrite, TypeOK, Steps, Completed
<1>9. HoldersOwnAnOpenRun' /\ ExclusiveIsAlone'
  BY <1>3 DEF ImportWrite, HoldersOwnAnOpenRun, ExclusiveIsAlone
<1>10. LocalsFitTheirRequest'
  BY <1>1, RequestsDisjoint DEF ImportWrite, TypeOK, LocalsFitTheirRequest
<1>11. RowsAreSane' /\ CompletedAfterItsResults'
  <2>1. run' = Completed(now, run.note) /\ local' = local /\ pc'[i] = "done"
    BY <1>1 DEF ImportWrite, TypeOK
  <2>2. \A x \in DOMAIN filled : x \in Rows => DatedByGitlab(x)'
    BY <1>7, <2>1 DEF DatedByGitlab, filled
  <2>3. CompletedAfterItsResults'
    BY <1>7, <2>1, <2>2 DEF CompletedAfterItsResults, Completed
  <2> QED BY <1>7, <2>1, <2>3, ResultsAssumption DEF RowsAreSane, Completed, InProgress
<1> QED BY <1>8, <1>9, <1>10, <1>11

\* The two plain UPDATEs wait until nobody holds the row.
LEMMA PlainUpdateIInv ==
  ASSUME IInv, NEW q \in Closes \cup TriggerFailures,
         CloseWrite(q) \/ TriggerFailureWrite(q)
  PROVE  IInv'
<1> USE DEF IInv
<1>1. q \in Requests /\ q \notin Saves /\ pc[q] = "waiting"
  BY RequestsDisjoint DEF CloseWrite, TriggerFailureWrite
<1>2. local[q] \in DateLocal
  BY <1>1 DEF LocalsFitTheirRequest
<1>3. /\ pc' = [pc EXCEPT ![q] = "done"]
      /\ Unlocked
      /\ UNCHANGED <<now, results, sharers, owner, local>>
  BY DEF CloseWrite, TriggerFailureWrite
<1>4. run' = run \/ \E note \in Notes \ {"none"} : run' = Completed(local[q].date, note)
  BY DEF CloseWrite, TriggerFailureWrite, Notes
<1>5. \A p \in Requests : pc'[p] # "holding"
  BY <1>1, <1>3 DEF TypeOK, Unlocked, HoldersOwnAnOpenRun
<1>6. TypeOK'
  <2>1. run' \in [status : {"IN_PROGRESS", "COMPLETED"}, completedAt : Time, note : Notes]
    BY <1>2, <1>4 DEF TypeOK, Completed, DateLocal
  <2> QED BY <1>1, <1>3, <2>1 DEF TypeOK, Steps
<1>7. HoldersOwnAnOpenRun' /\ ExclusiveIsAlone'
  BY <1>3, <1>5 DEF HoldersOwnAnOpenRun, ExclusiveIsAlone
<1>8. LocalsFitTheirRequest'
  <2>1. \A p \in Requests : pc'[p] \in {"waiting", "holding"} => pc[p] = pc'[p]
    BY <1>1, <1>3 DEF TypeOK
  <2> QED BY <1>3, <2>1 DEF LocalsFitTheirRequest
<1>9. RowsAreSane'
  BY <1>3, <1>4 DEF RowsAreSane, Completed, InProgress
<1>10. CompletedAfterItsResults'
  <2>1. run' = run \/ run'.note # "none"
    BY <1>4 DEF Completed
  <2> QED BY <1>1, <1>3, <2>1, DatesStay
<1> QED BY <1>6, <1>7, <1>8, <1>9, <1>10

LEMMA AbortIInv ==
  ASSUME IInv, NEW q \in Requests, Abort(q)
  PROVE  IInv'
<1> USE DEF IInv
<1>1. TypeOK'
  BY DEF Abort, TypeOK, Steps
<1>2. HoldersOwnAnOpenRun' /\ ExclusiveIsAlone'
  BY DEF Abort, TypeOK, HoldersOwnAnOpenRun, ExclusiveIsAlone, InProgress
<1>3. LocalsFitTheirRequest'
  BY DEF Abort, TypeOK, LocalsFitTheirRequest
<1>4. RowsAreSane'
  BY DEF Abort, RowsAreSane, InProgress
<1>5. CompletedAfterItsResults'
  BY DatesStay DEF Abort
<1> QED BY <1>1, <1>2, <1>3, <1>4, <1>5

LEMMA TickIInv ==
  ASSUME IInv, Tick
  PROVE  IInv'
<1> USE DEF IInv
<1>1. TypeOK'
  BY MaxTimeAssumption DEF Tick, TypeOK
<1>2. now \in Nat /\ now' = now + 1
  BY MaxTimeAssumption DEF Tick, TypeOK
<1>3. HoldersOwnAnOpenRun' /\ ExclusiveIsAlone'
  BY DEF Tick, HoldersOwnAnOpenRun, ExclusiveIsAlone, InProgress
<1>4. LocalsFitTheirRequest'
  BY <1>2 DEF Tick, LocalsFitTheirRequest, DateLocal, ImportLocal
<1>5. RowsAreSane'
  BY <1>2 DEF Tick, RowsAreSane, InProgress, TypeOK, Row
<1>6. CompletedAfterItsResults'
  BY DEF Tick, CompletedAfterItsResults, DatedByGitlab, InProgress
<1> QED BY <1>1, <1>3, <1>4, <1>5, <1>6

LEMMA StutterIInv ==
  ASSUME IInv, UNCHANGED vars
  PROVE  IInv'
  BY DEF vars, IInv, TypeOK, HoldersOwnAnOpenRun, ExclusiveIsAlone, LocalsFitTheirRequest,
         RowsAreSane, CompletedAfterItsResults, DatedByGitlab, InProgress

LEMMA NextIInv == IInv /\ [Next]_vars => IInv'
<1> SUFFICES ASSUME IInv, [Next]_vars PROVE IInv'
  OBVIOUS
<1>1. CASE \E q \in Requests : Request(q)
  <2>1. PICK q \in Requests : Request(q)
    BY <1>1
  <2>2. CASE q \in Saves /\ Save(q)
    BY <2>2, SaveLockIInv, SaveWriteIInv DEF Save
  <2>3. CASE q \in Completions /\ Complete(q)
    BY <2>3, LockForUpdateIInv, CompleteWriteIInv DEF Complete, CompleteLock
  <2>4. CASE q \in Imports /\ Import(q)
    BY <2>4, ImportReadIInv, LockForUpdateIInv, ImportWriteIInv DEF Import, ImportLock
  <2>5. CASE q \in Closes /\ Close(q)
    BY <2>5, PrepareIInv, PlainUpdateIInv DEF Close
  <2>6. CASE q \in TriggerFailures /\ TriggerFailure(q)
    BY <2>6, PrepareIInv, PlainUpdateIInv DEF TriggerFailure
  <2> QED BY <2>1, <2>2, <2>3, <2>4, <2>5, <2>6 DEF Request
<1>2. CASE Tick
  BY <1>2, TickIInv
<1>3. CASE \E q \in Requests : Abort(q)
  BY <1>3, AbortIInv
<1>4. CASE Finished \/ UNCHANGED vars
  BY <1>4, StutterIInv DEF Finished
<1> QED BY <1>1, <1>2, <1>3, <1>4 DEF Next

LEMMA Invariance == Spec => []IInv
  BY InitIInv, NextIInv, PTL DEF Spec

\* Every variable stays in its type: a save that omits the status still stores a
\* status, and an import fills only rows with outcomes (ResultsService.update).
THEOREM TypeCorrect == Spec => []TypeOK
<1>1. IInv => TypeOK
  BY DEF IInv
<1> QED BY <1>1, Invariance, PTL

\* A run completed by a tester or by an import is never older than a result that a tester saved,
\* because completedAt is stamped under the FOR UPDATE lock; the rows an import filled bear the date of
\* GitLab's clock, of which nothing is assumed (RunsService.update, importPipeline).
THEOREM CompletionFollowsResults == Spec => []CompletedAfterItsResults
<1>1. IInv => CompletedAfterItsResults
  BY DEF IInv
<1> QED BY <1>1, Invariance, PTL

\* Nothing but a trigger failure touches a completed run, and nothing at all its results.
LEMMA CompletedRunIsSettled ==
  ASSUME IInv, [Next]_vars, ~InProgress
  PROVE  /\ results' = results
         /\ ~InProgress'
         /\ run' = run \/ \E t \in TriggerFailures : TriggerFailureWrite(t)
<1>0. run.status = "COMPLETED" /\ \A q \in Requests : pc[q] # "holding"
  BY DEF IInv, TypeOK, InProgress, HoldersOwnAnOpenRun
<1>1. CASE \E q \in Requests : Request(q)
  <2>1. PICK q \in Requests : Request(q)
    BY <1>1
  <2>2. CASE q \in Saves /\ Save(q)
    BY <1>0, <2>2 DEF Save, SaveLock, SaveWrite, InProgress
  <2>3. CASE q \in Completions /\ Complete(q)
    BY <1>0, <2>3 DEF Complete, CompleteLock, LockForUpdate, CompleteWrite, InProgress
  <2>4. CASE q \in Imports /\ Import(q)
    BY <1>0, <2>4 DEF Import, ImportRead, ImportLock, LockForUpdate, ImportWrite, InProgress
  <2>5. CASE q \in Closes /\ Close(q)
    BY <1>0, <2>5 DEF Close, Prepare, CloseWrite, InProgress
  <2>6. CASE q \in TriggerFailures /\ TriggerFailure(q)
    <3>1. CASE Prepare(q)
      BY <1>0, <3>1 DEF Prepare, InProgress
    <3>2. CASE TriggerFailureWrite(q)
      BY <2>6, <3>2 DEF TriggerFailureWrite, Completed, InProgress
    <3> QED BY <2>6, <3>1, <3>2 DEF TriggerFailure
  <2> QED BY <2>1, <2>2, <2>3, <2>4, <2>5, <2>6 DEF Request
<1>2. CASE Tick
  BY <1>0, <1>2 DEF Tick, InProgress
<1>3. CASE \E q \in Requests : Abort(q)
  BY <1>0, <1>3 DEF Abort, InProgress
<1>4. CASE Finished \/ UNCHANGED vars
  BY <1>0, <1>4 DEF Finished, vars, InProgress
<1> QED BY <1>1, <1>2, <1>3, <1>4 DEF Next

\* The FOR SHARE and FOR UPDATE locks of ResultsService.update, RunsService.update and
\* importPipeline are enough: whatever the number of saves, completions and imports, no
\* result of a completed run changes.
THEOREM ReadOnlyAfterCompletion == Spec => CompletedRunIsReadOnly
<1>1. IInv /\ [Next]_vars => [~InProgress => results' = results]_vars
  BY CompletedRunIsSettled
<1> QED BY <1>1, Invariance, PTL DEF Spec, CompletedRunIsReadOnly

\* Completions, imports and closings check the status under their lock or in their WHERE
\* clause, so only closeAfterTriggerFailure, which does neither, changes a completed run.
THEOREM RewrittenOnlyByTriggerFailures == Spec => OnlyTriggerFailuresRewrite
<1>1. IInv /\ [Next]_vars
        => [~InProgress => run' = run \/ \E t \in TriggerFailures : TriggerFailureWrite(t)]_vars
  BY CompletedRunIsSettled
<1> QED BY <1>1, Invariance, PTL DEF Spec, OnlyTriggerFailuresRewrite

\* The statuses a report gives to the rows its failed tests must fill.
LEMMA FailuresAreMapped ==
  ASSUME NEW report \in TestReport, NEW approved \in SUBSET Cases,
         NEW t \in DOMAIN report, report[t].status \in {"failed", "error"},
         NEW x, LET cases == report[t].tags \cap approved IN
                x \in (IF cases = {} THEN {t} ELSE cases)
  PROVE  /\ x \in DOMAIN MapTestReport(report, approved)
         /\ MapTestReport(report, approved)[x] = "FAILED"
<1>1. MapTestStatus(report[t].status) = "FAILED"
  BY DEF MapTestStatus
<1>2. DOMAIN report \subseteq Tests
  BY DEF TestReport
<1>3. CASE report[t].tags \cap approved = {}
  <2>1. x = t
    BY <1>3
  <2>2. x \notin Cases
    BY <1>2, <2>1, ReportRowsDisjoint
  <2> QED BY <1>1, <1>3, <2>1, <2>2 DEF MapTestReport, TaggedCases
<1>4. CASE report[t].tags \cap approved # {}
  <2>1. x \in report[t].tags \cap approved /\ x \in Cases
    BY <1>4
  <2>2. t \in Group(report, approved, x)
    BY <2>1 DEF Group, TaggedCases
  <2>3. "FAILED" \in {MapTestStatus(report[u].status) : u \in Group(report, approved, x)}
    BY <1>1, <2>2
  <2>4. Aggregate({MapTestStatus(report[u].status) : u \in Group(report, approved, x)}) = "FAILED"
    BY <2>3 DEF Aggregate
  <2> QED BY <2>1, <2>2, <2>4 DEF MapTestReport
<1> QED BY <1>3, <1>4

\* The run of an import that was written stays completed.
ImportedIsCompleted == \A i \in Imports : pc[i] = "done" => ~InProgress

FInv == ImportedIsCompleted /\ FailuresShow

\* Every step moves at most one request, and changes the locals of no other.
LEMMA OneRequestMoves ==
  ASSUME [Next]_vars
  PROVE  \/ UNCHANGED <<pc, local>>
         \/ \E q \in Requests, step \in Steps :
              /\ pc[q] \notin {"done", "refused", "dead"}
              /\ Goto(q, step)
              /\ local' = local \/ \E v : local' = [local EXCEPT ![q] = v]
              /\ step = "done" /\ q \in Imports => ImportWrite(q)
<1>1. CASE \E q \in Requests : Request(q)
  <2>1. PICK q \in Requests : Request(q)
    BY <1>1
  <2>2. CASE q \in Saves /\ Save(q)
    BY <2>2, RequestsDisjoint DEF Save, SaveLock, SaveWrite, Steps
  <2>3. CASE q \in Completions /\ Complete(q)
    BY <2>3, RequestsDisjoint DEF Complete, CompleteLock, LockForUpdate, CompleteWrite, Steps
  <2>4. CASE q \in Imports /\ Import(q)
    <3>1. CASE ImportWrite(q)
      <4>1. pc[q] = "holding" /\ Goto(q, "done") /\ local' = local
        BY <3>1 DEF ImportWrite
      <4> QED BY <2>4, <3>1, <4>1 DEF Steps
    <3>2. CASE ImportRead(q) \/ ImportLock(q)
      BY <2>4, <3>2 DEF ImportRead, ImportLock, LockForUpdate, Steps
    <3> QED BY <2>4, <3>1, <3>2 DEF Import
  <2>5. CASE q \in Closes \cup TriggerFailures /\ (Close(q) \/ TriggerFailure(q))
    BY <2>5, RequestsDisjoint DEF Close, TriggerFailure, Prepare, CloseWrite, TriggerFailureWrite, Steps
  <2> QED BY <2>1, <2>2, <2>3, <2>4, <2>5 DEF Request
<1>2. CASE \E q \in Requests : Abort(q)
  <2>1. PICK q \in Requests : Abort(q)
    BY <1>2
  <2> QED BY <2>1 DEF Abort, Steps
<1>3. CASE Tick \/ Finished \/ UNCHANGED vars
  BY <1>3 DEF Tick, Finished, vars
<1> QED BY <1>1, <1>2, <1>3 DEF Next

\* Only the import itself touches its report and what it remembers of the approved cases.
LEMMA ImportsKeepTheirReport ==
  ASSUME IInv, [Next]_vars, NEW i \in Imports, pc[i] = "done"
  PROVE  pc'[i] = "done" /\ local'[i] = local[i]
<1>1. pc \in [Requests -> Steps] /\ i \in Requests /\ DOMAIN local = Requests
  BY DEF IInv, TypeOK
<1>2. CASE UNCHANGED <<pc, local>>
  BY <1>2
<1>3. CASE ~UNCHANGED <<pc, local>>
  <2>1. PICK q \in Requests, step \in Steps :
          /\ pc[q] \notin {"done", "refused", "dead"}
          /\ Goto(q, step)
          /\ local' = local \/ \E v : local' = [local EXCEPT ![q] = v]
    BY <1>3, OneRequestMoves
  <2>2. q # i
    BY <2>1
  <2> QED BY <1>1, <2>1, <2>2
<1> QED BY <1>2, <1>3

\* An import is done only by writing.
LEMMA OnlyImportWriteEndsAnImport ==
  ASSUME IInv, [Next]_vars, NEW i \in Imports, pc[i] # "done", pc'[i] = "done"
  PROVE  ImportWrite(i)
<1>1. pc \in [Requests -> Steps] /\ i \in Requests
  BY DEF IInv, TypeOK
<1>2. PICK q \in Requests, step \in Steps :
        /\ Goto(q, step)
        /\ step = "done" /\ q \in Imports => ImportWrite(q)
  BY OneRequestMoves
<1>3. q = i /\ step = "done"
  BY <1>1, <1>2
<1> QED BY <1>2, <1>3

LEMMA ImportWriteFInv ==
  ASSUME IInv, NEW i \in Imports, ImportWrite(i)
  PROVE  /\ ~InProgress'
         /\ \A t \in DOMAIN local[i].report : local[i].report[t].status \in {"failed", "error"} =>
              LET cases == local[i].report[t].tags \cap local[i].approved IN
              \A x \in (IF cases = {} THEN {t} ELSE cases) : results'[x].status = "FAILED"
<1>1. ~InProgress'
  BY DEF ImportWrite, Completed, InProgress
<1>2. local[i].report \in TestReport /\ local[i].approved \in SUBSET Cases
  BY ReportsAssumption DEF ImportWrite, IInv, LocalsFitTheirRequest, ImportLocal
<1> DEFINE filled == MapTestReport(local[i].report, local[i].approved)
<1>3. DOMAIN filled \subseteq Rows
  BY <1>2, ReportFillsRows
<1>4. \A x \in DOMAIN filled : results'[x].status = filled[x]
  BY <1>3 DEF ImportWrite
<1> QED BY <1>1, <1>2, <1>4, FailuresAreMapped

LEMMA NextFInv == IInv /\ FInv /\ [Next]_vars => FInv'
<1> SUFFICES ASSUME IInv, FInv, [Next]_vars, NEW i \in Imports, pc'[i] = "done"
             PROVE  /\ ~InProgress'
                    /\ \A t \in DOMAIN local'[i].report :
                         local'[i].report[t].status \in {"failed", "error"} =>
                           LET cases == local'[i].report[t].tags \cap local'[i].approved IN
                           \A x \in (IF cases = {} THEN {t} ELSE cases) : results'[x].status = "FAILED"
  BY DEF FInv, ImportedIsCompleted, FailuresShow
<1>1. CASE pc[i] = "done"
  <2>1. ~InProgress
    BY <1>1 DEF FInv, ImportedIsCompleted
  <2>2. results' = results /\ ~InProgress'
    BY <2>1, CompletedRunIsSettled
  <2>3. local'[i] = local[i]
    BY <1>1, ImportsKeepTheirReport
  <2> QED BY <1>1, <2>2, <2>3 DEF FInv, FailuresShow
<1>2. CASE pc[i] # "done"
  <2>1. ImportWrite(i)
    BY <1>2, OnlyImportWriteEndsAnImport
  <2>2. local' = local
    BY <2>1 DEF ImportWrite
  <2> QED BY <2>1, <2>2, ImportWriteFInv
<1> QED BY <1>1, <1>2

\* No failed test of an imported report is hidden, by another test of its case, by a save or by
\* anything else: for all reports, tags and requests (mapTestReport, importPipeline).
THEOREM FailuresStayVisible == Spec => []FailuresShow
<1>1. Init => FInv
  BY DEF Init, FInv, ImportedIsCompleted, FailuresShow
<1>2. FInv => FailuresShow
  BY DEF FInv
<1> QED BY <1>1, <1>2, NextFInv, Invariance, PTL DEF Spec

\* The lock protocol implements RunContract: each of its steps records results of the open
\* run, closes it, or changes nothing that the contract can see.
THEOREM RefinesContract == Spec => ImplementsContract
<1> USE DEF TheRun
<1>1. Init => Contract!Init
  <2> SUFFICES ASSUME Init PROVE Contract!Init
    OBVIOUS
  <2>1. results \in [Rows -> Row]
    BY InitIInv DEF IInv, TypeOK
  <2>2. [r \in {TheRun} |-> IF InProgress THEN "open" ELSE "closed"]
          \in [{TheRun} -> {"absent", "open"}]
    BY DEF Init, InProgress
  <2>3. [r \in {TheRun} |-> results] \in [{TheRun} -> [Rows -> Row]]
    BY <2>1
  <2> QED BY <2>2, <2>3 DEF Contract!Init
<1>2. IInv /\ [Next]_vars => [Contract!Next]_(Contract!vars)
  <2> SUFFICES ASSUME IInv, [Next]_vars
               PROVE  [Contract!Next]_(Contract!vars)
    OBVIOUS
  <2>1. results' \in [Rows -> Row]
    BY NextIInv DEF IInv, TypeOK
  <2>2. CASE ~InProgress
    BY <2>2, CompletedRunIsSettled DEF Contract!vars
  <2>3. CASE InProgress /\ InProgress'
    BY <2>1, <2>3 DEF Contract!Next, Contract!Record, Contract!Fill
  <2>4. CASE InProgress /\ ~InProgress'
    BY <2>1, <2>4 DEF Contract!Next, Contract!Close, Contract!Fill
  <2> QED BY <2>2, <2>3, <2>4
<1> QED BY <1>1, <1>2, Invariance, PTL DEF Spec, ImplementsContract, Contract!Spec

------------------------------------------------------------------------------
(* Why requests are answered: who has the row waits for nobody, and every  *)
(* step of a request is a later one.                                       *)

\* Whoever has the row of the run is at its write, which waits for nothing; all others wait for the row.
HoldersAreAtTheirWrite == \A q \in sharers \cup owner : pc[q] = "holding"

LEMMA RequestKeepsHolders ==
  ASSUME IInv, HoldersAreAtTheirWrite, NEW q \in Requests, Request(q)
  PROVE  HoldersAreAtTheirWrite'
<1>1. pc \in [Requests -> Steps] /\ sharers \subseteq Saves /\ owner \subseteq Completions \cup Imports
  BY DEF IInv, TypeOK
<1>2. ASSUME NEW step, Goto(q, step), step = "holding" \/ q \notin sharers' \cup owner',
             sharers' \cup owner' \subseteq sharers \cup owner \cup {q}
      PROVE  HoldersAreAtTheirWrite'
  BY <1>1, <1>2 DEF HoldersAreAtTheirWrite
<1>3. q \in sharers \cup owner => pc[q] = "holding"
  BY DEF HoldersAreAtTheirWrite
<1>4. CASE q \in Saves /\ Save(q)
  <2>1. q \notin owner
    BY <1>1, <1>4, RequestsDisjoint
  <2> QED BY <1>2, <1>3, <1>4, <2>1 DEF Save, SaveLock, SaveWrite
<1>5. CASE q \in Completions \cup Imports
  <2>1. q \notin sharers
    BY <1>1, <1>5, RequestsDisjoint
  <2>2. CASE \E before \in {"new", "waiting"} : LockForUpdate(q, before)
    BY <1>2, <1>3, <2>1, <2>2 DEF LockForUpdate
  <2>3. CASE CompleteWrite(q) \/ ImportWrite(q)
    BY <1>2, <2>1, <2>3 DEF CompleteWrite, ImportWrite
  <2>4. CASE ImportRead(q)
    BY <1>2, <1>3, <2>4 DEF ImportRead
  <2> QED BY <1>5, <2>2, <2>3, <2>4, RequestsDisjoint
          DEF Request, Complete, CompleteLock, Import, ImportLock
<1>6. CASE q \in Closes \cup TriggerFailures
  <2>1. Prepare(q) \/ CloseWrite(q) \/ TriggerFailureWrite(q)
    BY <1>6, RequestsDisjoint DEF Request, Close, TriggerFailure
  <2> QED BY <1>2, <1>3, <2>1 DEF Prepare, CloseWrite, TriggerFailureWrite
<1> QED BY <1>4, <1>5, <1>6 DEF Request

\* The locks of a transaction end with it, whether it commits, refuses or is rolled back, so no order
\* of saves, completions, imports and closings makes a request wait for ever (ResultsService.update,
\* RunsService.update, importPipeline).
THEOREM NoCircleOfWaiters == Spec => []HoldersAreAtTheirWrite
<1>1. Init => HoldersAreAtTheirWrite
  BY DEF Init, HoldersAreAtTheirWrite
<1>2. IInv /\ HoldersAreAtTheirWrite /\ [Next]_vars => HoldersAreAtTheirWrite'
  <2> SUFFICES ASSUME IInv, HoldersAreAtTheirWrite, [Next]_vars PROVE HoldersAreAtTheirWrite'
    OBVIOUS
  <2>1. ASSUME NEW q \in Requests, Abort(q) PROVE HoldersAreAtTheirWrite'
    BY <2>1 DEF Abort, HoldersAreAtTheirWrite, IInv, TypeOK
  <2>2. CASE Tick \/ Finished \/ UNCHANGED vars
    BY <2>2 DEF Tick, Finished, vars, HoldersAreAtTheirWrite
  <2> QED BY <2>1, <2>2, RequestKeepsHolders DEF Next
<1> QED BY <1>1, <1>2, Invariance, PTL DEF Spec

Rank ==
  [step \in Steps |->
    CASE step = "new" -> 0
      [] step = "waiting" -> 1
      [] step = "holding" -> 2
      [] step \in {"done", "refused", "dead"} -> 3]

\* No request takes a step back, and each of its own steps leads to a later one.
StepsGoForward ==
  [][\A q \in Requests : /\ Rank[pc[q]] <= Rank[pc'[q]]
                         /\ Request(q) => Rank[pc[q]] < Rank[pc'[q]]]_vars

LEMMA Ranks ==
  /\ Rank["new"] = 0 /\ Rank["waiting"] = 1 /\ Rank["holding"] = 2
  /\ Rank["done"] = 3 /\ Rank["refused"] = 3 /\ Rank["dead"] = 3
  /\ Rank \in [Steps -> 0 .. 3]
BY DEF Rank, Steps

LEMMA OwnStepGoesForward ==
  ASSUME pc \in [Requests -> Steps], NEW q \in Requests, Request(q)
  PROVE  Rank[pc[q]] < Rank[pc'[q]] /\ \A r \in Requests \ {q} : pc'[r] = pc[r]
<1>1. PICK step \in {"waiting", "holding", "done", "refused"} :
        /\ Goto(q, step)
        /\ \/ pc[q] = "new"
           \/ pc[q] = "waiting" /\ step # "waiting"
           \/ pc[q] = "holding" /\ step = "done"
  BY DEF Request, Save, SaveLock, SaveWrite, Complete, CompleteLock, CompleteWrite, LockForUpdate,
         Import, ImportRead, ImportLock, ImportWrite, Close, TriggerFailure, Prepare, CloseWrite, TriggerFailureWrite
<1>2. pc'[q] = step /\ \A r \in Requests \ {q} : pc'[r] = pc[r]
  BY <1>1
<1> QED BY <1>1, <1>2, Ranks

\* A request consists of at most three steps and never returns to a statement that it has behind it.
THEOREM RequestsAreFinite == Spec => StepsGoForward
<1>1. ASSUME IInv, [Next]_vars, NEW q \in Requests
      PROVE  Rank[pc[q]] <= Rank[pc'[q]] /\ (Request(q) => Rank[pc[q]] < Rank[pc'[q]])
  <2>1. pc \in [Requests -> Steps] /\ Rank[pc[q]] \in 0 .. 3
    BY <1>1, Ranks DEF IInv, TypeOK
  <2>2. CASE Request(q)
    <3>1. Rank[pc'[q]] \in 0 .. 3
      BY <1>1, NextIInv, Ranks DEF IInv, TypeOK
    <3> QED BY <2>1, <2>2, <3>1, OwnStepGoesForward
  <2>3. CASE ~Request(q)
    <3>1. ASSUME NEW r \in Requests, Request(r) PROVE pc'[q] = pc[q]
      BY <2>1, <2>3, <3>1, OwnStepGoesForward
    <3>2. ASSUME NEW r \in Requests, Abort(r) PROVE pc'[q] = pc[q] \/ pc'[q] = "dead"
      BY <2>1, <3>2 DEF Abort
    <3>3. pc'[q] = pc[q] \/ pc'[q] = "dead"
      BY <1>1, <3>1, <3>2 DEF Next, Tick, Finished, vars
    <3> QED BY <2>1, <2>3, <3>3, Ranks
  <2> QED BY <2>2, <2>3
<1>2. IInv /\ [Next]_vars =>
        [\A q \in Requests : /\ Rank[pc[q]] <= Rank[pc'[q]]
                             /\ Request(q) => Rank[pc[q]] < Rank[pc'[q]]]_vars
  BY <1>1
<1> QED BY <1>2, Invariance, PTL DEF Spec, StepsGoForward
==============================================================================
