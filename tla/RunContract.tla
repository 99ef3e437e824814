----------------------------- MODULE RunContract -----------------------------
(***************************************************************************)
(* What the API promises about a test run, whoever writes it and in        *)
(* whatever order: a run is opened once, its results may change while it   *)
(* is IN_PROGRESS (possibly in the very step that completes it), and from  *)
(* the moment it is COMPLETED neither its status nor its results change.   *)
(*                                                                         *)
(* RunRecords implements this for one run at the granularity of the row    *)
(* locks; PipelineRuns implements it for automated runs.                   *)
(***************************************************************************)

CONSTANTS
  Run,        \* the runs
  Contents    \* what the results of one run can be, as a whole

VARIABLES
  phase,      \* phase[r]: "absent", "open" (IN_PROGRESS) or "closed" (COMPLETED)
  ledger      \* ledger[r]: the results of run r

vars == <<phase, ledger>>

TypeOK ==
  /\ phase \in [Run -> {"absent", "open", "closed"}]
  /\ ledger \in [Run -> Contents]

Init ==
  /\ phase \in [Run -> {"absent", "open"}]
  /\ ledger \in [Run -> Contents]

\* The results of r, and of no other run, become anything.
Fill(r) ==
  /\ ledger' \in [Run -> Contents]
  /\ \A other \in Run \ {r} : ledger'[other] = ledger[other]

Open(r) ==
  /\ phase[r] = "absent"
  /\ phase' = [phase EXCEPT ![r] = "open"]
  /\ Fill(r)

Record(r) ==
  /\ phase[r] = "open"
  /\ Fill(r)
  /\ UNCHANGED phase

Close(r) ==
  /\ phase[r] = "open"
  /\ phase' = [phase EXCEPT ![r] = "closed"]
  /\ Fill(r)

Next == \E r \in Run : Open(r) \/ Record(r) \/ Close(r)

Spec == Init /\ [][Next]_vars
==============================================================================
