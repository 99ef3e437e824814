---------------------------- MODULE AutomationFiles ----------------------------
(***************************************************************************)
(* The automation files of one linked project: saves and coverage requests *)
(* over one repository that people push to and merge, while administrators *)
(* move the tests folder and reviewers approve cases.                      *)
(***************************************************************************)
EXTENDS FileSaves, CoverageScans

CONSTANTS MaxRequests      \* bound on the requests that are made in all

vars == <<repoVars, testsPath, approved, saveVars, scanVars>>

Init == RepoInit /\ SaveInit /\ ScanInit

Made == Cardinality({s \in Saves : save[s].pc # "new"}) + Cardinality({r \in Scans : scan[r].pc # "new"})

\* RepositoryService.link with another tests folder.
Relink == testsPath' \in TestsPaths \ {testsPath} /\ UNCHANGED <<repoVars, approved, saveVars, scanVars>>

Approve(c) == approved' = approved \cup {c} /\ UNCHANGED <<repoVars, testsPath, saveVars, scanVars>>

StartSave(s) == Made < MaxRequests /\ \E p \in Paths, b \in Branches : ReadFile(s, p, b)
StartScan(r) == Made < MaxRequests /\ \E b \in Branches : Start(r, b)

Next ==
  \/ RepoNext /\ UNCHANGED <<testsPath, approved, saveVars, scanVars>>
  \/ Relink
  \/ \E c \in Cases \ approved : Approve(c)
  \/ \E s \in Saves : (StartSave(s) \/ SaveStep(s) \/ CallFails(s)) /\ UNCHANGED <<approved, scanVars>>
  \/ \E r \in Scans : (StartScan(r) \/ ScanStep(r) \/ ScanFails(r)) /\ UNCHANGED saveVars

Spec == Init /\ [][Next]_vars

\* Every variable holds values of its kind.
TypeOK == RepoTypeOK /\ SaveTypeOK /\ ScanTypeOK
===============================================================================
