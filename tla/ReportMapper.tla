----------------------------- MODULE ReportMapper -----------------------------
(***************************************************************************)
(* mapTestReport: which result rows the test report of a pipeline fills.   *)
(* A report says, for each test it contains, which cases the name of the   *)
(* test carries as tags (@TC-AUTH-001) and how the test ended.  A case and *)
(* its row are one thing here, and so are a test and the row made for it   *)
(* when it belongs to no case.                                             *)
(***************************************************************************)
CONSTANTS
  Cases,            \* the cases of the project, each with the row a run may have for it
  Tests,            \* the tests a report may contain, each with the row it may get
  RawStatuses       \* GitLab's words for how a test ended

ASSUME ReportRowsDisjoint == Cases \cap Tests = {}

Test == [tags : SUBSET Cases, status : RawStatuses]
TestReport == UNION {[contained -> Test] : contained \in SUBSET Tests}

MapTestStatus(raw) ==
  CASE raw = "success" -> "PASSED"
    [] raw \in {"failed", "error"} -> "FAILED"
    [] OTHER -> "SKIPPED"

\* Mutant of Aggregate: one test that passed is enough.
AggregatePassedFirst(statuses) ==
  IF "PASSED" \in statuses THEN "PASSED"
  ELSE IF "FAILED" \in statuses THEN "FAILED" ELSE "SKIPPED"

\* Several tests for one case: a failure counts most.
Aggregate(statuses) ==
  IF "FAILED" \in statuses THEN "FAILED"
  ELSE IF "PASSED" \in statuses THEN "PASSED" ELSE "SKIPPED"

\* The cases test t fills: a tag that names no approved case is ignored.
TaggedCases(report, approved, t) == report[t].tags \cap approved

Group(report, approved, c) == {t \in DOMAIN report : c \in TaggedCases(report, approved, t)}

\* The rows the report fills, with their status: of the cases with a test, and of the tests without.
MapTestReport(report, approved) ==
  LET linked == {c \in Cases : Group(report, approved, c) # {}}
      unlinked == {t \in DOMAIN report : TaggedCases(report, approved, t) = {}}
  IN [x \in linked \cup unlinked |->
        IF x \in linked THEN Aggregate({MapTestStatus(report[t].status) : t \in Group(report, approved, x)})
                        ELSE MapTestStatus(report[x].status)]
===============================================================================
