----------------------------- MODULE MCRunRecords -----------------------------
(* RunRecords with a report of two tests of one case, of which one failed, and a test of no case.  *)
(* While the case is not approved, none of them has one.                                           *)
EXTENDS RunRecords, TLC

CONSTANTS case, first, second, third

MCReports == {
  first :> [tags |-> {case}, status |-> "failed"] @@ second :> [tags |-> {case}, status |-> "success"]
    @@ third :> [tags |-> {}, status |-> "canceled"]}
===============================================================================
