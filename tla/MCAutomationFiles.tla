--------------------------- MODULE MCAutomationFiles ---------------------------
(* AutomationFiles with contents of every kind and two tests folders, one inside the other. *)
EXTENDS AutomationFiles, TLC

CONSTANTS spec, page, case

MCContents == { [kind |-> "text", codes |-> {case}], [kind |-> "large", codes |-> {}],
                [kind |-> "binary", codes |-> {}] }
MCTestsPaths == {{spec, page}, {page}}
MCWorkers == 1 .. 2
MCSymmetry == Permutations(Saves) \cup Permutations(Scans)
================================================================================
