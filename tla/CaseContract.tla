---------------------------- MODULE CaseContract -----------------------------
(***************************************************************************)
(* What the tool promises about a test case that people and AI agents edit *)
(* together: every request acts at one instant.  An agent writes directly  *)
(* only to a draft nobody approved; otherwise its proposal waits, at most  *)
(* one per case, until a person accepts it.  An accepted proposal replaces *)
(* exactly the values it was made against.                                 *)
(*                                                                         *)
(* CaseReview implements this at the granularity of database statements.   *)
(***************************************************************************)

CONSTANTS
  Fields,                     \* the template fields
  HumanValues, AiValues,      \* what people and agents write into them
  Original                    \* the value of a field at creation

VARIABLES
  fields,     \* the case's values
  review,     \* "AI_DRAFT" or "APPROVED"
  deleted,    \* whether the case is soft-deleted
  proposal    \* the pending changes: field -> [from, to]; empty when there is none

vars == <<fields, review, deleted, proposal>>

Values == {Original} \cup HumanValues \cup AiValues
NoChanges == [f \in {} |-> Original]

TypeOK ==
  /\ fields \in [Fields -> Values]
  /\ review \in {"AI_DRAFT", "APPROVED"}
  /\ deleted \in BOOLEAN
  /\ \E touched \in SUBSET Fields : proposal \in [touched -> [from : Values, to : AiValues]]

Init ==
  /\ fields = [f \in Fields |-> Original]
  /\ review \in {"AI_DRAFT", "APPROVED"}
  /\ deleted = FALSE
  /\ proposal = NoChanges

\* fields with those in the domain of new replaced.
With(new) == [f \in Fields |-> IF f \in DOMAIN new THEN new[f] ELSE fields[f]]
Writes(values) == UNION {[touched -> values] : touched \in SUBSET Fields}

\* A person may edit the case at any time.
Edit ==
  /\ \E new \in Writes(HumanValues) : fields' = With(new)
  /\ UNCHANGED <<review, deleted, proposal>>

EditDraft ==
  /\ review = "AI_DRAFT" /\ ~deleted
  /\ \E new \in Writes(AiValues) : fields' = With(new)
  /\ UNCHANGED <<review, deleted, proposal>>

Approve ==
  /\ review = "AI_DRAFT" /\ ~deleted
  /\ review' = "APPROVED"
  /\ UNCHANGED <<fields, deleted, proposal>>

Delete ==
  /\ deleted' = TRUE
  /\ UNCHANGED <<fields, review, proposal>>

\* A new proposal replaces the pending one.
Propose ==
  /\ review = "APPROVED" /\ ~deleted
  /\ \E new \in Writes(AiValues) :
       proposal' = [f \in DOMAIN new |-> [from |-> fields[f], to |-> new[f]]]
  /\ proposal' # NoChanges
  /\ UNCHANGED <<fields, review, deleted>>

\* The proposal is applied to the very values it was made against.
Accept ==
  /\ proposal # NoChanges /\ ~deleted
  /\ \A f \in DOMAIN proposal : fields[f] = proposal[f].from
  /\ fields' = With([f \in DOMAIN proposal |-> proposal[f].to])
  /\ proposal' = NoChanges
  /\ UNCHANGED <<review, deleted>>

Reject ==
  /\ proposal' = NoChanges
  /\ UNCHANGED <<fields, review, deleted>>

Next == Edit \/ EditDraft \/ Approve \/ Delete \/ Propose \/ Accept \/ Reject

Spec == Init /\ [][Next]_vars
==============================================================================
