------------------------------ MODULE CaseReview ------------------------------
(***************************************************************************)
(* One TestCase row, its TestCaseSuggestion rows and every request that    *)
(* writes them, at the granularity of the statements sent to Postgres      *)
(* (READ COMMITTED).                                                       *)
(*                                                                         *)
(*   Edits       PATCH /test-cases/:id            (TestCasesService)       *)
(*   Removes     DELETE /test-cases/:id           (TestCasesService)       *)
(*   Approvals   POST /test-cases/:id/approve     (CaseReviewService; one  *)
(*               id of a bulk approve takes the same two steps)            *)
(*   Proposals   MCP update_test_case             (McpWriteService)        *)
(*   Accepts     POST /suggestions/:id/accept     (SuggestionsService)     *)
(*   Rejects     POST /suggestions/:id/reject     (SuggestionsService)     *)
(*                                                                         *)
(* createOrReplace and accept hold the case row FOR UPDATE until they      *)
(* commit; a plain UPDATE waits for the holder, then re-evaluates its      *)
(* WHERE clause.  People and agents write different values, so a property  *)
(* can tell whose words a field holds.                                     *)
(***************************************************************************)
EXTENDS Naturals, FiniteSets

CONSTANTS
  Fields,                     \* SUGGESTION_FIELDS
  HumanValues, AiValues,      \* what people and agents write into them
  Original,                   \* the value of a field at creation
  Edits, Removes, Approvals, Proposals, Accepts, Rejects,    \* request ids
  None

Kinds == <<Edits, Removes, Approvals, Proposals, Accepts, Rejects>>
Requests == UNION {Kinds[k] : k \in DOMAIN Kinds}

ASSUME RequestsDisjoint ==
  \A k, m \in DOMAIN Kinds : k # m => Kinds[k] \cap Kinds[m] = {}
ASSUME NoneAssumption == None \notin Requests

VARIABLES
  testCase,     \* the TestCase row
  suggestion,   \* suggestion[p]: the row that proposal p inserts
  locked,       \* the requests (at most one) holding the case row FOR UPDATE
  pc, local     \* per request: its next step and what it read

vars == <<testCase, suggestion, locked, pc, local>>

Values == {Original} \cup HumanValues \cup AiValues
Writes(values) == UNION {[touched -> values] : touched \in SUBSET Fields}
NoFields == [f \in {} |-> Original]
SuggestionChanges == Writes([from : Values, to : AiValues])

TestCase == [fields : [Fields -> Values], review : {"AI_DRAFT", "APPROVED"},
             deleted : BOOLEAN]
Suggestion == [status : {"absent", "PENDING", "ACCEPTED", "REJECTED", "deleted"},
               changes : SuggestionChanges]
\* new: the values a request asks for; changes: the diff it computed; target: the suggestion it is
\* about; drops: the pending suggestions its transaction has deleted.
Local == [new : Writes(HumanValues \cup AiValues), changes : SuggestionChanges,
          target : Proposals \cup {None}, drops : SUBSET Proposals]
Blank == [new |-> NoFields, changes |-> NoFields, target |-> None, drops |-> {}]

Ends == {"done", "refused", "dead"}
Steps == {"new", "write", "lock", "delete", "create", "lock suggestion", "apply"} \cup Ends

TypeOK ==
  /\ testCase \in TestCase
  /\ suggestion \in [Proposals -> Suggestion]
  /\ locked \subseteq Proposals \cup Accepts
  /\ pc \in [Requests -> Steps]
  /\ local \in [Requests -> Local]

\* A case made on the web is approved, one made by an agent is a draft.
Init ==
  /\ testCase \in [fields : {[f \in Fields |-> Original]}, review : {"AI_DRAFT", "APPROVED"},
                   deleted : {FALSE}]
  /\ suggestion = [p \in Proposals |-> [status |-> "absent", changes |-> NoFields]]
  /\ locked = {}
  /\ pc = [q \in Requests |-> "new"]
  /\ local = [q \in Requests |-> Blank]

Goto(q, step) == pc' = [pc EXCEPT ![q] = step]
IsDraft == testCase.review = "AI_DRAFT"
Free == locked = {}
Lock(q) == locked' = locked \cup {q}
Unlock(q) == locked' = locked \ {q}
WriteFields(new) ==
  testCase' = [testCase EXCEPT !.fields = [f \in Fields |-> IF f \in DOMAIN new THEN new[f] ELSE @[f]]]

------------------------------------------------------------------------------
(* TestCasesService.update and remove: an unlocked check, then an unconditional write *)

EditRead(e) ==
  /\ pc[e] = "new"
  /\ IF testCase.deleted
       THEN Goto(e, "refused") /\ UNCHANGED local
       ELSE /\ \E new \in Writes(HumanValues) \ {NoFields} : local' = [local EXCEPT ![e].new = new]
            /\ Goto(e, "write")
  /\ UNCHANGED <<testCase, suggestion, locked>>

EditWrite(e) ==
  /\ pc[e] = "write"
  /\ Free
  /\ WriteFields(local[e].new)
  /\ Goto(e, "done")
  /\ UNCHANGED <<suggestion, locked, local>>

RemoveRead(d) ==
  /\ pc[d] = "new"
  /\ Goto(d, IF testCase.deleted THEN "refused" ELSE "write")
  /\ UNCHANGED <<testCase, suggestion, locked, local>>

RemoveWrite(d) ==
  /\ pc[d] = "write"
  /\ Free
  /\ testCase' = [testCase EXCEPT !.deleted = TRUE]
  /\ Goto(d, "done")
  /\ UNCHANGED <<suggestion, locked, local>>

------------------------------------------------------------------------------
(* CaseReviewService.approve *)

ApproveRead(v) ==
  /\ pc[v] = "new"
  /\ Goto(v, IF testCase.deleted \/ ~IsDraft THEN "refused" ELSE "write")
  /\ UNCHANGED <<testCase, suggestion, locked, local>>

\* UPDATE ... WHERE reviewState = 'AI_DRAFT' AND deletedAt IS NULL.
ApproveWrite(v) ==
  /\ pc[v] = "write"
  /\ Free
  /\ IF IsDraft /\ ~testCase.deleted
       THEN /\ testCase' = [testCase EXCEPT !.review = "APPROVED"]
            /\ Goto(v, "done")
       ELSE Goto(v, "refused") /\ UNCHANGED testCase
  /\ UNCHANGED <<suggestion, locked, local>>

------------------------------------------------------------------------------
(* McpWriteService.updateTestCase and SuggestionsService.createOrReplace *)

\* buildSuggestionChanges: the fields that new really changes, with their present value.
Changes(new) ==
  [f \in {x \in DOMAIN new : new[x] # testCase.fields[x]} |->
     [from |-> testCase.fields[f], to |-> new[f]]]
\* Mutant of UpdateData: the whole change is stored in the field.
UpdateDataWhole(changes) == changes
\* changesToUpdateData
UpdateData(changes) == [f \in DOMAIN changes |-> changes[f].to]

\* The unlocked read decides between a direct write and a suggestion.
ProposeRead(p) ==
  /\ pc[p] = "new"
  /\ \E new \in Writes(AiValues) :
       IF testCase.deleted \/ Changes(new) = NoFields
         THEN Goto(p, "refused") /\ UNCHANGED local
         ELSE /\ local' = [local EXCEPT ![p].new = new, ![p].changes = Changes(new)]
              /\ Goto(p, IF IsDraft THEN "write" ELSE "lock")
  /\ UNCHANGED <<testCase, suggestion, locked>>

\* Mutant of ProposeDirect: the case may have been approved meanwhile.
ProposeDirectUnguarded(p) ==
  /\ pc[p] = "write"
  /\ Free
  /\ WriteFields(UpdateData(local[p].changes))
  /\ Goto(p, "done")
  /\ UNCHANGED <<suggestion, locked, local>>

\* UPDATE ... WHERE reviewState = 'AI_DRAFT' AND deletedAt IS NULL; if it matches nothing the
\* proposal becomes a suggestion after all.
ProposeDirect(p) ==
  /\ pc[p] = "write"
  /\ Free
  /\ IF IsDraft /\ ~testCase.deleted
       THEN WriteFields(UpdateData(local[p].changes)) /\ Goto(p, "done")
       ELSE Goto(p, "lock") /\ UNCHANGED testCase
  /\ UNCHANGED <<suggestion, locked, local>>

\* Mutant of ProposeLock: two proposals may hold the case.
ProposeLockShared(p) ==
  /\ pc[p] = "lock"
  /\ IF testCase.deleted \/ Changes(local[p].new) = NoFields
       THEN Goto(p, "refused") /\ UNCHANGED <<locked, local>>
       ELSE /\ local' = [local EXCEPT ![p].changes = Changes(local[p].new)]
            /\ Lock(p) /\ Goto(p, "delete")
  /\ UNCHANGED <<testCase, suggestion>>

\* SELECT ... FOR UPDATE, and the diff against the row as it is now.
ProposeLock(p) ==
  /\ pc[p] = "lock"
  /\ Free
  /\ IF testCase.deleted \/ Changes(local[p].new) = NoFields
       THEN Goto(p, "refused") /\ UNCHANGED <<locked, local>>
       ELSE /\ local' = [local EXCEPT ![p].changes = Changes(local[p].new)]
            /\ Lock(p) /\ Goto(p, "delete")
  /\ UNCHANGED <<testCase, suggestion>>

Pending == {p \in Proposals : suggestion[p].status = "PENDING"}
\* Suggestion rows written or locked by a transaction that has not committed.
Taken(p) ==
  \/ \E a \in Accepts : pc[a] = "apply" /\ local[a].target = p
  \/ \E o \in Proposals : pc[o] = "create" /\ p \in local[o].drops

\* deleteMany: the rows it deletes stay visible, and locked, until the transaction commits.
ProposeDelete(p) ==
  /\ pc[p] = "delete"
  /\ \A o \in Pending : ~Taken(o)
  /\ local' = [local EXCEPT ![p].drops = Pending]
  /\ Goto(p, "create")
  /\ UNCHANGED <<testCase, suggestion, locked>>

\* The INSERT, and the commit.
ProposeCreate(p) ==
  /\ pc[p] = "create"
  /\ suggestion' = [o \in Proposals |->
       CASE o = p                 -> [status |-> "PENDING", changes |-> local[p].changes]
         [] o \in local[p].drops  -> [suggestion[o] EXCEPT !.status = "deleted"]
         [] OTHER                 -> suggestion[o]]
  /\ local' = [local EXCEPT ![p].drops = {}]
  /\ Unlock(p) /\ Goto(p, "done")
  /\ UNCHANGED testCase

------------------------------------------------------------------------------
(* SuggestionsService.accept *)

Exists(p) == suggestion[p].status \notin {"absent", "deleted"}

\* The unlocked lookup of the suggestion's case.
AcceptRead(a) ==
  /\ pc[a] = "new"
  /\ \E p \in Proposals : Exists(p) /\ local' = [local EXCEPT ![a].target = p]
  /\ Goto(a, "lock")
  /\ UNCHANGED <<testCase, suggestion, locked>>

\* isSuggestionStale
Stale(changes) == \E f \in DOMAIN changes : testCase.fields[f] # changes[f].from
Acceptable(p) == suggestion[p].status = "PENDING" /\ ~Stale(suggestion[p].changes)

\* Mutant of AcceptLockCase: the suggestion is locked first, the case only by the UPDATE.
AcceptLockSuggestionFirst(a) ==
  /\ pc[a] = "lock"
  /\ ~Taken(local[a].target)
  /\ Goto(a, IF ~testCase.deleted /\ Acceptable(local[a].target) THEN "apply" ELSE "refused")
  /\ UNCHANGED <<testCase, suggestion, locked, local>>

AcceptLockCase(a) ==
  /\ pc[a] = "lock"
  /\ Free
  /\ IF testCase.deleted THEN Goto(a, "refused") /\ UNCHANGED locked
                         ELSE Lock(a) /\ Goto(a, "lock suggestion")
  /\ UNCHANGED <<testCase, suggestion, local>>

\* The suggestion may have been resolved or replaced, or the case edited, since it was shown; a
\* refusal rolls back.
AcceptLockSuggestion(a) ==
  /\ pc[a] = "lock suggestion"
  /\ ~Taken(local[a].target)
  /\ IF Acceptable(local[a].target) THEN Goto(a, "apply") /\ UNCHANGED locked
                                    ELSE Goto(a, "refused") /\ Unlock(a)
  /\ UNCHANGED <<testCase, suggestion, local>>

\* Both updates, and the commit.
AcceptWrite(a) ==
  LET p == local[a].target IN
  /\ pc[a] = "apply"
  /\ locked \subseteq {a}
  /\ WriteFields(UpdateData(suggestion[p].changes))
  /\ suggestion' = [suggestion EXCEPT ![p].status = "ACCEPTED"]
  /\ Unlock(a) /\ Goto(a, "done")
  /\ UNCHANGED local

------------------------------------------------------------------------------
(* SuggestionsService.reject *)

\* Mutant of Reject: the status is not part of the WHERE clause.
RejectAnyStatus(r) ==
  /\ pc[r] = "new"
  /\ \E p \in Proposals :
       /\ Exists(p) /\ ~Taken(p)
       /\ suggestion' = [suggestion EXCEPT ![p].status = "REJECTED"]
  /\ Goto(r, "done")
  /\ UNCHANGED <<testCase, locked, local>>

\* UPDATE ... WHERE status = 'PENDING'.
Reject(r) ==
  /\ pc[r] = "new"
  /\ \E p \in Proposals :
       /\ Exists(p) /\ ~Taken(p)
       /\ IF p \in Pending
            THEN suggestion' = [suggestion EXCEPT ![p].status = "REJECTED"] /\ Goto(r, "done")
            ELSE Goto(r, "refused") /\ UNCHANGED suggestion
  /\ UNCHANGED <<testCase, locked, local>>

------------------------------------------------------------------------------
Edit(e) == EditRead(e) \/ EditWrite(e)
Remove(d) == RemoveRead(d) \/ RemoveWrite(d)
Approve(v) == ApproveRead(v) \/ ApproveWrite(v)
Propose(p) ==
  ProposeRead(p) \/ ProposeDirect(p) \/ ProposeLock(p) \/ ProposeDelete(p) \/ ProposeCreate(p)
Accept(a) == AcceptRead(a) \/ AcceptLockCase(a) \/ AcceptLockSuggestion(a) \/ AcceptWrite(a)

Request(q) ==
  \/ q \in Edits /\ Edit(q)
  \/ q \in Removes /\ Remove(q)
  \/ q \in Approvals /\ Approve(q)
  \/ q \in Proposals /\ Propose(q)
  \/ q \in Accepts /\ Accept(q)
  \/ q \in Rejects /\ Reject(q)

\* The API process dies, or Prisma's transaction timeout passes: Postgres rolls the holder back.
Abort(q) ==
  /\ Goto(q, "dead")
  /\ Unlock(q)
  /\ local' = [local EXCEPT ![q] = Blank]
  /\ UNCHANGED <<testCase, suggestion>>

\* Only requests about a suggestion that never came are left.
Finished ==
  /\ \A q \in Requests : pc[q] \in Ends \/ (pc[q] = "new" /\ ~\E p \in Proposals : Exists(p))
  /\ UNCHANGED vars

Next ==
  \/ \E q \in Requests : Request(q)
  \/ \E q \in locked : Abort(q)
  \/ Finished

Spec == Init /\ [][Next]_vars

\* A request that was received goes on: Postgres grants a free row lock to its waiters.
FairSpec == Spec /\ \A q \in Requests : WF_vars(pc[q] # "new" /\ Request(q))

------------------------------------------------------------------------------
(* Properties *)

\* A case never has two pending suggestions: the FOR UPDATE lock makes deleteMany and create one
\* step (createOrReplace).
OnePending == Cardinality(Pending) <= 1

\* A suggestion is resolved once: no accept, reject or replacement touches an accepted or rejected
\* one, however late it arrives (accept, reject, createOrReplace).
ResolvedOnce ==
  [][\A p \in Proposals :
       suggestion[p].status \in {"ACCEPTED", "REJECTED"} => suggestion'[p] = suggestion[p]]_vars

\* Every request that was received is answered: proposals and accepts take the case and the
\* suggestion in the same order, so they never wait for one another (accept, createOrReplace).
EveryRequestIsAnswered == \A q \in Requests : pc[q] # "new" ~> pc[q] \in Ends

Contract == INSTANCE CaseContract WITH
  fields <- testCase.fields,
  review <- testCase.review,
  deleted <- testCase.deleted,
  proposal <- IF Pending = {} THEN NoFields ELSE suggestion[CHOOSE p \in Pending : TRUE].changes

\* Agents' words reach an approved case only through an accepted proposal, and an accept never
\* overwrites what a person wrote after the proposal was made.
ImplementsContract == Contract!Spec
==============================================================================
