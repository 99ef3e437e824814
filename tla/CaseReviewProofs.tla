--------------------------- MODULE CaseReviewProofs ---------------------------
(***************************************************************************)
(* CaseReview, proved for every number of fields, values and requests.     *)
(*                                                                         *)
(* What a proposal or an accept decided before its last statement stays    *)
(* true until it, because the FOR UPDATE lock on the case keeps edits,     *)
(* deletions and the other holders out, and the locks on the suggestion    *)
(* rows keep rejections out.  IInv says so; OnePending, ResolvedOnce and   *)
(* the contract follow from it.                                            *)
(***************************************************************************)
EXTENDS CaseReview, FiniteSetTheorems, TLAPS

\* FOR UPDATE has one holder: whoever is past its locking statement.
OneHolder ==
  /\ \A q, r \in locked : q = r
  /\ \A q \in locked : pc[q] \in {"delete", "create", "lock suggestion", "apply"}
  /\ \A p \in Proposals : pc[p] \in {"delete", "create"} => p \in locked
  /\ \A a \in Accepts : pc[a] \in {"lock suggestion", "apply"} => a \in locked

\* An edit writes people's words.
EditsFit == \A e \in Edits : pc[e] = "write" => local[e].new \in Writes(HumanValues)

\* What a proposal has found out before its INSERT is still so: the case is approved, the diff is the
\* diff against its present values, and nobody resolved or added a pending suggestion.
ProposalFits(p) ==
  /\ pc[p] # "done" => suggestion[p].status = "absent"
  /\ pc[p] \in {"write", "lock", "delete", "create"} => local[p].new \in Writes(AiValues)
  /\ pc[p] = "lock" => testCase.review = "APPROVED" \/ testCase.deleted
  /\ pc[p] \in {"delete", "create"} =>
       /\ testCase.review = "APPROVED" /\ ~testCase.deleted
       /\ local[p].changes = Changes(local[p].new) /\ local[p].changes # NoFields
  /\ pc[p] = "create" => local[p].drops = Pending
ProposalsFit == \A p \in Proposals : ProposalFits(p)

\* What an accept has checked is still so when it writes.
AcceptFits(a) ==
  /\ pc[a] \in {"lock", "lock suggestion", "apply"} => local[a].target \in Proposals
  /\ pc[a] \in {"lock suggestion", "apply"} => ~testCase.deleted
  /\ pc[a] = "apply" => Acceptable(local[a].target)
AcceptsFit == \A a \in Accepts : AcceptFits(a)

\* At most one suggestion is pending, and it changes something.
PendingIsOne ==
  /\ \A o, p \in Pending : o = p
  /\ \A p \in Pending : suggestion[p].changes # NoFields

IInv == TypeOK /\ OneHolder /\ EditsFit /\ ProposalsFit /\ AcceptsFit /\ PendingIsOne

USE DEF Goto, Lock, Unlock, Free

LEMMA RequestsUnion ==
  Requests = Edits \cup Removes \cup Approvals \cup Proposals \cup Accepts \cup Rejects
BY DEF Requests, Kinds

LEMMA KindsDisjoint ==
  /\ Edits \cap (Removes \cup Approvals \cup Proposals \cup Accepts \cup Rejects) = {}
  /\ Removes \cap (Approvals \cup Proposals \cup Accepts \cup Rejects) = {}
  /\ Approvals \cap (Proposals \cup Accepts \cup Rejects) = {}
  /\ Proposals \cap (Accepts \cup Rejects) = {}
  /\ Accepts \cap Rejects = {}
BY RequestsDisjoint DEF Kinds

\* buildSuggestionChanges yields a change of template fields, and changesToUpdateData its new values.
LEMMA ChangesType ==
  ASSUME TypeOK, NEW new \in Writes(AiValues)
  PROVE  Changes(new) \in SuggestionChanges
<1>1. PICK touched \in SUBSET Fields : new \in [touched -> AiValues]
  BY DEF Writes
<1>2. Changes(new) \in [{x \in touched : new[x] # testCase.fields[x]} -> [from : Values, to : AiValues]]
  BY <1>1 DEF Changes, TypeOK, TestCase
<1> QED BY <1>2 DEF SuggestionChanges, Writes

LEMMA UpdateDataType ==
  ASSUME NEW changes \in SuggestionChanges
  PROVE  UpdateData(changes) \in Writes(AiValues)
<1>1. PICK touched \in SUBSET Fields : changes \in [touched -> [from : Values, to : AiValues]]
  BY DEF SuggestionChanges, Writes
<1>2. UpdateData(changes) \in [touched -> AiValues]
  BY <1>1 DEF UpdateData
<1> QED BY <1>2 DEF Writes

\* Writing fields leaves a case a case, and its review and deletion alone.
LEMMA WriteFieldsType ==
  ASSUME TypeOK, NEW new, new \in Writes(HumanValues) \/ new \in Writes(AiValues), WriteFields(new)
  PROVE  /\ testCase' \in TestCase
         /\ testCase'.review = testCase.review /\ testCase'.deleted = testCase.deleted
<1>1. PICK touched \in SUBSET Fields : new \in [touched -> Values]
  BY DEF Writes, Values
<1> QED BY <1>1 DEF WriteFields, TypeOK, TestCase

LEMMA WritesNarrow ==
  /\ Writes(HumanValues) \subseteq Writes(HumanValues \cup AiValues)
  /\ Writes(AiValues) \subseteq Writes(HumanValues \cup AiValues)
BY DEF Writes

LEMMA BlankType == Blank \in Local /\ NoFields \in SuggestionChanges
<1>1. \A S : NoFields \in Writes(S)
  BY DEF NoFields, Writes
<1> QED BY <1>1 DEF Blank, Local, SuggestionChanges

LEMMA InitIInv == Init => IInv
<1> SUFFICES ASSUME Init PROVE IInv
  OBVIOUS
<1>1. TypeOK
  BY BlankType DEF Init, TypeOK, TestCase, Suggestion, Steps, Values
<1>2. Pending = {}
  BY DEF Init, Pending
<1> QED BY <1>1, <1>2, RequestsUnion
  DEF Init, IInv, OneHolder, EditsFit, ProposalsFit, ProposalFits, AcceptsFit, AcceptFits, PendingIsOne

\* A request that writes nothing but its own state and has reached none of the steps that the rest of
\* IInv is about.
LEMMA MovesAlone ==
  ASSUME IInv, NEW q \in Requests, NEW step \in Ends \cup {"lock", "write"},
         Goto(q, step), UNCHANGED <<testCase, suggestion, locked>>,
         local' \in [Requests -> Local], \A r \in Requests \ {q} : local'[r] = local[r],
         pc[q] \in {"new", "write", "lock"},
         q \in Edits /\ step = "write" => local'[q].new \in Writes(HumanValues),
         q \in Accepts /\ step = "lock" => local'[q].target \in Proposals,
         q \in Proposals => /\ step # "done"
                            /\ step \in {"lock", "write"} => local'[q].new \in Writes(AiValues)
                            /\ step = "lock" => testCase.review = "APPROVED" \/ testCase.deleted
  PROVE  IInv'
<1> USE DEF IInv
<1>1. TypeOK'
  BY DEF TypeOK, Steps, Ends
<1>2. pc'[q] = step /\ \A r \in Requests \ {q} : pc'[r] = pc[r]
  BY DEF TypeOK
<1>3. pc'[q] \notin {"delete", "create", "lock suggestion", "apply"}
  BY <1>2 DEF Ends
<1>4. OneHolder'
  <2>1. \A r \in locked : r \in Requests /\ r # q
    BY RequestsUnion DEF OneHolder, TypeOK
  <2>2. \A r \in locked : pc'[r] = pc[r]
    BY <1>2, <2>1
  <2> QED BY <1>2, <1>3, <2>2, RequestsUnion DEF OneHolder
<1>5. EditsFit'
  BY <1>2, RequestsUnion DEF EditsFit, Ends
<1>6. ProposalsFit'
  <2> SUFFICES ASSUME NEW p \in Proposals
               PROVE  ProposalFits(p)'
    BY DEF ProposalsFit
  <2>1. CASE p = q
    BY <1>2, <1>3, <2>1 DEF ProposalsFit, ProposalFits, Ends
  <2>2. CASE p # q
    <3>1. pc'[p] = pc[p] /\ local'[p] = local[p]
      BY <1>2, <2>2, RequestsUnion
    <3> QED BY <3>1 DEF ProposalsFit, ProposalFits, Changes, Pending
  <2> QED BY <2>1, <2>2
<1>7. AcceptsFit'
  <2> SUFFICES ASSUME NEW a \in Accepts
               PROVE  AcceptFits(a)'
    BY DEF AcceptsFit
  <2>1. CASE a = q
    BY <1>2, <1>3, <2>1 DEF AcceptsFit, AcceptFits, Ends
  <2>2. CASE a # q
    <3>1. pc'[a] = pc[a] /\ local'[a] = local[a]
      BY <1>2, <2>2, RequestsUnion
    <3> QED BY <3>1 DEF AcceptsFit, AcceptFits, Acceptable, Stale
  <2> QED BY <2>1, <2>2
<1>8. PendingIsOne'
  BY DEF PendingIsOne, Pending
<1> QED BY <1>1, <1>4, <1>5, <1>6, <1>7, <1>8

\* An UPDATE of the case that had to wait until nobody held it.
LEMMA WritesFreeCase ==
  ASSUME IInv, NEW q \in Requests, Goto(q, "done"), UNCHANGED <<suggestion, locked, local>>, Free,
         testCase' \in TestCase,
         testCase.review = "APPROVED" => testCase'.review = "APPROVED",
         testCase.deleted => testCase'.deleted
  PROVE  IInv'
<1> USE DEF IInv
<1>1. TypeOK'
  BY DEF TypeOK, Steps, Ends
<1>2. pc'[q] = "done" /\ \A r \in Requests \ {q} : pc'[r] = pc[r]
  BY DEF TypeOK
<1>3. /\ \A p \in Proposals : pc[p] \notin {"delete", "create"}
      /\ \A a \in Accepts : pc[a] \notin {"lock suggestion", "apply"}
  BY DEF OneHolder
<1>4. OneHolder' /\ EditsFit'
  BY <1>2, RequestsUnion DEF OneHolder, EditsFit
<1>5. ProposalsFit'
  <2> SUFFICES ASSUME NEW p \in Proposals
               PROVE  ProposalFits(p)'
    BY DEF ProposalsFit
  <2>1. pc'[p] = "done" \/ pc'[p] = pc[p]
    BY <1>2, RequestsUnion
  <2> QED BY <1>3, <2>1 DEF ProposalsFit, ProposalFits
<1>6. AcceptsFit'
  <2> SUFFICES ASSUME NEW a \in Accepts
               PROVE  AcceptFits(a)'
    BY DEF AcceptsFit
  <2>1. pc'[a] = "done" \/ pc'[a] = pc[a]
    BY <1>2, RequestsUnion
  <2> QED BY <1>3, <2>1 DEF AcceptsFit, AcceptFits
<1>7. PendingIsOne'
  BY DEF PendingIsOne, Pending
<1> QED BY <1>1, <1>4, <1>5, <1>6, <1>7

\* TestCasesService.update.
LEMMA EditIInv ==
  ASSUME IInv, NEW e \in Edits, Edit(e)
  PROVE  IInv'
<1> USE DEF IInv
<1>1. e \in Requests /\ e \notin Proposals \cup Accepts
  BY RequestsUnion, KindsDisjoint
<1>2. CASE EditRead(e)
  <2>1. CASE testCase.deleted
    BY <1>1, <1>2, <2>1, MovesAlone DEF EditRead, TypeOK, Ends
  <2>2. CASE ~testCase.deleted
    <3>1. PICK new \in Writes(HumanValues) : local' = [local EXCEPT ![e].new = new]
      BY <1>2, <2>2 DEF EditRead
    <3>2. /\ local' \in [Requests -> Local]
          /\ local'[e].new = new /\ \A r \in Requests \ {e} : local'[r] = local[r]
      BY <1>1, <3>1, WritesNarrow DEF TypeOK, Local
    <3> QED BY <1>1, <1>2, <2>2, <3>2, MovesAlone DEF EditRead
  <2> QED BY <2>1, <2>2
<1>3. CASE EditWrite(e)
  <2>1. local[e].new \in Writes(HumanValues)
    BY <1>3 DEF EditWrite, EditsFit
  <2>2. /\ testCase' \in TestCase
        /\ testCase'.review = testCase.review /\ testCase'.deleted = testCase.deleted
    BY <1>3, <2>1, WriteFieldsType DEF EditWrite
  <2> QED BY <1>1, <1>3, <2>2, WritesFreeCase DEF EditWrite
<1> QED BY <1>2, <1>3 DEF Edit

\* TestCasesService.remove.
LEMMA RemoveIInv ==
  ASSUME IInv, NEW d \in Removes, Remove(d)
  PROVE  IInv'
<1> USE DEF IInv
<1>1. d \in Requests /\ d \notin Proposals \cup Accepts \cup Edits
  BY RequestsUnion, KindsDisjoint
<1>2. CASE RemoveRead(d)
  <2>1. PICK step \in {"refused", "write"} : Goto(d, step)
    BY <1>2 DEF RemoveRead
  <2> QED BY <1>1, <1>2, <2>1, MovesAlone DEF RemoveRead, TypeOK, Ends
<1>3. CASE RemoveWrite(d)
  <2>1. /\ testCase' \in TestCase
        /\ testCase'.review = testCase.review /\ testCase'.deleted
    BY <1>3 DEF RemoveWrite, TypeOK, TestCase
  <2> QED BY <1>1, <1>3, <2>1, WritesFreeCase DEF RemoveWrite
<1> QED BY <1>2, <1>3 DEF Remove

\* CaseReviewService.approve.
LEMMA ApproveIInv ==
  ASSUME IInv, NEW v \in Approvals, Approve(v)
  PROVE  IInv'
<1> USE DEF IInv
<1>1. v \in Requests /\ v \notin Proposals \cup Accepts \cup Edits
  BY RequestsUnion, KindsDisjoint
<1>2. CASE ApproveRead(v)
  <2>1. PICK step \in {"refused", "write"} : Goto(v, step)
    BY <1>2 DEF ApproveRead
  <2> QED BY <1>1, <1>2, <2>1, MovesAlone DEF ApproveRead, TypeOK, Ends
<1>3. CASE ApproveWrite(v) /\ IsDraft /\ ~testCase.deleted
  <2>1. testCase' \in TestCase /\ testCase'.review = "APPROVED" /\ testCase'.deleted = testCase.deleted
    BY <1>3 DEF ApproveWrite, TypeOK, TestCase
  <2> QED BY <1>1, <1>3, <2>1, WritesFreeCase DEF ApproveWrite
<1>4. CASE ApproveWrite(v) /\ ~(IsDraft /\ ~testCase.deleted)
  BY <1>1, <1>4, MovesAlone DEF ApproveWrite, TypeOK, Ends
<1> QED BY <1>2, <1>3, <1>4 DEF Approve

\* McpWriteService.updateTestCase up to the suggestion.
LEMMA ProposeOutsideIInv ==
  ASSUME IInv, NEW p \in Proposals, ProposeRead(p) \/ ProposeDirect(p)
  PROVE  IInv'
<1> USE DEF IInv
<1>1. p \in Requests /\ p \notin Accepts \cup Edits
  BY RequestsUnion, KindsDisjoint
<1>2. CASE ProposeRead(p)
  <2>1. PICK new \in Writes(AiValues) :
          IF testCase.deleted \/ Changes(new) = NoFields
            THEN Goto(p, "refused") /\ UNCHANGED local
            ELSE /\ local' = [local EXCEPT ![p].new = new, ![p].changes = Changes(new)]
                 /\ Goto(p, IF IsDraft THEN "write" ELSE "lock")
    BY <1>2 DEF ProposeRead
  <2>2. CASE testCase.deleted \/ Changes(new) = NoFields
    BY <1>1, <1>2, <2>1, <2>2, MovesAlone DEF ProposeRead, TypeOK, Ends
  <2>3. CASE ~(testCase.deleted \/ Changes(new) = NoFields)
    <3>1. PICK step \in {"write", "lock"} : Goto(p, step) /\ (step = "lock" => ~IsDraft)
      BY <2>1, <2>3
    <3>2. testCase.review = "APPROVED" \/ IsDraft
      BY DEF IsDraft, TypeOK, TestCase
    <3>3. /\ local' \in [Requests -> Local]
          /\ local'[p].new = new /\ \A r \in Requests \ {p} : local'[r] = local[r]
      <4>1. Changes(new) \in SuggestionChanges /\ new \in Writes(HumanValues \cup AiValues)
        BY ChangesType, WritesNarrow
      <4>2. local' = [local EXCEPT ![p].new = new, ![p].changes = Changes(new)]
        BY <2>1, <2>3
      <4> QED BY <1>1, <4>1, <4>2 DEF TypeOK, Local
    <3> QED BY <1>1, <1>2, <3>1, <3>2, <3>3, MovesAlone DEF ProposeRead
  <2> QED BY <2>2, <2>3
<1>3. CASE ProposeDirect(p) /\ IsDraft /\ ~testCase.deleted
  <2>1. UpdateData(local[p].changes) \in Writes(AiValues)
    BY <1>1, UpdateDataType DEF TypeOK, Local
  <2>2. /\ testCase' \in TestCase
        /\ testCase'.review = testCase.review /\ testCase'.deleted = testCase.deleted
    BY <1>3, <2>1, WriteFieldsType DEF ProposeDirect
  <2> QED BY <1>1, <1>3, <2>2, WritesFreeCase DEF ProposeDirect
<1>4. CASE ProposeDirect(p) /\ ~(IsDraft /\ ~testCase.deleted)
  <2>1. testCase.review = "APPROVED" \/ testCase.deleted
    BY <1>4 DEF IsDraft, TypeOK, TestCase
  <2>2. local[p].new \in Writes(AiValues)
    BY <1>4 DEF ProposeDirect, ProposalsFit, ProposalFits
  <2> QED BY <1>1, <1>4, <2>1, <2>2, MovesAlone DEF ProposeDirect, TypeOK
<1> QED BY <1>2, <1>3, <1>4

\* createOrReplace locks the case and repeats the diff.
LEMMA ProposeLockIInv ==
  ASSUME IInv, NEW p \in Proposals, ProposeLock(p)
  PROVE  IInv'
<1> USE DEF IInv
<1>1. p \in Requests /\ p \notin Accepts \cup Edits
  BY RequestsUnion, KindsDisjoint
<1>2. CASE testCase.deleted \/ Changes(local[p].new) = NoFields
  BY <1>1, <1>2, MovesAlone DEF ProposeLock, TypeOK, Ends
<1>3. CASE ~(testCase.deleted \/ Changes(local[p].new) = NoFields)
  <2> DEFINE changes == Changes(local[p].new)
  <2>1. /\ pc[p] = "lock" /\ local[p].new \in Writes(AiValues)
        /\ testCase.review = "APPROVED" /\ ~testCase.deleted
    BY <1>3 DEF ProposeLock, ProposalsFit, ProposalFits
  <2>2. /\ locked = {} /\ locked' = {p}
        /\ pc'[p] = "delete" /\ \A r \in Requests \ {p} : pc'[r] = pc[r]
    BY <1>1, <1>3 DEF ProposeLock, TypeOK
  <2>3. /\ local' \in [Requests -> Local]
        /\ local'[p].new = local[p].new /\ local'[p].changes = changes
        /\ \A r \in Requests \ {p} : local'[r] = local[r]
    <3>1. changes \in SuggestionChanges
      BY <2>1, ChangesType
    <3>2. local' = [local EXCEPT ![p].changes = changes]
      BY <1>3 DEF ProposeLock
    <3> HIDE DEF changes
    <3> QED BY <1>1, <3>1, <3>2 DEF TypeOK, Local
  <2>4. UNCHANGED <<testCase, suggestion>>
    BY <1>3 DEF ProposeLock
  <2>5. TypeOK'
    BY <1>1, <1>3, <2>2, <2>3 DEF ProposeLock, TypeOK, Steps
  <2>6. /\ \A r \in Proposals : pc[r] \notin {"delete", "create"}
        /\ \A a \in Accepts : pc[a] \notin {"lock suggestion", "apply"}
    BY <2>2 DEF OneHolder
  <2>7. OneHolder' /\ EditsFit'
    BY <1>1, <2>2, <2>3, <2>6, RequestsUnion DEF OneHolder, EditsFit
  <2>8. ProposalsFit'
    <3> SUFFICES ASSUME NEW r \in Proposals
                 PROVE  ProposalFits(r)'
      BY DEF ProposalsFit
    <3>1. CASE r = p
      <4>1. Changes(local[p].new)' = changes
        BY <2>3, <2>4 DEF Changes
      <4> QED BY <1>3, <2>1, <2>2, <2>3, <2>4, <3>1, <4>1 DEF ProposalsFit, ProposalFits, NoFields
    <3>2. CASE r # p
      BY <2>2, <2>3, <2>4, <2>6, <3>2, RequestsUnion DEF ProposalsFit, ProposalFits
    <3> QED BY <3>1, <3>2
  <2>9. AcceptsFit' /\ PendingIsOne'
    BY <1>1, <2>2, <2>3, <2>4, <2>6, RequestsUnion
    DEF AcceptsFit, AcceptFits, PendingIsOne, Pending
  <2> QED BY <2>5, <2>7, <2>8, <2>9
<1> QED BY <1>2, <1>3

\* deleteMany.
LEMMA ProposeDeleteIInv ==
  ASSUME IInv, NEW p \in Proposals, ProposeDelete(p)
  PROVE  IInv'
<1> USE DEF IInv
<1>1. p \in Requests /\ p \notin Accepts \cup Edits
  BY RequestsUnion, KindsDisjoint
<1>2. /\ pc[p] = "delete" /\ pc'[p] = "create" /\ \A r \in Requests \ {p} : pc'[r] = pc[r]
      /\ UNCHANGED <<testCase, suggestion, locked>>
  BY <1>1 DEF ProposeDelete, TypeOK
<1>3. /\ local' \in [Requests -> Local]
      /\ local'[p].new = local[p].new /\ local'[p].changes = local[p].changes
      /\ local'[p].drops = Pending
      /\ \A r \in Requests \ {p} : local'[r] = local[r]
  BY <1>1 DEF ProposeDelete, TypeOK, Local, Pending
<1>4. TypeOK'
  BY <1>1, <1>3 DEF ProposeDelete, TypeOK, Steps
<1>5. OneHolder' /\ EditsFit'
  BY <1>1, <1>2, <1>3, RequestsUnion DEF OneHolder, EditsFit
<1>6. ProposalsFit'
  <2> SUFFICES ASSUME NEW r \in Proposals
               PROVE  ProposalFits(r)'
    BY DEF ProposalsFit
  <2>1. CASE r = p
    BY <1>2, <1>3, <2>1 DEF ProposalsFit, ProposalFits, Changes, Pending
  <2>2. CASE r # p
    BY <1>2, <1>3, <2>2, RequestsUnion DEF ProposalsFit, ProposalFits, Changes, Pending
  <2> QED BY <2>1, <2>2
<1>7. AcceptsFit'
  <2> SUFFICES ASSUME NEW a \in Accepts
               PROVE  AcceptFits(a)'
    BY DEF AcceptsFit
  <2>1. pc'[a] = pc[a] /\ local'[a] = local[a]
    BY <1>1, <1>2, <1>3, RequestsUnion
  <2> QED BY <1>2, <2>1 DEF AcceptsFit, AcceptFits, Acceptable, Stale
<1>8. PendingIsOne'
  BY <1>2 DEF PendingIsOne, Pending
<1> QED BY <1>4, <1>5, <1>6, <1>7, <1>8

\* The new suggestion takes the place of the one that was pending.
LEMMA CreateReplaces ==
  ASSUME IInv, NEW p \in Proposals, ProposeCreate(p)
  PROVE  /\ suggestion' \in [Proposals -> Suggestion]
         /\ suggestion'[p] = [status |-> "PENDING", changes |-> local[p].changes]
         /\ \A o \in Proposals \ {p} : suggestion'[o].status \in {suggestion[o].status, "deleted"}
         /\ \A o \in Proposals \ Pending : o # p => suggestion'[o] = suggestion[o]
         /\ Pending' = {p}
         /\ pc[p] = "create" /\ suggestion[p].status = "absent"
<1> USE DEF IInv
<1>1. local[p] \in Local /\ pc[p] = "create" /\ local[p].drops = Pending
      /\ suggestion[p].status = "absent"
  BY RequestsUnion DEF ProposeCreate, TypeOK, ProposalsFit, ProposalFits
<1>2. suggestion' = [o \in Proposals |->
         CASE o = p         -> [status |-> "PENDING", changes |-> local[p].changes]
           [] o \in Pending -> [suggestion[o] EXCEPT !.status = "deleted"]
           [] OTHER         -> suggestion[o]]
  BY <1>1 DEF ProposeCreate
<1>3. p \notin Pending
  BY <1>1 DEF Pending
<1>4. /\ suggestion'[p] = [status |-> "PENDING", changes |-> local[p].changes]
      /\ \A o \in Pending : suggestion'[o] = [suggestion[o] EXCEPT !.status = "deleted"]
      /\ \A o \in Proposals \ Pending : o # p => suggestion'[o] = suggestion[o]
  BY <1>2, <1>3 DEF Pending
<1>5. \A o \in Pending : suggestion'[o] \in Suggestion /\ suggestion'[o].status = "deleted"
  BY <1>4 DEF TypeOK, Suggestion, Pending
<1>6. suggestion'[p] \in Suggestion
  BY <1>1, <1>4 DEF Local, Suggestion
<1>7. \A o \in Proposals : suggestion'[o] \in Suggestion
  BY <1>4, <1>5, <1>6 DEF TypeOK
<1>8. Pending' = {p}
  BY <1>4, <1>5 DEF Pending
<1> QED BY <1>1, <1>2, <1>4, <1>5, <1>7, <1>8

LEMMA ProposeCreateIInv ==
  ASSUME IInv, NEW p \in Proposals, ProposeCreate(p)
  PROVE  IInv'
<1>0. /\ suggestion' \in [Proposals -> Suggestion] /\ Pending' = {p}
      /\ suggestion'[p] = [status |-> "PENDING", changes |-> local[p].changes]
      /\ \A o \in Proposals \ Pending : o # p => suggestion'[o] = suggestion[o]
  BY CreateReplaces
<1> USE DEF IInv
<1>1. p \in Requests /\ p \notin Accepts \cup Edits
  BY RequestsUnion, KindsDisjoint
<1>2. /\ pc[p] = "create" /\ pc'[p] = "done" /\ \A r \in Requests \ {p} : pc'[r] = pc[r]
      /\ locked = {p} /\ locked' = {} /\ testCase' = testCase
  BY <1>1 DEF ProposeCreate, TypeOK, OneHolder
<1>3. /\ local' \in [Requests -> Local]
      /\ \A r \in Requests \ {p} : local'[r] = local[r]
  BY <1>1 DEF ProposeCreate, TypeOK, Local
<1>4. /\ \A r \in Proposals \ {p} : pc[r] \notin {"delete", "create"}
      /\ \A a \in Accepts : pc[a] \notin {"lock suggestion", "apply"}
  BY <1>1, <1>2 DEF OneHolder
<1>5. TypeOK'
  BY <1>0, <1>1, <1>2, <1>3 DEF ProposeCreate, TypeOK, Steps, Ends
<1>6. OneHolder' /\ EditsFit'
  BY <1>1, <1>2, <1>3, <1>4, RequestsUnion DEF OneHolder, EditsFit
<1>7. ProposalsFit'
  <2> SUFFICES ASSUME NEW r \in Proposals
               PROVE  ProposalFits(r)'
    BY DEF ProposalsFit
  <2>1. CASE r = p
    BY <1>2, <2>1 DEF ProposalFits
  <2>2. CASE r # p
    <3>1. pc'[r] = pc[r] /\ local'[r] = local[r] /\ pc[r] \notin {"delete", "create"}
      BY <1>2, <1>3, <1>4, <2>2, RequestsUnion
    <3>2. r \notin Pending => suggestion'[r] = suggestion[r]
      BY <1>0, <2>2
    <3>3. pc[r] # "done" => suggestion'[r].status = "absent"
      BY <3>2 DEF ProposalsFit, ProposalFits, Pending
    <3> QED BY <1>2, <3>1, <3>3 DEF ProposalsFit, ProposalFits
  <2> QED BY <2>1, <2>2
<1>8. AcceptsFit'
  BY <1>1, <1>2, <1>3, <1>4, RequestsUnion DEF AcceptsFit, AcceptFits
<1>9. PendingIsOne'
  <2>1. local[p].changes # NoFields
    BY <1>2 DEF ProposalsFit, ProposalFits
  <2>2. Pending' = {p} /\ suggestion'[p].changes = local[p].changes
    BY <1>0
  <2> QED BY <2>1, <2>2 DEF PendingIsOne, NoFields
<1> QED BY <1>5, <1>6, <1>7, <1>8, <1>9

\* SuggestionsService.accept up to its locks.
LEMMA AcceptReadIInv ==
  ASSUME IInv, NEW a \in Accepts, AcceptRead(a)
  PROVE  IInv'
<1> USE DEF IInv
<1>1. a \in Requests /\ a \notin Proposals \cup Edits
  BY RequestsUnion, KindsDisjoint
<1>2. PICK p \in Proposals : local' = [local EXCEPT ![a].target = p]
  BY DEF AcceptRead
<1>3. /\ local' \in [Requests -> Local]
      /\ local'[a].target = p /\ \A r \in Requests \ {a} : local'[r] = local[r]
  BY <1>1, <1>2 DEF TypeOK, Local
<1> QED BY <1>1, <1>3, MovesAlone DEF AcceptRead

LEMMA AcceptLockCaseIInv ==
  ASSUME IInv, NEW a \in Accepts, AcceptLockCase(a)
  PROVE  IInv'
<1> USE DEF IInv
<1>1. a \in Requests /\ a \notin Proposals \cup Edits
  BY RequestsUnion, KindsDisjoint
<1>2. CASE testCase.deleted
  BY <1>1, <1>2, MovesAlone DEF AcceptLockCase, TypeOK, Ends
<1>3. CASE ~testCase.deleted
  <2>1. /\ pc[a] = "lock" /\ pc'[a] = "lock suggestion"
        /\ \A r \in Requests \ {a} : pc'[r] = pc[r]
        /\ locked = {} /\ locked' = {a}
        /\ UNCHANGED <<testCase, suggestion, local>>
    BY <1>1, <1>3 DEF AcceptLockCase, TypeOK
  <2>2. TypeOK'
    BY <1>1, <1>3, <2>1 DEF AcceptLockCase, TypeOK, Steps
  <2>3. /\ \A r \in Proposals : pc[r] \notin {"delete", "create"}
        /\ \A r \in Accepts : pc[r] \notin {"lock suggestion", "apply"}
    BY <2>1 DEF OneHolder
  <2>4. OneHolder' /\ EditsFit'
    BY <1>1, <2>1, <2>3, RequestsUnion DEF OneHolder, EditsFit
  <2>5. ProposalsFit' /\ PendingIsOne'
    BY <1>1, <2>1, <2>3, RequestsUnion DEF ProposalsFit, ProposalFits, PendingIsOne, Pending
  <2>6. AcceptsFit'
    BY <1>3, <2>1, <2>3, RequestsUnion DEF AcceptsFit, AcceptFits
  <2> QED BY <2>2, <2>4, <2>5, <2>6
<1> QED BY <1>2, <1>3

LEMMA AcceptLockSuggestionIInv ==
  ASSUME IInv, NEW a \in Accepts, AcceptLockSuggestion(a)
  PROVE  IInv'
<1> USE DEF IInv
<1>1. a \in Requests /\ a \notin Proposals \cup Edits
  BY RequestsUnion, KindsDisjoint
<1>2. /\ pc[a] = "lock suggestion" /\ locked = {a}
      /\ \A r \in Requests \ {a} : pc'[r] = pc[r]
      /\ UNCHANGED <<testCase, suggestion, local>>
      /\ \/ Acceptable(local[a].target) /\ pc'[a] = "apply" /\ locked' = {a}
         \/ pc'[a] = "refused" /\ locked' = {}
  <2>1. pc[a] = "lock suggestion" /\ locked = {a}
    BY DEF AcceptLockSuggestion, OneHolder
  <2> QED BY <1>1, <2>1 DEF AcceptLockSuggestion, TypeOK
<1>3. TypeOK'
  BY <1>1, <1>2 DEF AcceptLockSuggestion, TypeOK, Steps, Ends
<1>4. /\ \A r \in Proposals : pc[r] \notin {"delete", "create"}
      /\ \A r \in Accepts \ {a} : pc[r] \notin {"lock suggestion", "apply"}
  BY <1>1, <1>2 DEF OneHolder
<1>5. OneHolder'
  <2>1. \A q, r \in locked' : q = r
    BY <1>2
  <2>2. \A r \in Proposals : pc'[r] \notin {"delete", "create"}
    BY <1>1, <1>2, <1>4, RequestsUnion
  <2>3. \A r \in Accepts : pc'[r] \in {"lock suggestion", "apply"} => r \in locked'
    BY <1>2, <1>4, RequestsUnion
  <2>4. \A r \in locked' : pc'[r] = "apply"
    BY <1>2
  <2> QED BY <2>1, <2>2, <2>3, <2>4 DEF OneHolder
<1>6. EditsFit' /\ PendingIsOne'
  BY <1>1, <1>2, RequestsUnion DEF EditsFit, PendingIsOne, Pending
<1>7. ProposalsFit'
  <2> SUFFICES ASSUME NEW r \in Proposals
               PROVE  ProposalFits(r)'
    BY DEF ProposalsFit
  <2>1. pc'[r] = pc[r] /\ pc[r] \notin {"delete", "create"}
    BY <1>1, <1>2, <1>4, RequestsUnion
  <2> QED BY <1>2, <2>1 DEF ProposalsFit, ProposalFits
<1>8. AcceptsFit'
  BY <1>2, <1>4, RequestsUnion DEF AcceptsFit, AcceptFits, Acceptable, Stale
<1> QED BY <1>3, <1>5, <1>6, <1>7, <1>8

LEMMA AcceptWriteIInv ==
  ASSUME IInv, NEW a \in Accepts, AcceptWrite(a)
  PROVE  IInv'
<1> USE DEF IInv
<1>1. a \in Requests /\ a \notin Proposals \cup Edits
  BY RequestsUnion, KindsDisjoint
<1>2. /\ pc[a] = "apply" /\ pc'[a] = "done" /\ \A r \in Requests \ {a} : pc'[r] = pc[r]
      /\ local' = local
  BY <1>1 DEF AcceptWrite, TypeOK
<1>3. locked = {a} /\ locked' = {}
  BY <1>2 DEF AcceptWrite, OneHolder
<1>4. local[a].target \in Proposals /\ Acceptable(local[a].target)
  BY <1>2 DEF AcceptsFit, AcceptFits
<1> DEFINE p == local[a].target
<1>5. suggestion' = [suggestion EXCEPT ![p].status = "ACCEPTED"]
  BY DEF AcceptWrite
<1>6. suggestion' \in [Proposals -> Suggestion] /\ suggestion[p].changes \in SuggestionChanges
  BY <1>4, <1>5 DEF TypeOK, Suggestion
<1>7. UpdateData(suggestion[p].changes) \in Writes(AiValues)
  BY <1>6, UpdateDataType
<1>8. /\ testCase' \in TestCase
      /\ testCase'.review = testCase.review /\ testCase'.deleted = testCase.deleted
  BY <1>7, WriteFieldsType DEF AcceptWrite
<1>9. /\ \A r \in Proposals : pc[r] \notin {"delete", "create"}
      /\ \A r \in Accepts \ {a} : pc[r] \notin {"lock suggestion", "apply"}
  BY <1>1, <1>3 DEF OneHolder
<1>10. TypeOK'
  BY <1>1, <1>3, <1>6, <1>8 DEF AcceptWrite, TypeOK, Steps, Ends
<1>11. OneHolder' /\ EditsFit'
  BY <1>1, <1>2, <1>3, <1>9, RequestsUnion DEF OneHolder, EditsFit
<1>12. ProposalsFit'
  <2> SUFFICES ASSUME NEW r \in Proposals
               PROVE  ProposalFits(r)'
    BY DEF ProposalsFit
  <2>1. pc'[r] = pc[r] /\ pc[r] \notin {"delete", "create"}
    BY <1>1, <1>2, <1>9, RequestsUnion
  <2>2. suggestion[r].status = "absent" => suggestion'[r] = suggestion[r]
    BY <1>4, <1>5 DEF Acceptable, TypeOK
  <2> QED BY <1>2, <1>8, <2>1, <2>2 DEF ProposalsFit, ProposalFits
<1>13. AcceptsFit'
  BY <1>2, <1>8, <1>9, RequestsUnion DEF AcceptsFit, AcceptFits
<1>14. PendingIsOne'
  <2>1. Pending' \subseteq Pending /\ \A o \in Pending' : suggestion'[o] = suggestion[o]
    BY <1>4, <1>5 DEF Pending, TypeOK, Suggestion
  <2> QED BY <2>1 DEF PendingIsOne, NoFields
<1> QED BY <1>10, <1>11, <1>12, <1>13, <1>14

\* SuggestionsService.reject.
LEMMA RejectIInv ==
  ASSUME IInv, NEW r \in Rejects, Reject(r)
  PROVE  IInv'
<1> USE DEF IInv
<1>1. r \in Requests /\ r \notin Proposals \cup Accepts \cup Edits
  BY RequestsUnion, KindsDisjoint
<1>2. PICK p \in Proposals :
        /\ Exists(p) /\ ~Taken(p)
        /\ IF p \in Pending
             THEN suggestion' = [suggestion EXCEPT ![p].status = "REJECTED"] /\ Goto(r, "done")
             ELSE Goto(r, "refused") /\ UNCHANGED suggestion
  BY DEF Reject
<1>3. CASE p \notin Pending
  BY <1>1, <1>2, <1>3, MovesAlone DEF Reject, TypeOK, Ends
<1>4. CASE p \in Pending
  <2>1. /\ suggestion' = [suggestion EXCEPT ![p].status = "REJECTED"] /\ suggestion[p].status = "PENDING"
        /\ pc'[r] = "done" /\ \A q \in Requests \ {r} : pc'[q] = pc[q]
        /\ UNCHANGED <<testCase, locked, local>>
    BY <1>1, <1>2, <1>4 DEF Reject, TypeOK, Pending
  <2>2. TypeOK'
    BY <1>1, <1>2, <1>4, <2>1 DEF Reject, TypeOK, Suggestion, Steps, Ends
  <2>3. OneHolder' /\ EditsFit'
    <3>1. \A q \in Edits \cup Proposals \cup Accepts : pc'[q] = pc[q]
      BY <1>1, <2>1, RequestsUnion, KindsDisjoint
    <3>2. locked \subseteq Proposals \cup Accepts
      BY DEF TypeOK
    <3> QED BY <2>1, <3>1, <3>2 DEF OneHolder, EditsFit
  <2>4. ProposalsFit'
    <3> SUFFICES ASSUME NEW o \in Proposals
                 PROVE  ProposalFits(o)'
      BY DEF ProposalsFit
    <3>1. pc'[o] = pc[o]
      BY <1>1, <2>1, RequestsUnion
    <3>2. suggestion[o].status = "absent" => suggestion'[o] = suggestion[o]
      BY <2>1 DEF TypeOK
    <3>3. pc[o] # "create"
      <4> SUFFICES ASSUME pc[o] = "create" PROVE FALSE
        OBVIOUS
      <4>1. p \in local[o].drops
        BY <1>4 DEF ProposalsFit, ProposalFits
      <4> QED BY <1>2, <4>1 DEF Taken
    <3> QED BY <2>1, <3>1, <3>2, <3>3 DEF ProposalsFit, ProposalFits, Changes
  <2>5. AcceptsFit'
    <3> SUFFICES ASSUME NEW a \in Accepts
                 PROVE  AcceptFits(a)'
      BY DEF AcceptsFit
    <3>1. pc'[a] = pc[a]
      BY <1>1, <2>1, RequestsUnion
    <3>2. pc[a] = "apply" => local[a].target # p /\ local[a].target \in Proposals
      BY <1>2 DEF Taken, AcceptsFit, AcceptFits
    <3>3. pc[a] = "apply" => suggestion'[local[a].target] = suggestion[local[a].target]
      BY <2>1, <3>2 DEF TypeOK
    <3>4. local' = local /\ testCase' = testCase
      BY <2>1
    <3>5. pc[a] = "apply" => Acceptable(local[a].target)'
      BY <3>3, <3>4 DEF AcceptsFit, AcceptFits, Acceptable, Stale
    <3> QED BY <3>1, <3>4, <3>5 DEF AcceptsFit, AcceptFits
  <2>6. PendingIsOne'
    <3>1. Pending' \subseteq Pending /\ \A o \in Pending' : suggestion'[o] = suggestion[o]
      BY <1>2, <2>1 DEF Pending, TypeOK, Suggestion
    <3> QED BY <3>1 DEF PendingIsOne, NoFields
  <2> QED BY <2>2, <2>3, <2>4, <2>5, <2>6
<1> QED BY <1>3, <1>4

\* A holder that dies is rolled back.
LEMMA AbortIInv ==
  ASSUME IInv, NEW q \in locked, Abort(q)
  PROVE  IInv'
<1> USE DEF IInv
<1>1. q \in Proposals \cup Accepts /\ q \in Requests /\ q \notin Edits
  BY RequestsUnion, KindsDisjoint DEF TypeOK
<1>2. /\ pc'[q] = "dead" /\ locked' = {}
      /\ \A r \in Requests \ {q} : pc'[r] = pc[r] /\ local'[r] = local[r]
      /\ UNCHANGED <<testCase, suggestion>>
  BY <1>1 DEF Abort, TypeOK, OneHolder
<1>3. /\ \A r \in Proposals \ {q} : pc[r] \notin {"delete", "create"}
      /\ \A r \in Accepts \ {q} : pc[r] \notin {"lock suggestion", "apply"}
  BY DEF OneHolder
<1>4. TypeOK'
  BY <1>1, <1>2, BlankType DEF Abort, TypeOK, Steps, Ends
<1>5. OneHolder' /\ EditsFit'
  BY <1>1, <1>2, <1>3, RequestsUnion DEF OneHolder, EditsFit
<1>6. pc[q] # "done"
  BY DEF OneHolder
<1>7. ProposalsFit'
  <2> SUFFICES ASSUME NEW r \in Proposals
               PROVE  ProposalFits(r)'
    BY DEF ProposalsFit
  <2>1. CASE r = q
    BY <1>2, <1>6, <2>1 DEF ProposalsFit, ProposalFits
  <2>2. CASE r # q
    <3>1. pc'[r] = pc[r] /\ local'[r] = local[r] /\ pc[r] \notin {"delete", "create"}
      BY <1>2, <1>3, <2>2, RequestsUnion
    <3> QED BY <1>2, <3>1 DEF ProposalsFit, ProposalFits
  <2> QED BY <2>1, <2>2
<1>8. AcceptsFit'
  <2> SUFFICES ASSUME NEW a \in Accepts
               PROVE  AcceptFits(a)'
    BY DEF AcceptsFit
  <2>1. CASE a = q
    BY <1>2, <2>1 DEF AcceptFits
  <2>2. CASE a # q
    <3>1. pc'[a] = pc[a] /\ local'[a] = local[a] /\ pc[a] \notin {"lock suggestion", "apply"}
      BY <1>2, <1>3, <2>2, RequestsUnion
    <3> QED BY <1>2, <3>1 DEF AcceptsFit, AcceptFits
  <2> QED BY <2>1, <2>2
<1>9. PendingIsOne'
  BY <1>2 DEF PendingIsOne, Pending
<1> QED BY <1>4, <1>5, <1>7, <1>8, <1>9

LEMMA NextIInv == IInv /\ [Next]_vars => IInv'
<1> SUFFICES ASSUME IInv, [Next]_vars PROVE IInv'
  OBVIOUS
<1>1. ASSUME NEW q \in Requests, Request(q) PROVE IInv'
  <2>1. CASE q \in Edits /\ Edit(q)
    BY <2>1, EditIInv
  <2>2. CASE q \in Removes /\ Remove(q)
    BY <2>2, RemoveIInv
  <2>3. CASE q \in Approvals /\ Approve(q)
    BY <2>3, ApproveIInv
  <2>4. CASE q \in Proposals /\ Propose(q)
    BY <2>4, ProposeOutsideIInv, ProposeLockIInv, ProposeDeleteIInv, ProposeCreateIInv DEF Propose
  <2>5. CASE q \in Accepts /\ Accept(q)
    BY <2>5, AcceptReadIInv, AcceptLockCaseIInv, AcceptLockSuggestionIInv, AcceptWriteIInv DEF Accept
  <2>6. CASE q \in Rejects /\ Reject(q)
    BY <2>6, RejectIInv
  <2> QED BY <1>1, <2>1, <2>2, <2>3, <2>4, <2>5, <2>6 DEF Request
<1>2. ASSUME NEW q \in locked, Abort(q) PROVE IInv'
  BY <1>2, AbortIInv
<1>3. CASE UNCHANGED vars
  <2>1. TypeOK' /\ OneHolder' /\ EditsFit' /\ PendingIsOne'
    BY <1>3 DEF vars, IInv, TypeOK, OneHolder, EditsFit, PendingIsOne, Pending
  <2>2. ProposalsFit'
    BY <1>3 DEF vars, IInv, ProposalsFit, ProposalFits, Pending, Changes
  <2>3. AcceptsFit'
    BY <1>3 DEF vars, IInv, AcceptsFit, AcceptFits, Acceptable, Stale
  <2> QED BY <2>1, <2>2, <2>3 DEF IInv
<1> QED BY <1>1, <1>2, <1>3 DEF Next, Finished

LEMMA Invariance == Spec => []IInv
BY InitIInv, NextIInv, PTL DEF Spec

-------------------------------------------------------------------------------
\* The rows keep the shapes that the schema and the handlers give them, whatever the interleaving.
THEOREM TypeCorrect == Spec => []TypeOK
BY Invariance, PTL DEF IInv

\* A case never has two pending suggestions: deleteMany and create act as one step because
\* createOrReplace holds the case.
THEOREM OnePendingSuggestion == Spec => []OnePending
<1>1. IInv => OnePending
  <2> SUFFICES ASSUME IInv PROVE OnePending
    OBVIOUS
  <2>1. CASE Pending = {}
    BY <2>1, FS_EmptySet DEF OnePending
  <2>2. CASE Pending # {}
    <3>1. PICK p \in Pending : Pending = {p}
      BY <2>2 DEF IInv, PendingIsOne
    <3> QED BY <3>1, FS_Singleton DEF OnePending
  <2> QED BY <2>1, <2>2
<1> QED BY <1>1, Invariance, PTL

\* The steps that write a suggestion.
LEMMA SuggestionWriters ==
  ASSUME [Next]_vars
  PROVE  \/ UNCHANGED suggestion
         \/ \E p \in Proposals : ProposeCreate(p)
         \/ \E a \in Accepts : AcceptWrite(a)
         \/ \E r \in Rejects : Reject(r)
BY DEF Next, Request, Edit, EditRead, EditWrite, Remove, RemoveRead, RemoveWrite,
       Approve, ApproveRead, ApproveWrite, Propose, ProposeRead, ProposeDirect, ProposeLock,
       ProposeDelete, Accept, AcceptRead, AcceptLockCase, AcceptLockSuggestion, Abort, Finished, vars

\* A suggestion is resolved once: whatever a request decided about it before, by the time it writes
\* an accepted or rejected suggestion stays as it is (accept, reject, createOrReplace).
THEOREM NobodyResolvesTwice == Spec => ResolvedOnce
<1> DEFINE Settled(p) ==
      suggestion[p].status \in {"ACCEPTED", "REJECTED"} => suggestion'[p] = suggestion[p]
<1>1. IInv /\ [Next]_vars => \A p \in Proposals : Settled(p)
  <2> SUFFICES ASSUME IInv, [Next]_vars, NEW p \in Proposals PROVE Settled(p)
    OBVIOUS
  <2>1. ASSUME NEW o \in Proposals, ProposeCreate(o) PROVE Settled(p)
    BY <2>1, CreateReplaces DEF Pending
  <2>2. ASSUME NEW a \in Accepts, AcceptWrite(a) PROVE Settled(p)
    <3>1. /\ local[a].target \in Proposals /\ suggestion[local[a].target].status = "PENDING"
          /\ suggestion' = [suggestion EXCEPT ![local[a].target].status = "ACCEPTED"]
      BY <2>2 DEF AcceptWrite, IInv, AcceptsFit, AcceptFits, Acceptable
    <3> QED BY <3>1 DEF IInv, TypeOK
  <2>3. ASSUME NEW r \in Rejects, Reject(r) PROVE Settled(p)
    BY <2>3 DEF Reject, Pending, IInv, TypeOK
  <2> QED BY <2>1, <2>2, <2>3, SuggestionWriters
<1>2. IInv /\ [Next]_vars =>
        [\A p \in Proposals :
           suggestion[p].status \in {"ACCEPTED", "REJECTED"} => suggestion'[p] = suggestion[p]]_vars
  BY <1>1
<1> QED BY <1>2, Invariance, PTL DEF Spec, ResolvedOnce

-------------------------------------------------------------------------------
(* The refinement *)

\* The pending changes as the contract sees them.
Proposal == IF Pending = {} THEN NoFields ELSE suggestion[CHOOSE p \in Pending : TRUE].changes

LEMMA ProposalIsPending ==
  ASSUME IInv
  PROVE  /\ Pending = {} => Proposal = NoFields
         /\ \A p \in Pending : Proposal = suggestion[p].changes
BY DEF IInv, PendingIsOne, Proposal

\* WriteFields does to the case what the contract's With says.
LEMMA WritesAsPromised ==
  ASSUME IInv, NEW new, WriteFields(new)
  PROVE  /\ testCase'.fields = Contract!With(new)
         /\ testCase'.review = testCase.review /\ testCase'.deleted = testCase.deleted
BY DEF IInv, TypeOK, TestCase, WriteFields, Contract!With

\* The steps that write the case.
LEMMA CaseWriters ==
  ASSUME [Next]_vars
  PROVE  \/ UNCHANGED testCase
         \/ \E e \in Edits : EditWrite(e)
         \/ \E d \in Removes : RemoveWrite(d)
         \/ \E v \in Approvals : ApproveWrite(v)
         \/ \E p \in Proposals : ProposeDirect(p)
         \/ \E a \in Accepts : AcceptWrite(a)
BY DEF Next, Request, Edit, EditRead, Remove, RemoveRead, Approve, ApproveRead,
       Propose, ProposeRead, ProposeLock, ProposeDelete, ProposeCreate,
       Accept, AcceptRead, AcceptLockCase, AcceptLockSuggestion, Reject, Abort, Finished, vars

\* A step that leaves the case and the suggestions alone, or writes only the case.
LEMMA CaseStepRefines ==
  ASSUME IInv, [Next]_vars, UNCHANGED suggestion
  PROVE  [Contract!Next]_(Contract!vars)
<1>1. Proposal' = Proposal
  BY DEF Proposal, Pending
<1>2. CASE UNCHANGED testCase
  BY <1>1, <1>2 DEF Proposal, Contract!vars
<1>3. ASSUME NEW e \in Edits, EditWrite(e) PROVE Contract!Edit
  <2>1. local[e].new \in Contract!Writes(HumanValues) /\ WriteFields(local[e].new)
    BY <1>3 DEF EditWrite, IInv, EditsFit, Writes, Contract!Writes
  <2> QED BY <1>1, <2>1, WritesAsPromised DEF Contract!Edit, Proposal
<1>4. ASSUME NEW d \in Removes, RemoveWrite(d) PROVE Contract!Delete
  BY <1>1, <1>4 DEF RemoveWrite, IInv, TypeOK, TestCase, Contract!Delete, Proposal
<1>5. ASSUME NEW v \in Approvals, ApproveWrite(v) PROVE Contract!Approve \/ UNCHANGED testCase
  BY <1>1, <1>5 DEF ApproveWrite, IsDraft, IInv, TypeOK, TestCase, Contract!Approve, Proposal
<1>6. ASSUME NEW p \in Proposals, ProposeDirect(p) PROVE Contract!EditDraft \/ UNCHANGED testCase
  <2>1. CASE IsDraft /\ ~testCase.deleted
    <3>1. local[p].changes \in SuggestionChanges
      BY RequestsUnion DEF IInv, TypeOK, Local
    <3>2. UpdateData(local[p].changes) \in Contract!Writes(AiValues)
      BY <3>1, UpdateDataType DEF Writes, Contract!Writes
    <3>3. WriteFields(UpdateData(local[p].changes))
      BY <1>6, <2>1 DEF ProposeDirect
    <3> QED BY <1>1, <2>1, <3>2, <3>3, WritesAsPromised DEF IsDraft, Contract!EditDraft, Proposal
  <2>2. CASE ~(IsDraft /\ ~testCase.deleted)
    BY <1>6, <2>2 DEF ProposeDirect
  <2> QED BY <2>1, <2>2
<1>7. ASSUME NEW a \in Accepts, AcceptWrite(a) PROVE FALSE
  <2>1. local[a].target \in Proposals /\ suggestion[local[a].target].status = "PENDING"
    BY <1>7 DEF AcceptWrite, IInv, AcceptsFit, AcceptFits, Acceptable
  <2>2. suggestion'[local[a].target].status = "ACCEPTED"
    BY <1>7, <2>1 DEF AcceptWrite, IInv, TypeOK, Suggestion
  <2> QED BY <2>1, <2>2
<1> QED BY <1>2, <1>3, <1>4, <1>5, <1>6, <1>7, CaseWriters DEF Contract!Next

LEMMA CreateRefines ==
  ASSUME IInv, IInv', NEW p \in Proposals, ProposeCreate(p)
  PROVE  Contract!Propose
<1> DEFINE new == UpdateData(local[p].changes)
<1>1. /\ local[p].changes \in SuggestionChanges /\ local[p].new \in Writes(AiValues)
      /\ testCase.review = "APPROVED" /\ ~testCase.deleted
      /\ local[p].changes = Changes(local[p].new) /\ local[p].changes # NoFields
  BY RequestsUnion DEF ProposeCreate, IInv, TypeOK, Local, ProposalsFit, ProposalFits
<1>2. Pending' = {p} /\ suggestion'[p].changes = local[p].changes /\ testCase' = testCase
  <2>1. Pending' = {p} /\ suggestion'[p] = [status |-> "PENDING", changes |-> local[p].changes]
    BY CreateReplaces
  <2> QED BY <2>1 DEF ProposeCreate
<1>3. Proposal' = local[p].changes
  BY <1>2 DEF Proposal
<1>4. local[p].changes = [f \in DOMAIN new |-> [from |-> testCase.fields[f], to |-> new[f]]]
  BY <1>1 DEF Changes, UpdateData
<1>5. new \in Contract!Writes(AiValues)
  BY <1>1, UpdateDataType DEF Writes, Contract!Writes
<1> QED BY <1>1, <1>2, <1>3, <1>4, <1>5 DEF Contract!Propose, Contract!NoChanges, NoFields, Proposal

LEMMA AcceptRefines ==
  ASSUME IInv, NEW a \in Accepts, AcceptWrite(a)
  PROVE  Contract!Accept
<1> DEFINE p == local[a].target
           changes == suggestion[p].changes
<1>1. p \in Pending /\ ~Stale(changes) /\ ~testCase.deleted
  BY DEF AcceptWrite, IInv, AcceptsFit, AcceptFits, Acceptable, Pending
<1>2. Proposal = changes /\ changes # NoFields /\ Pending = {p}
  BY <1>1, ProposalIsPending DEF IInv, PendingIsOne
<1>3. Pending' = {}
  BY <1>1, <1>2 DEF AcceptWrite, Pending, IInv, TypeOK, Suggestion
<1>4. Proposal' = NoFields
  BY <1>3 DEF Proposal, NoFields
<1>5. /\ testCase'.fields = Contract!With(UpdateData(changes))
      /\ testCase'.review = testCase.review /\ testCase'.deleted = testCase.deleted
  BY WritesAsPromised DEF AcceptWrite
<1> QED BY <1>1, <1>2, <1>4, <1>5
  DEF Contract!Accept, Contract!NoChanges, NoFields, Proposal, Stale, UpdateData

LEMMA RejectRefines ==
  ASSUME IInv, NEW r \in Rejects, Reject(r)
  PROVE  Contract!Reject \/ UNCHANGED <<testCase, suggestion>>
<1>1. PICK p \in Proposals :
        IF p \in Pending THEN suggestion' = [suggestion EXCEPT ![p].status = "REJECTED"]
                         ELSE UNCHANGED suggestion
  BY DEF Reject
<1>2. CASE p \notin Pending
  BY <1>1, <1>2 DEF Reject
<1>3. CASE p \in Pending
  <2>1. Pending' = {}
    BY <1>1, <1>3 DEF Pending, IInv, TypeOK, Suggestion, PendingIsOne
  <2>2. Proposal' = NoFields
    BY <2>1 DEF Proposal, NoFields
  <2> QED BY <2>2 DEF Reject, Contract!Reject, Contract!NoChanges, NoFields, Proposal
<1> QED BY <1>2, <1>3

\* People and agents on one case act as if one at a time: agents' words reach an approved case only
\* through an accepted proposal, and an accept replaces just the values the proposal was made
\* against, for any number of requests in any interleaving.
THEOREM RefinesContract == Spec => ImplementsContract
<1>1. Init => Contract!Init
  <2> SUFFICES ASSUME Init PROVE Contract!Init
    OBVIOUS
  <2>1. Proposal = NoFields
    BY DEF Init, Proposal, Pending
  <2> QED BY <2>1 DEF Init, Proposal, NoFields, Contract!Init, Contract!NoChanges
<1>2. IInv /\ [Next]_vars => [Contract!Next]_(Contract!vars)
  <2> SUFFICES ASSUME IInv, [Next]_vars
               PROVE  [Contract!Next]_(Contract!vars)
    OBVIOUS
  <2>1. CASE UNCHANGED suggestion
    BY <2>1, CaseStepRefines
  <2>2. ASSUME NEW p \in Proposals, ProposeCreate(p) PROVE Contract!Next
    BY <2>2, NextIInv, CreateRefines DEF Contract!Next
  <2>3. ASSUME NEW a \in Accepts, AcceptWrite(a) PROVE Contract!Next
    BY <2>3, AcceptRefines DEF Contract!Next
  <2>4. ASSUME NEW r \in Rejects, Reject(r), suggestion' # suggestion PROVE Contract!Next
    BY <2>4, RejectRefines DEF Contract!Next
  <2> QED BY <2>1, <2>2, <2>3, <2>4, SuggestionWriters
<1> QED BY <1>1, <1>2, Invariance, PTL DEF Spec, ImplementsContract, Contract!Spec

-------------------------------------------------------------------------------
(* Why requests are answered: the holder of the case waits for nobody, and *)
(* every step of a request is a later one.                                 *)

\* Whoever has suggestion rows has the case, and whoever has the case finds what it takes next free;
\* everybody else waits for the case or for those rows.
HolderNeverWaits ==
  /\ \A p \in Proposals : Taken(p) => locked # {}
  /\ \A q \in locked :
       /\ locked = {q}
       /\ pc[q] = "delete" => \A o \in Pending : ~Taken(o)
       /\ pc[q] = "lock suggestion" => ~Taken(local[q].target)

\* Proposals and accepts lock the case before the suggestions, so no order of their statements makes
\* requests wait for one another in a circle (accept, createOrReplace).
THEOREM NoCircleOfWaiters == Spec => []HolderNeverWaits
<1>1. IInv => HolderNeverWaits
  <2> SUFFICES ASSUME IInv PROVE HolderNeverWaits
    OBVIOUS
  <2>1. \A p : Taken(p) => \E r \in locked : pc[r] \in {"create", "apply"}
    BY DEF Taken, IInv, OneHolder
  <2>2. \A q \in locked : locked = {q}
    BY DEF IInv, OneHolder
  <2> QED BY <2>1, <2>2 DEF HolderNeverWaits
<1> QED BY <1>1, Invariance, PTL

Rank ==
  [step \in Steps |->
    CASE step = "new" -> 0
      [] step = "write" -> 1
      [] step = "lock" -> 2
      [] step \in {"delete", "lock suggestion"} -> 3
      [] step \in {"create", "apply"} -> 4
      [] step \in Ends -> 5]

\* No request takes a step back, and each of its own steps leads to a later one.
StepsGoForward ==
  [][\A q \in Requests : /\ Rank[pc[q]] <= Rank[pc'[q]]
                         /\ Request(q) => Rank[pc[q]] < Rank[pc'[q]]]_vars

LEMMA Ranks ==
  /\ Rank["new"] = 0 /\ Rank["write"] = 1 /\ Rank["lock"] = 2 /\ Rank["delete"] = 3
  /\ Rank["create"] = 4 /\ Rank["apply"] = 4
  /\ Rank["done"] = 5 /\ Rank["refused"] = 5 /\ Rank["dead"] = 5
BY DEF Rank, Steps, Ends

\* Apart from the others, because the SMT backend takes no string with a blank.
LEMMA RankOfLockSuggestion == Rank["lock suggestion"] = 3
BY DEF Rank, Steps, Ends

LEMMA RankType == Rank \in [Steps -> 0 .. 5]
BY DEF Rank, Steps, Ends

LEMMA AcceptGoesForward ==
  ASSUME pc \in [Requests -> Steps], NEW a \in Requests, Accept(a)
  PROVE  Rank[pc[a]] < Rank[pc'[a]]
<1>1. CASE AcceptRead(a)
  <2>1. pc[a] = "new" /\ pc'[a] = "lock"
    BY <1>1 DEF AcceptRead
  <2> QED BY <2>1, Ranks
<1>2. CASE AcceptLockCase(a)
  <2>1. pc[a] = "lock" /\ pc'[a] \in {"refused", "lock suggestion"}
    BY <1>2 DEF AcceptLockCase
  <2>2. Rank[pc[a]] = 2 /\ Rank[pc'[a]] \in {3, 5}
    BY <2>1, Ranks, RankOfLockSuggestion, Zenon
  <2> QED BY <2>2
<1>3. CASE AcceptLockSuggestion(a)
  <2>1. pc[a] = "lock suggestion" /\ pc'[a] \in {"refused", "apply"}
    BY <1>3 DEF AcceptLockSuggestion
  <2>2. Rank[pc[a]] = 3 /\ Rank[pc'[a]] \in {4, 5}
    BY <2>1, Ranks, RankOfLockSuggestion, Zenon
  <2> QED BY <2>2
<1>4. CASE AcceptWrite(a)
  <2>1. pc[a] = "apply" /\ pc'[a] = "done"
    BY <1>4 DEF AcceptWrite
  <2> QED BY <2>1, Ranks
<1> QED BY <1>1, <1>2, <1>3, <1>4 DEF Accept

LEMMA OwnStepGoesForward ==
  ASSUME pc \in [Requests -> Steps], NEW q \in Requests, Request(q)
  PROVE  Rank[pc[q]] < Rank[pc'[q]]
<1>1. CASE Edit(q) \/ Remove(q) \/ Approve(q)
  BY <1>1, Ranks DEF Edit, EditRead, EditWrite, Remove, RemoveRead, RemoveWrite, Approve, ApproveRead, ApproveWrite
<1>2. CASE ProposeRead(q) \/ ProposeDirect(q) \/ ProposeLock(q)
  <2>1. \/ pc[q] = "new" /\ pc'[q] \in {"refused", "write", "lock"}
        \/ pc[q] = "write" /\ pc'[q] \in {"done", "lock"}
        \/ pc[q] = "lock" /\ pc'[q] \in {"refused", "delete"}
    BY <1>2 DEF ProposeRead, ProposeDirect, ProposeLock
  <2> QED BY <2>1, Ranks
<1>3. CASE ProposeDelete(q) \/ ProposeCreate(q)
  BY <1>3, Ranks DEF ProposeDelete, ProposeCreate
<1>4. CASE Accept(q)
  BY <1>4, AcceptGoesForward
<1>5. CASE Reject(q)
  BY <1>5, Ranks DEF Reject
<1> QED BY <1>1, <1>2, <1>3, <1>4, <1>5 DEF Request, Propose

\* A step of a request is no step of another one.
LEMMA OthersWait ==
  ASSUME pc \in [Requests -> Steps], NEW q \in Requests, Request(q)
  PROVE  \A r \in Requests \ {q} : pc'[r] = pc[r]
<1>1. \E step : Goto(q, step)
  BY DEF Request, Edit, EditRead, EditWrite, Remove, RemoveRead, RemoveWrite, Approve, ApproveRead, ApproveWrite,
         Propose, ProposeRead, ProposeDirect, ProposeLock, ProposeDelete, ProposeCreate,
         Accept, AcceptRead, AcceptLockCase, AcceptLockSuggestion, AcceptWrite, Reject
<1> QED BY <1>1

\* A request consists of finitely many steps: a proposal that finds the case approved goes on to the
\* suggestion, and nothing returns to a statement it has behind it (updateTestCase, accept).
THEOREM RequestsAreFinite == Spec => StepsGoForward
<1>1. ASSUME IInv, [Next]_vars, NEW q \in Requests
      PROVE  Rank[pc[q]] <= Rank[pc'[q]] /\ (Request(q) => Rank[pc[q]] < Rank[pc'[q]])
  <2>1. pc \in [Requests -> Steps] /\ Rank[pc[q]] \in 0 .. 5
    BY <1>1, RankType DEF IInv, TypeOK
  <2>2. CASE Request(q)
    <3>1. Rank[pc'[q]] \in 0 .. 5
      BY <1>1, NextIInv, RankType DEF IInv, TypeOK
    <3> QED BY <2>1, <2>2, <3>1, OwnStepGoesForward
  <2>3. CASE ~Request(q)
    <3>1. ASSUME NEW r \in Requests, Request(r) PROVE pc'[q] = pc[q]
      BY <2>1, <2>3, <3>1, OthersWait
    <3>2. ASSUME NEW r \in locked, Abort(r) PROVE pc'[q] = pc[q] \/ pc'[q] = "dead"
      BY <2>1, <3>2 DEF Abort
    <3>3. pc'[q] = pc[q] \/ pc'[q] = "dead"
      BY <1>1, <3>1, <3>2 DEF Next, Finished, vars
    <3> QED BY <2>1, <2>3, <3>3, Ranks
  <2> QED BY <2>2, <2>3
<1>2. IInv /\ [Next]_vars =>
        [\A q \in Requests : /\ Rank[pc[q]] <= Rank[pc'[q]]
                             /\ Request(q) => Rank[pc[q]] < Rank[pc'[q]]]_vars
  BY <1>1
<1> QED BY <1>2, Invariance, PTL DEF Spec, StepsGoForward
===============================================================================
