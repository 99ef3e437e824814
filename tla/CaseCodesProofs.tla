---------------------------- MODULE CaseCodesProofs ----------------------------
(***************************************************************************)
(* CaseCodes, proved for every set of requests, files and modules: a code  *)
(* keeps its case, a result has one, the rows of a file end up in the      *)
(* modules they name, and a create or an import is outrun only by others.  *)
(*                                                                         *)
(* A transaction writes what it inserted at its commit, without looking at *)
(* the index again.  What makes that safe is that nobody gets past the row *)
(* it holds meanwhile; IInv says so.  What an import does with modules is  *)
(* decided by three loops, which are folds: a lemma for each says what it  *)
(* has done after any of the rows, and JInv what becomes of its plan while *)
(* others create modules.  RequestsFit says what a request remembers of    *)
(* the codes it read.                                                      *)
(***************************************************************************)
EXTENDS CaseCodes, FiniteSetTheorems, WellFoundedInduction, TLAPS

RowsOK ==
  /\ cases \in [Codes -> Case]
  /\ held \in [Codes \cup Modules -> Links \cup Confirms \cup {None}]

\* Only a case that exists has a creator.
CreatorsHaveCases == \A c \in Codes : cases[c].by # None => cases[c].state # "none"

\* The code a link has inserted is nobody's case yet.
LinksHoldFreeCodes ==
  \A l \in Links, c \in Codes : held[c] = l => cases[c].state = "none"

\* While the result is not linked, no case was made of it.
UnlinkedHasNoCase == \A l \in Links, c \in Codes : cases[c].by = l => linked # None

IInv == RowsOK /\ CreatorsHaveCases /\ LinksHoldFreeCodes /\ CaseOfResultIsLinked /\ UnlinkedHasNoCase

USE DEF Goto

LEMMA Kinds ==
  /\ Creates \cap Links = {} /\ Creates \cap Confirms = {} /\ Links \cap Confirms = {}
  /\ None \notin Creates \cup Links \cup Confirms
BY WritersDisjoint DEF Writers

LEMMA InitIInv == Init => IInv
BY Kinds DEF Init, IInv, RowsOK, Case, CreatorsHaveCases, LinksHoldFreeCodes, CaseOfResultIsLinked, UnlinkedHasNoCase

\* A step that writes no case and by which no link comes to hold a code.
LEMMA CasesStay ==
  ASSUME IInv, UNCHANGED <<cases, linked>>,
         held' \in [Codes \cup Modules -> Links \cup Confirms \cup {None}],
         \A l \in Links, c \in Codes : held'[c] = l => held[c] = l
  PROVE  IInv'
BY DEF IInv, RowsOK, CreatorsHaveCases, LinksHoldFreeCodes, CaseOfResultIsLinked, UnlinkedHasNoCase

LEMMA RollbackIInv ==
  ASSUME IInv, NEW q, Release(q), UNCHANGED <<cases, linked>>
  PROVE  IInv'
<1>1. /\ held' \in [Codes \cup Modules -> Links \cup Confirms \cup {None}]
      /\ \A x \in Codes \cup Modules : held'[x] \in {held[x], None}
  BY DEF IInv, RowsOK, Release
<1> QED BY <1>1, Kinds, CasesStay

\* TestCasesService.create.
LEMMA CreateIInv ==
  ASSUME IInv, NEW c \in Creates, Create(c)
  PROVE  IInv'
<1>1. CASE UNCHANGED <<cases, held, linked>>
  BY <1>1, CasesStay DEF IInv, RowsOK
<1>2. CASE CreateInsert(c) /\ ~Taken(local[c].code) /\ local[c].code \in Codes
  <2> DEFINE code == local[c].code
  <2>1. PICK state \in {"approved", "draft"} :
          cases' = [cases EXCEPT ![code] = [state |-> state, by |-> c]]
    BY <1>2 DEF CreateInsert
  <2>2. [state |-> state, by |-> c] \in Case
    BY DEF Case, Writers
  <2>3. held[code] \notin Links
    BY <1>2, Kinds DEF CreateInsert, HeldByOther
  <2>4. UNCHANGED <<held, linked>>
    BY <1>2 DEF CreateInsert
  <2>5. RowsOK' /\ CreatorsHaveCases' /\ LinksHoldFreeCodes'
    BY <1>2, <2>1, <2>2, <2>3, <2>4 DEF IInv, RowsOK, CreatorsHaveCases, LinksHoldFreeCodes
  <2>6. CaseOfResultIsLinked' /\ UnlinkedHasNoCase'
    BY <1>2, <2>1, <2>4, Kinds DEF IInv, RowsOK, CaseOfResultIsLinked, UnlinkedHasNoCase
  <2> QED BY <2>5, <2>6 DEF IInv
<1>3. CASE CreateInsert(c) /\ local[c].code \notin Codes
  BY <1>1, <1>3 DEF CreateInsert, IInv, RowsOK
<1> QED BY <1>1, <1>2, <1>3 DEF Create, CreateRead, CreateInsert

\* UnlinkedResultsService.createCase.
LEMMA LinkIInv ==
  ASSUME IInv, NEW l \in Links, Link(l)
  PROVE  IInv'
<1>1. CASE UNCHANGED <<cases, held, linked>>
  BY <1>1, CasesStay DEF IInv, RowsOK
<1>2. CASE LinkInsert(l) /\ ~Taken(local[l].code)
  <2>1. /\ held' = [held EXCEPT ![local[l].code] = l] /\ UNCHANGED <<cases, linked>>
        /\ local[l].code \in Codes => cases[local[l].code].state = "none"
    BY <1>2 DEF LinkInsert, Taken, Used
  <2> QED BY <2>1
      DEF IInv, RowsOK, CreatorsHaveCases, LinksHoldFreeCodes, CaseOfResultIsLinked, UnlinkedHasNoCase
<1>3. CASE LinkCommit(l) /\ linked # None
  BY <1>3, RollbackIInv DEF LinkCommit, Rollback
<1>4. CASE LinkCommit(l) /\ linked = None
  <2> DEFINE code == local[l].code
  <2>1. /\ cases' = [cases EXCEPT ![code] = [state |-> "approved", by |-> l]]
        /\ linked' = code /\ held[code] = l /\ Release(l)
    BY <1>4 DEF LinkCommit
  <2>2. [state |-> "approved", by |-> l] \in Case
    BY DEF Case, Writers
  <2>3. /\ held' \in [Codes \cup Modules -> Links \cup Confirms \cup {None}]
        /\ \A x \in Codes \cup Modules : held'[x] = IF held[x] = l THEN None ELSE held[x]
    BY <2>1 DEF IInv, RowsOK, Release
  <2>4. RowsOK' /\ CreatorsHaveCases'
    BY <2>1, <2>2, <2>3 DEF IInv, RowsOK, CreatorsHaveCases
  <2>5. LinksHoldFreeCodes'
    BY <2>1, <2>3, Kinds DEF IInv, RowsOK, LinksHoldFreeCodes
  <2>6. \A k \in Links, c \in Codes : cases[c].by # k
    BY <1>4 DEF IInv, UnlinkedHasNoCase
  <2>7. CaseOfResultIsLinked'
    BY <2>1, <2>6 DEF IInv, RowsOK, CaseOfResultIsLinked
  <2>8. UnlinkedHasNoCase'
    BY <2>1, <2>6, ImportFilesAssumption DEF IInv, RowsOK, UnlinkedHasNoCase
  <2> QED BY <2>4, <2>5, <2>7, <2>8 DEF IInv
<1> QED BY <1>1, <1>2, <1>3, <1>4 DEF Link, LinkRead, LinkInsert

\* ImportService.confirm up to its commit.
LEMMA ConfirmStepIInv ==
  ASSUME IInv, NEW i \in Confirms, Confirm(i), ~ConfirmCommit(i)
  PROVE  IInv'
<1>1. CASE UNCHANGED <<cases, held, linked>>
  BY <1>1, CasesStay DEF IInv, RowsOK
<1>2. ASSUME NEW x, held' = [held EXCEPT ![x] = i], UNCHANGED <<cases, linked>> PROVE IInv'
  <2>1. /\ held' \in [Codes \cup Modules -> Links \cup Confirms \cup {None}]
        /\ \A y \in Codes \cup Modules : held'[y] \in {held[y], i}
    BY <1>2 DEF IInv, RowsOK
  <2> QED BY <1>2, <2>1, Kinds, CasesStay
<1>3. CASE Rollback(i, "refused") /\ UNCHANGED <<cases, linked>>
  BY <1>3, RollbackIInv DEF Rollback
<1>4. CASE Rollback(i, "outrun") /\ UNCHANGED <<cases, linked>>
  BY <1>4, RollbackIInv DEF Rollback
<1> QED BY <1>1, <1>2, <1>3, <1>4
    DEF Confirm, ConfirmTake, ReadModules, CreateModule, ReadAllCodes, ReadUpdatable, UpdateRow,
        SkipRow, CreateRow

LEMMA ConfirmCommitIInv ==
  ASSUME IInv, NEW i \in Confirms, ConfirmCommit(i)
  PROVE  IInv'
<1>1. /\ cases' = [c \in Codes |-> IF c \in Inserted(i) THEN [state |-> "approved", by |-> i] ELSE cases[c]]
      /\ UNCHANGED linked /\ Release(i)
  BY DEF ConfirmCommit
<1>2. [state |-> "approved", by |-> i] \in Case
  BY DEF Case, Writers
<1>3. /\ held' \in [Codes \cup Modules -> Links \cup Confirms \cup {None}]
      /\ \A x \in Codes \cup Modules : held'[x] = IF held[x] = i THEN None ELSE held[x]
  BY <1>1 DEF IInv, RowsOK, Release
<1>4. RowsOK' /\ CreatorsHaveCases'
  BY <1>1, <1>2, <1>3 DEF IInv, RowsOK, CreatorsHaveCases
<1>5. LinksHoldFreeCodes'
  BY <1>1, <1>3, Kinds DEF IInv, RowsOK, LinksHoldFreeCodes, Inserted
<1>6. CaseOfResultIsLinked' /\ UnlinkedHasNoCase'
  BY <1>1, Kinds DEF IInv, RowsOK, CaseOfResultIsLinked, UnlinkedHasNoCase
<1> QED BY <1>4, <1>5, <1>6 DEF IInv

\* approve and remove.
LEMMA ChangeCaseIInv ==
  ASSUME IInv, NEW c \in Codes, ChangeCase(c)
  PROVE  IInv'
<1>1. PICK state \in {"approved", "deleted"} :
        cases[c].state # "none" /\ cases' = [cases EXCEPT ![c].state = state]
  BY DEF ChangeCase
<1>2. UNCHANGED <<held, linked>>
  BY DEF ChangeCase
<1>3. /\ cases' \in [Codes -> Case]
      /\ \A d \in Codes : /\ cases'[d].by = cases[d].by
                          /\ cases'[d].state = "none" <=> cases[d].state = "none"
  BY <1>1 DEF IInv, RowsOK, Case
<1> QED BY <1>2, <1>3
    DEF IInv, RowsOK, CreatorsHaveCases, LinksHoldFreeCodes, CaseOfResultIsLinked, UnlinkedHasNoCase

LEMMA NextIInv == IInv /\ [Next]_vars => IInv'
<1> SUFFICES ASSUME IInv, [Next]_vars PROVE IInv'
  OBVIOUS
<1>1. ASSUME NEW c \in Creates, Create(c) PROVE IInv'
  BY <1>1, CreateIInv
<1>2. ASSUME NEW l \in Links, Link(l) PROVE IInv'
  BY <1>2, LinkIInv
<1>3. ASSUME NEW i \in Confirms, Confirm(i) PROVE IInv'
  BY <1>3, ConfirmStepIInv, ConfirmCommitIInv
<1>4. ASSUME NEW c \in Codes, ChangeCase(c) PROVE IInv'
  BY <1>4, ChangeCaseIInv
<1>5. ASSUME NEW q \in Links \cup Confirms, Abort(q) PROVE IInv'
  BY <1>5, RollbackIInv DEF Abort, Rollback
<1>6. CASE UNCHANGED <<cases, held, linked>>
  BY <1>6, CasesStay DEF IInv, RowsOK
<1> QED BY <1>1, <1>2, <1>3, <1>4, <1>5, <1>6 DEF Next, Preview, Forget, AddModule, Finished, vars

LEMMA Invariance == Spec => []IInv
BY InitIInv, NextIInv, PTL DEF Spec

-------------------------------------------------------------------------------
\* A result is linked to the one case that was made of it: whoever lost the race rolls its case back
\* (UnlinkedResultsService.createCase).
THEOREM OneCasePerResult == Spec => []CaseOfResultIsLinked
BY Invariance, PTL DEF IInv

\* A code belongs to the case that got it first, for ever, whoever creates, imports, links, approves
\* or deletes cases at the same time and whatever the files say (nextCaseCode, the unique index).
THEOREM CodesAreKept == Spec => CodeIsForever
<1> DEFINE Kept(c) == cases[c].by # None => cases'[c].by = cases[c].by /\ cases'[c].state # "none"
<1>1. IInv /\ [Next]_vars => \A c \in Codes : Kept(c)
  <2> SUFFICES ASSUME IInv, [Next]_vars, NEW c \in Codes, cases[c].by # None
               PROVE  cases'[c].by = cases[c].by /\ cases'[c].state # "none"
    OBVIOUS
  <2>1. cases[c].state # "none"
    BY DEF IInv, CreatorsHaveCases
  <2>2. CASE cases'[c] = cases[c]
    BY <2>1, <2>2
  <2>3. ASSUME NEW q \in Creates, CreateInsert(q) PROVE cases'[c] = cases[c]
    BY <2>1, <2>3 DEF CreateInsert, Taken, Used, IInv, RowsOK
  <2>4. ASSUME NEW l \in Links, LinkCommit(l) PROVE cases'[c] = cases[c]
    BY <2>1, <2>4 DEF LinkCommit, IInv, RowsOK, LinksHoldFreeCodes
  <2>5. ASSUME NEW i \in Confirms, ConfirmCommit(i) PROVE cases'[c] = cases[c]
    BY <2>1, <2>5 DEF ConfirmCommit, Inserted, Used
  <2>6. ASSUME NEW d \in Codes, ChangeCase(d)
        PROVE  cases'[c].by = cases[c].by /\ cases'[c].state # "none"
    BY <2>1, <2>6 DEF ChangeCase, IInv, RowsOK, Case
  <2> QED BY <2>2, <2>3, <2>4, <2>5, <2>6
      DEF Next, Create, CreateRead, Link, LinkRead, LinkInsert, Confirm, ConfirmTake, ReadModules,
          CreateModule, ReadAllCodes, ReadUpdatable, UpdateRow, SkipRow, CreateRow, Preview, Forget,
          AddModule, Abort, Finished, vars
<1>2. IInv /\ [Next]_vars =>
        [\A c \in Codes : cases[c].by # None =>
           cases'[c].by = cases[c].by /\ cases'[c].state # "none"]_vars
  BY <1>1
<1> QED BY <1>2, Invariance, PTL DEF Spec, CodeIsForever

-------------------------------------------------------------------------------
(***************************************************************************)
(* Folds.  FoldLeft is a function chosen to satisfy the recursion over the *)
(* sets of indices: such a function exists, so the chosen one satisfies it *)
(* too, and what one step preserves holds of its value at every such set.  *)
(***************************************************************************)

LEMMA LeastOfNaturals ==
  ASSUME NEW S \in SUBSET Nat, S # {}
  PROVE  \E x \in S : \A y \in S : x <= y
<1> DEFINE R == OpToRel(<, Nat)
<1>1. IsWellFoundedOn(R, Nat)
  BY NatLessThanWellFounded
<1>2. PICK x \in S : \A y \in S : ~(<<y, x>> \in R)
  <2> HIDE DEF R
  <2> QED BY <1>1, WFMin
<1>3. \A y \in S : ~(y < x)
  BY <1>2 DEF OpToRel
<1> QED BY <1>3

LEMMA MinOfNaturals ==
  ASSUME NEW S \in SUBSET Nat, S # {}
  PROVE  Min(S) \in S
<1>1. PICK x \in S : \A y \in S : x <= y
  BY LeastOfNaturals
<1> QED BY <1>1 DEF Min

LEMMA MaxOfBounded ==
  ASSUME NEW n \in Nat, NEW S \in SUBSET (0 .. n), S # {}
  PROVE  Max(S) \in S /\ \A x \in S : Max(S) >= x
<1> DEFINE T == {n - x : x \in S}
<1>1. T \subseteq Nat /\ T # {}
  <2>1. \A x \in S : n - x \in Nat
    OBVIOUS
  <2> QED BY <2>1
<1>2. PICK y \in T : \A z \in T : y <= z
  <2> HIDE DEF T
  <2> QED BY <1>1, LeastOfNaturals
<1>3. PICK x \in S : y = n - x
  OBVIOUS
<1>4. \A z \in S : x >= z
  <2> SUFFICES ASSUME NEW z \in S PROVE x >= z
    OBVIOUS
  <2>1. n - z \in T
    OBVIOUS
  <2> QED BY <1>2, <1>3, <2>1
<1>5. Max(S) = CHOOSE z \in S : \A w \in S : z >= w
  BY DEF Max
<1> QED BY <1>4, <1>5

\* What holds of the empty set of indices, and of a set when it holds without the last one.
LEMMA IndexInduction ==
  ASSUME NEW n \in Nat, NEW G, {} \in G,
         \A T \in SUBSET (1 .. n) : T # {} /\ T \ {Max(T)} \in G => T \in G
  PROVE  SUBSET (1 .. n) \subseteq G
<1> DEFINE Bad == {k \in 0 .. n : ~(SUBSET (1 .. k) \subseteq G)}
<1> SUFFICES ASSUME Bad # {} PROVE FALSE
  OBVIOUS
<1>1. PICK k \in Bad : \A j \in Bad : k <= j
  <2>1. Bad \in SUBSET Nat
    OBVIOUS
  <2> HIDE DEF Bad
  <2> QED BY <2>1, LeastOfNaturals
<1>2. k # 0
  <2>1. SUBSET (1 .. 0) = {{}}
    OBVIOUS
  <2> QED BY <2>1
<1>3. k \in 1 .. n /\ k - 1 \notin Bad
  BY <1>1, <1>2
<1>4. SUBSET (1 .. (k - 1)) \subseteq G
  BY <1>3
<1>5. PICK T \in SUBSET (1 .. k) : T \notin G
  OBVIOUS
<1>6. k \in Nat /\ T # {} /\ T \subseteq 1 .. n /\ T \subseteq 0 .. k
  BY <1>3, <1>5
<1>7. Max(T) \in T /\ \A x \in T : Max(T) >= x
  BY <1>6, MaxOfBounded
<1>8. k \notin T => T \in SUBSET (1 .. (k - 1))
  BY <1>3, <1>5
<1>9. \A x \in T : x \in 1 .. k
  BY <1>5
<1>10. k \in T
  BY <1>4, <1>5, <1>8
<1>11. Max(T) = k
  <2>1. Max(T) \in 1 .. k /\ Max(T) >= k
    BY <1>7, <1>9, <1>10
  <2> QED BY <1>3, <2>1
<1>12. T \ {Max(T)} \in SUBSET (1 .. (k - 1))
  <2>1. \A x \in T \ {k} : x \in 1 .. (k - 1)
    BY <1>3, <1>9
  <2> QED BY <1>11, <2>1
<1> HIDE DEF Bad
<1> QED BY <1>4, <1>5, <1>6, <1>12

\* What has been folded of the sequence is in P, for its indices.
Preserves(n, S, P, base, step) ==
  /\ P \in [SUBSET (1 .. n) -> SUBSET S] /\ base \in P[{}]
  /\ \A T \in SUBSET (1 .. n) : T # {} => \A x \in P[T \ {Max(T)}] : step[<<x, Max(T)>>] \in P[T]

FoldsBy(g, n, S, base, step) ==
  /\ g \in [SUBSET (1 .. n) -> S]
  /\ \A T \in SUBSET (1 .. n) :
       g[T] = IF T = {} THEN base ELSE step[<<g[T \ {Max(T)}], Max(T)>>]

LEMMA FoldExists ==
  ASSUME NEW n \in Nat, NEW S, NEW P, NEW base, NEW step, Preserves(n, S, P, base, step)
  PROVE  \E g : FoldsBy(g, n, S, base, step) /\ \A T \in SUBSET (1 .. n) : g[T] \in P[T]
<1>1. /\ P \in [SUBSET (1 .. n) -> SUBSET S] /\ base \in P[{}]
      /\ \A T \in SUBSET (1 .. n) : T # {} => \A x \in P[T \ {Max(T)}] : step[<<x, Max(T)>>] \in P[T]
  BY DEF Preserves
<1> DEFINE Fits(g, k) ==
             /\ g \in [SUBSET (1 .. k) -> S]
             /\ \A T \in SUBSET (1 .. k) :
                  /\ g[T] \in P[T]
                  /\ g[T] = IF T = {} THEN base ELSE step[<<g[T \ {Max(T)}], Max(T)>>]
           Bad == {k \in 0 .. n : ~\E g : Fits(g, k)}
<1>2. ASSUME NEW k \in 1 .. n, NEW g, Fits(g, k - 1) PROVE \E h : Fits(h, k)
  <2> DEFINE h == [T \in SUBSET (1 .. k) |-> IF k \in T THEN step[<<g[T \ {k}], k>>] ELSE g[T]]
  <2>1. ASSUME NEW T \in SUBSET (1 .. k), k \notin T
        PROVE  T \in SUBSET (1 .. (k - 1)) /\ h[T] = g[T]
    BY <2>1
  <2>2. ASSUME NEW T \in SUBSET (1 .. k), k \notin T
        PROVE  /\ h[T] \in P[T] /\ P[T] \in SUBSET S
               /\ h[T] = IF T = {} THEN base ELSE step[<<h[T \ {Max(T)}], Max(T)>>]
    <3>1. T \in SUBSET (1 .. (k - 1)) /\ h[T] = g[T] /\ T \in SUBSET (1 .. n)
      BY <2>1, <2>2
    <3>2. T \ {Max(T)} \in SUBSET (1 .. k) /\ k \notin T \ {Max(T)}
      BY <2>2
    <3>3. h[T \ {Max(T)}] = g[T \ {Max(T)}]
      BY <2>1, <3>2
    <3> HIDE DEF h
    <3> QED BY <1>1, <1>2, <3>1, <3>3
  <2>3. ASSUME NEW T \in SUBSET (1 .. k), k \in T
        PROVE  /\ h[T] \in P[T] /\ P[T] \in SUBSET S
               /\ h[T] = IF T = {} THEN base ELSE step[<<h[T \ {Max(T)}], Max(T)>>]
    <3>1. T \in SUBSET (0 .. k) /\ T # {} /\ T \in SUBSET (1 .. n) /\ k \in Nat
      BY <2>3
    <3>2. Max(T) = k
      <4>1. Max(T) \in T /\ \A x \in T : Max(T) >= x
        BY <3>1, MaxOfBounded
      <4>2. Max(T) \in 0 .. k /\ Max(T) >= k
        BY <2>3, <3>1, <4>1
      <4> QED BY <4>2
    <3>3. T \ {k} \in SUBSET (1 .. k) /\ k \notin T \ {k}
      BY <2>3
    <3>4. h[T \ {k}] \in P[T \ {k}] /\ h[T \ {k}] = g[T \ {k}]
      BY <2>1, <2>2, <3>3
    <3>5. h[T] = step[<<g[T \ {k}], k>>]
      BY <2>3
    <3> HIDE DEF h
    <3> QED BY <1>1, <3>1, <3>2, <3>4, <3>5
  <2>4. h \in [SUBSET (1 .. k) -> S]
    <3>1. \A T \in SUBSET (1 .. k) : h[T] \in S
      BY <2>2, <2>3
    <3>2. h = [T \in SUBSET (1 .. k) |-> h[T]]
      OBVIOUS
    <3> HIDE DEF h
    <3> QED BY <3>1, <3>2
  <2> HIDE DEF h
  <2>5. Fits(h, k)
    BY <2>2, <2>3, <2>4
  <2> QED BY <2>5
<1>3. \E g : Fits(g, 0)
  <2> DEFINE g == [T \in SUBSET (1 .. 0) |-> base]
  <2>1. SUBSET (1 .. 0) = {{}} /\ base \in S
    BY <1>1
  <2>2. g \in [SUBSET (1 .. 0) -> S] /\ g[{}] = base
    BY <2>1
  <2> HIDE DEF g
  <2>3. Fits(g, 0)
    BY <1>1, <2>1, <2>2
  <2> QED BY <2>3
<1>4. Bad = {}
  <2> SUFFICES ASSUME Bad # {} PROVE FALSE
    OBVIOUS
  <2>1. Bad \in SUBSET Nat
    OBVIOUS
  <2>2. PICK k \in Bad : \A j \in Bad : k <= j
    <3> HIDE DEF Bad
    <3> QED BY <2>1, LeastOfNaturals
  <2>3. k \in 0 .. n /\ k # 0 /\ ~\E g : Fits(g, k)
    <3> HIDE DEF Fits
    <3> QED BY <1>3, <2>2
  <2>4. k \in 1 .. n /\ k - 1 \in 0 .. n /\ k - 1 \notin Bad
    <3> HIDE DEF Bad
    <3> QED BY <2>2, <2>3
  <2>5. \E g : Fits(g, k - 1)
    <3> HIDE DEF Fits
    <3> QED BY <2>4
  <2> HIDE DEF Fits, Bad
  <2> QED BY <1>2, <2>3, <2>4, <2>5
<1>5. \E g : Fits(g, n)
  <2> HIDE DEF Fits
  <2> QED BY <1>4
<1> QED BY <1>5 DEF FoldsBy

-------------------------------------------------------------------------------
(* Wanted: every module code of a valid row, once. *)

\* What is wanted after the rows at the indices T.
WantedOf(rows, T) ==
  {w \in Seq(Rows) :
     /\ \A j \in DOMAIN w : w[j] \in Range(rows)
     /\ \A j, k \in DOMAIN w : w[j].module = w[k].module => j = k
     /\ \A k \in T : rows[k].valid => \E j \in DOMAIN w : w[j].module = rows[k].module}

LEMMA WantFits ==
  ASSUME NEW rows \in Seq(Rows), NEW T \in SUBSET DOMAIN rows, NEW k \in T, NEW w \in WantedOf(rows, T \ {k})
  PROVE  Want(w, rows[k]) \in WantedOf(rows, T)
<1> DEFINE r == rows[k]
           v == Want(w, r)
<1>1. r \in Rows /\ r \in Range(rows) /\ w \in Seq(Rows)
  BY DEF Range, WantedOf
<1>2. CASE v = w /\ (r.valid => \E j \in DOMAIN w : w[j].module = r.module)
  BY <1>2 DEF WantedOf
<1>3. CASE v = Append(w, r) /\ \A j \in DOMAIN w : w[j].module # r.module
  <2>1. /\ v \in Seq(Rows) /\ DOMAIN v = 1 .. Len(w) + 1 /\ DOMAIN w = 1 .. Len(w) /\ Len(w) \in Nat
        /\ v[Len(w) + 1] = r /\ \A j \in DOMAIN w : v[j] = w[j]
    BY <1>1, <1>3
  <2>2. \A j \in DOMAIN v : j \in DOMAIN w \/ j = Len(w) + 1
    BY <2>1
  <2> HIDE DEF v, r
  <2>3. \A j \in DOMAIN v : v[j] \in Range(rows)
    BY <1>1, <2>1, <2>2 DEF WantedOf
  <2>4. \A i, j \in DOMAIN v : v[i].module = v[j].module => i = j
    BY <1>3, <2>1, <2>2 DEF WantedOf
  <2>5. \A i \in T : rows[i].valid => \E j \in DOMAIN v : v[j].module = rows[i].module
    <3> SUFFICES ASSUME NEW i \in T, rows[i].valid PROVE \E j \in DOMAIN v : v[j].module = rows[i].module
      OBVIOUS
    <3>1. CASE i = k
      BY <2>1, <3>1 DEF r
    <3>2. CASE i # k
      <4>1. PICK j \in DOMAIN w : w[j].module = rows[i].module
        BY <3>2 DEF WantedOf
      <4> QED BY <2>1, <4>1
    <3> QED BY <3>1, <3>2
  <2>6. v \in WantedOf(rows, T)
    BY <2>1, <2>3, <2>4, <2>5 DEF WantedOf
  <2> QED BY <2>6 DEF v, r
<1> QED BY <1>2, <1>3 DEF Want

LEMMA WantedFits ==
  ASSUME NEW rows \in Seq(Rows)
  PROVE  Wanted(rows) \in WantedOf(rows, DOMAIN rows)
<1> DEFINE n == Len(rows)
           S == Seq(Rows)
           P == [T \in SUBSET (1 .. n) |-> WantedOf(rows, T)]
           step == [z \in S \X (1 .. n) |-> Want(z[1], rows[z[2]])]
           Folds(g) == g = [T \in SUBSET DOMAIN rows |->
                              IF T = {} THEN <<>> ELSE Want(g[T \ {Max(T)}], rows[Max(T)])]
<1>1. n \in Nat /\ DOMAIN rows = 1 .. n
  OBVIOUS
<1>2. P \in [SUBSET (1 .. n) -> SUBSET S] /\ <<>> \in P[{}]
  BY DEF WantedOf
<1>3. ASSUME NEW T \in SUBSET (1 .. n), T # {} PROVE Max(T) \in T
  <2>1. T \in SUBSET (0 .. n)
    OBVIOUS
  <2> QED BY <1>1, <1>3, <2>1, MaxOfBounded
<1>4. ASSUME NEW T \in SUBSET (1 .. n), T # {}, NEW w \in P[T \ {Max(T)}]
      PROVE  /\ Want(w, rows[Max(T)]) \in P[T]
             /\ step[<<w, Max(T)>>] = Want(w, rows[Max(T)])
  <2>1. Max(T) \in T /\ w \in WantedOf(rows, T \ {Max(T)}) /\ w \in S
    BY <1>3, <1>4 DEF WantedOf
  <2> QED BY <1>1, <2>1, WantFits
<1>5. \E g : Folds(g)
  <2> HIDE DEF S, P, step, n
  <2>1. Preserves(n, S, P, <<>>, step)
    BY <1>1, <1>2, <1>4 DEF Preserves
  <2>2. PICK g : FoldsBy(g, n, S, <<>>, step) /\ \A T \in SUBSET (1 .. n) : g[T] \in P[T]
    BY <1>1, <2>1, FoldExists
  <2>3. \A T \in SUBSET (1 .. n) : g[T] = IF T = {} THEN <<>> ELSE Want(g[T \ {Max(T)}], rows[Max(T)])
    BY <1>4, <2>2 DEF FoldsBy
  <2> QED BY <1>1, <2>2, <2>3 DEF FoldsBy
<1>6. PICK h : h = CHOOSE g : Folds(g)
  OBVIOUS
<1>7. Folds(h)
  BY <1>5, <1>6, Zenon
<1>8. Wanted(rows) = h[DOMAIN rows]
  BY <1>6, Zenon DEF Wanted, FoldLeft, MapThenFoldSet
<1> DEFINE G == {T \in SUBSET (1 .. n) : h[T] \in P[T]}
<1>9. SUBSET (1 .. n) \subseteq G
  <2>1. {} \in G
    BY <1>1, <1>2, <1>7
  <2>2. ASSUME NEW T \in SUBSET (1 .. n), T # {}, T \ {Max(T)} \in G PROVE T \in G
    BY <1>1, <1>4, <1>7, <2>2
  <2> HIDE DEF G, P, n
  <2> QED BY <1>1, <2>1, <2>2, IndexInduction
<1> QED BY <1>1, <1>8, <1>9

-------------------------------------------------------------------------------
(* Maps, and the codes uniqueModuleCode finds. *)

LEMMA MapsAreFunctions ==
  ASSUME NEW S, NEW T, NEW f
  PROVE  f \in Maps(S, T) <=> f \in [DOMAIN f -> T] /\ DOMAIN f \subseteq S
BY DEF Maps

LEMMA PutValues ==
  ASSUME NEW f, NEW a, NEW b
  PROVE  /\ DOMAIN Put(f, a, b) = DOMAIN f \cup {a} /\ Put(f, a, b)[a] = b
         /\ \A x \in DOMAIN f \ {a} : Put(f, a, b)[x] = f[x]
BY DEF Put

LEMMA PutFits ==
  ASSUME NEW S, NEW T, NEW f \in Maps(S, T), NEW a \in S, NEW b \in T
  PROVE  Put(f, a, b) \in Maps(S, T)
<1>1. f \in [DOMAIN f -> T] /\ DOMAIN f \subseteq S
  BY MapsAreFunctions
<1>2. PICK g : g = Put(f, a, b)
  OBVIOUS
<1>3. g = [x \in DOMAIN f \cup {a} |-> IF x = a THEN b ELSE f[x]]
  BY <1>2 DEF Put
<1>4. g \in [DOMAIN g -> T] /\ DOMAIN g \subseteq S
  BY <1>1, <1>3
<1> QED BY <1>2, <1>4, MapsAreFunctions

LEMMA EmptyMap ==
  ASSUME NEW S, NEW T
  PROVE  <<>> \in Maps(S, T) /\ DOMAIN <<>> = {}
<1>1. <<>> \in Seq(T) /\ DOMAIN <<>> = 1 .. 0
  OBVIOUS
<1>2. <<>> \in [1 .. 0 -> T] /\ 1 .. 0 = {}
  BY <1>1
<1> QED BY <1>1, <1>2 DEF Maps

LEMMA UniqueCode ==
  ASSUME NEW base \in Modules, NEW taken
  PROVE  /\ UniqueModuleCode(base, taken) \in Modules \cup {None}
         /\ UniqueModuleCode(base, taken) # None => UniqueModuleCode(base, taken) \notin taken
<1> DEFINE free == {k \in DOMAIN Suffixed[base] : Suffixed[base][k] \notin taken}
<1>1. Suffixed[base] \in Seq(Modules) /\ DOMAIN Suffixed[base] \subseteq Nat /\ None \notin Modules
  BY ImportFilesAssumption
<1>2. free # {} => Min(free) \in free
  <2>1. free \in SUBSET Nat
    BY <1>1
  <2> HIDE DEF free
  <2> QED BY <2>1, MinOfNaturals
<1>3. free # {} => Suffixed[base][Min(free)] \in Modules /\ Suffixed[base][Min(free)] \notin taken
  <2> SUFFICES ASSUME free # {} PROVE Suffixed[base][Min(free)] \in Modules /\ Suffixed[base][Min(free)] \notin taken
    OBVIOUS
  <2>1. PICK k \in free : k = Min(free)
    BY <1>2
  <2>2. PICK s \in Seq(Modules) : s = Suffixed[base]
    BY <1>1
  <2>3. k \in DOMAIN s /\ s[k] \notin taken
    BY <2>2
  <2>4. s[k] \in Modules
    BY <2>3
  <2> HIDE DEF free
  <2> QED BY <2>1, <2>2, <2>3, <2>4
<1>4. UniqueModuleCode(base, taken) =
        IF base \notin taken THEN base ELSE IF free = {} THEN None ELSE Suffixed[base][Min(free)]
  BY DEF UniqueModuleCode
<1> HIDE DEF free
<1> QED BY <1>3, <1>4

-------------------------------------------------------------------------------
(* parseImportRows: a name has one code, and no two names the same derived one. *)

\* Rows of one module name have one module code, and two names never share a derived one.
RowsFit(rows) ==
  \A r, s \in Range(rows) :
    /\ r.name = s.name => r.module = s.module /\ r.derived = s.derived
    /\ r.module = s.module /\ r.derived /\ s.derived => r.name = s.name

\* Until they are known to have codes.
FileModules == [code : Modules \cup {None}, derived : BOOLEAN]
FileRows == [code : Codes \cup {None}, name : Names, module : Modules \cup {None}, derived : BOOLEAN, valid : BOOLEAN]

Parses ==
  {p \in [rows : Seq(FileRows), seen : SUBSET (Codes \cup {None}), modules : Maps(Names, FileModules)] :
     /\ \A k \in DOMAIN p.rows :
          /\ p.rows[k].name \in DOMAIN p.modules
          /\ p.rows[k].module = p.modules[p.rows[k].name].code
          /\ p.rows[k].derived = p.modules[p.rows[k].name].derived
     /\ \A a, b \in DOMAIN p.modules :
          /\ p.modules[a].derived /\ p.modules[b].derived
          /\ p.modules[a].code = p.modules[b].code /\ p.modules[a].code # None
          => a = b}

LEMMA ModuleOfFits ==
  ASSUME NEW p \in Parses, NEW name \in Names, NEW prefix \in Modules \cup {None}
  PROVE  /\ ModuleOf(p, name, prefix) \in FileModules
         /\ name \in DOMAIN p.modules => ModuleOf(p, name, prefix) = p.modules[name]
         /\ name \notin DOMAIN p.modules /\ ModuleOf(p, name, prefix).derived /\ ModuleOf(p, name, prefix).code # None =>
              \A n \in DOMAIN p.modules : p.modules[n].code # ModuleOf(p, name, prefix).code
<1> DEFINE taken == {p.modules[n].code : n \in DOMAIN p.modules}
<1>1. p.modules \in [DOMAIN p.modules -> FileModules]
  BY MapsAreFunctions DEF Parses
<1>2. Derive[name] \in Modules
  BY ImportFilesAssumption
<1>3. PICK code \in Modules \cup {None} :
        code = UniqueModuleCode(Derive[name], taken) /\ (code # None => code \notin taken)
  BY <1>2, UniqueCode
<1>4. CASE name \in DOMAIN p.modules
  BY <1>1, <1>4 DEF ModuleOf
<1>5. CASE name \notin DOMAIN p.modules /\ prefix # None
  BY <1>5 DEF ModuleOf, FileModules
<1>6. CASE name \notin DOMAIN p.modules /\ prefix = None
  <2>1. ModuleOf(p, name, prefix) = [code |-> code, derived |-> TRUE]
    BY <1>3, <1>6 DEF ModuleOf
  <2>2. [code |-> code, derived |-> TRUE] \in FileModules
    BY <1>3 DEF FileModules
  <2>3. code # None => \A n \in DOMAIN p.modules : p.modules[n].code # code
    BY <1>3
  <2> QED BY <1>6, <2>1, <2>2, <2>3
<1> QED BY <1>4, <1>5, <1>6

LEMMA BuildRowFits ==
  ASSUME NEW p \in Parses, NEW raw \in RawRows
  PROVE  BuildRow(p, raw) \in Parses
<1> DEFINE seen == (p.seen \cup {raw.id}) \ {None}
           prefix == IF raw.id = None \/ raw.id \in p.seen THEN None ELSE raw.id[1]
           m == ModuleOf(p, raw.name, prefix)
           row == [code |-> raw.id, name |-> raw.name, module |-> m.code, derived |-> m.derived,
                   valid |-> raw.valid /\ ~(raw.id \in p.seen)]
           all == Put(p.modules, raw.name, m)
<1>1. /\ raw.id \in Codes \cup {None} /\ raw.name \in Names \cup {None} /\ raw.valid \in BOOLEAN
      /\ prefix \in Modules \cup {None} /\ seen \in SUBSET (Codes \cup {None})
  BY DEF RawRows, Parses, Codes
<1>2. p = [rows |-> p.rows, seen |-> p.seen, modules |-> p.modules]
  BY DEF Parses
<1>3. CASE raw.name = None
  <2>1. BuildRow(p, raw) = [rows |-> p.rows, seen |-> seen, modules |-> p.modules]
    BY <1>2, <1>3 DEF BuildRow
  <2> HIDE DEF seen
  <2> QED BY <1>1, <2>1 DEF Parses
<1>4. CASE raw.name # None
  <2>1. BuildRow(p, raw) = [rows |-> Append(p.rows, row), seen |-> seen, modules |-> all]
    BY <1>2, <1>4 DEF BuildRow
  <2>2. /\ raw.name \in Names /\ m \in FileModules
        /\ raw.name \in DOMAIN p.modules => m = p.modules[raw.name]
        /\ raw.name \notin DOMAIN p.modules /\ m.derived /\ m.code # None =>
              \A n \in DOMAIN p.modules : p.modules[n].code # m.code
    <3> HIDE DEF prefix
    <3> QED BY <1>1, <1>4, ModuleOfFits
  <2>3. row \in FileRows /\ row.name = raw.name /\ row.module = m.code /\ row.derived = m.derived
    BY <1>1, <2>2 DEF FileRows, FileModules
  <2>4. p.rows \in Seq(FileRows) /\ p.modules \in Maps(Names, FileModules)
    BY DEF Parses
  <2> HIDE DEF m, row, seen
  <2>5. /\ all \in Maps(Names, FileModules) /\ DOMAIN all = DOMAIN p.modules \cup {raw.name}
        /\ all[raw.name] = m /\ \A n \in DOMAIN p.modules : all[n] = p.modules[n]
    <3>1. all \in Maps(Names, FileModules)
      BY <2>2, <2>4, PutFits
    <3>2. /\ DOMAIN all = DOMAIN p.modules \cup {raw.name}
          /\ all[raw.name] = m /\ \A n \in DOMAIN p.modules \ {raw.name} : all[n] = p.modules[n]
      BY DEF Put
    <3> HIDE DEF all
    <3> QED BY <2>2, <3>1, <3>2
  <2> HIDE DEF all
  <2>6. \A a, b \in DOMAIN all :
          all[a].derived /\ all[b].derived /\ all[a].code = all[b].code /\ all[a].code # None => a = b
    BY <2>2, <2>5 DEF Parses
  <2>7. PICK rows : rows = Append(p.rows, row)
    OBVIOUS
  <2>8. /\ rows \in Seq(FileRows)
        /\ \A k \in DOMAIN rows : rows[k] = row \/ (k \in DOMAIN p.rows /\ rows[k] = p.rows[k])
    BY <2>3, <2>4, <2>7
  <2>9. \A k \in DOMAIN rows : /\ rows[k].name \in DOMAIN all
                               /\ rows[k].module = all[rows[k].name].code
                               /\ rows[k].derived = all[rows[k].name].derived
    BY <2>3, <2>5, <2>8 DEF Parses
  <2>10. [rows |-> rows, seen |-> seen, modules |-> all] \in
           [rows : Seq(FileRows), seen : SUBSET (Codes \cup {None}), modules : Maps(Names, FileModules)]
    BY <1>1, <2>5, <2>8 DEF seen
  <2>11. [rows |-> rows, seen |-> seen, modules |-> all] \in Parses
    BY <2>6, <2>9, <2>10 DEF Parses
  <2> QED BY <2>1, <2>7, <2>11
<1> QED BY <1>3, <1>4

LEMMA ParsedRowsFit ==
  ASSUME NEW table \in Seq(RawRows), \A r \in Range(ParsedRows(table)) : r.module # None
  PROVE  ParsedRows(table) \in Seq(Rows) /\ RowsFit(ParsedRows(table))
<1> DEFINE n == Len(table)
           P == [T \in SUBSET (1 .. n) |-> Parses]
           step == [z \in Parses \X (1 .. n) |-> BuildRow(z[1], table[z[2]])]
           Folds(g) == g = [T \in SUBSET DOMAIN table |->
                              IF T = {} THEN NothingParsed ELSE BuildRow(g[T \ {Max(T)}], table[Max(T)])]
<1>1. n \in Nat /\ DOMAIN table = 1 .. n
  OBVIOUS
<1>2. P \in [SUBSET (1 .. n) -> SUBSET Parses] /\ NothingParsed \in P[{}]
  <2>1. <<>> \in Maps(Names, FileModules) /\ DOMAIN <<>> = {}
    BY EmptyMap
  <2>2. NothingParsed \in [rows : Seq(FileRows), seen : SUBSET (Codes \cup {None}), modules : Maps(Names, FileModules)]
    BY <2>1 DEF NothingParsed
  <2> QED BY <2>1, <2>2 DEF Parses, NothingParsed
<1>3. ASSUME NEW T \in SUBSET (1 .. n), T # {}, NEW p \in P[T \ {Max(T)}]
      PROVE  /\ BuildRow(p, table[Max(T)]) \in P[T]
             /\ step[<<p, Max(T)>>] = BuildRow(p, table[Max(T)])
  <2>1. T \in SUBSET (0 .. n)
    OBVIOUS
  <2>2. Max(T) \in T /\ p \in Parses
    BY <1>1, <1>3, <2>1, MaxOfBounded
  <2>3. PICK k \in 1 .. n : k = Max(T)
    BY <2>2
  <2>4. table[k] \in RawRows /\ <<p, k>> \in Parses \X (1 .. n)
    BY <1>1, <2>2
  <2>5. BuildRow(p, table[Max(T)]) \in Parses
    BY <2>2, <2>3, <2>4, BuildRowFits
  <2>6. step[<<p, k>>] = BuildRow(p, table[k])
    BY <2>4
  <2> HIDE DEF step
  <2> QED BY <2>3, <2>5, <2>6
<1>4. \E g : Folds(g)
  <2> HIDE DEF P, step, n
  <2>1. Preserves(n, Parses, P, NothingParsed, step)
    BY <1>1, <1>2, <1>3 DEF Preserves
  <2>2. PICK g : FoldsBy(g, n, Parses, NothingParsed, step) /\ \A T \in SUBSET (1 .. n) : g[T] \in P[T]
    BY <1>1, <2>1, FoldExists
  <2>3. \A T \in SUBSET (1 .. n) :
          g[T] = IF T = {} THEN NothingParsed ELSE BuildRow(g[T \ {Max(T)}], table[Max(T)])
    BY <1>3, <2>2 DEF FoldsBy
  <2>4. g = [T \in SUBSET (1 .. n) |-> g[T]]
    BY <2>2 DEF FoldsBy
  <2> QED BY <1>1, <2>3, <2>4
<1>5. PICK h : h = CHOOSE g : Folds(g)
  OBVIOUS
<1>6. Folds(h)
  BY <1>4, <1>5, Zenon
<1>7. \A T \in SUBSET (1 .. n) : h[T] = IF T = {} THEN NothingParsed ELSE BuildRow(h[T \ {Max(T)}], table[Max(T)])
  BY <1>1, <1>6
<1>8. ParsedRows(table) = h[DOMAIN table].rows
  BY <1>5, Zenon DEF ParsedRows, FoldLeft, MapThenFoldSet
<1> DEFINE G == {T \in SUBSET (1 .. n) : h[T] \in P[T]}
<1>9. SUBSET (1 .. n) \subseteq G
  <2>1. {} \in G
    BY <1>2, <1>7
  <2>2. ASSUME NEW T \in SUBSET (1 .. n), T # {}, T \ {Max(T)} \in G PROVE T \in G
    BY <1>3, <1>7, <2>2
  <2> HIDE DEF G, P, n
  <2> QED BY <1>1, <2>1, <2>2, IndexInduction
<1>10. PICK p \in Parses : ParsedRows(table) = p.rows
  BY <1>1, <1>8, <1>9
<1>11. p.rows \in Seq(Rows)
  <2>1. p.rows \in Seq(FileRows) /\ \A k \in DOMAIN p.rows : p.rows[k].module # None
    BY <1>10 DEF Parses, Range
  <2>2. \A k \in 1 .. Len(p.rows) : p.rows[k] \in Rows
    <3> SUFFICES ASSUME NEW k \in 1 .. Len(p.rows) PROVE p.rows[k] \in Rows
      OBVIOUS
    <3>1. PICK r \in FileRows : r = p.rows[k] /\ r.module # None
      BY <2>1
    <3> QED BY <3>1 DEF FileRows, Rows
  <2> QED BY <2>1, <2>2
<1>12. RowsFit(p.rows)
  <2> SUFFICES ASSUME NEW j \in DOMAIN p.rows, NEW k \in DOMAIN p.rows, NEW r, NEW s, r = p.rows[j], s = p.rows[k]
               PROVE  /\ r.name = s.name => r.module = s.module /\ r.derived = s.derived
                      /\ r.module = s.module /\ r.derived /\ s.derived => r.name = s.name
    BY DEF RowsFit, Range
  <2>1. r.module # None
    BY <1>10 DEF Range
  <2> QED BY <2>1 DEF Parses
<1> QED BY <1>10, <1>11, <1>12

-------------------------------------------------------------------------------
(* ensureModules: every wanted code leads somewhere, a derived one to a module of its name. *)

Creation == [code : Modules \cup {None}, name : Names]

\* A code to create is new to the project and to the plan; the codes that are given are None only
\* when there was no other.
PlansOf(codes, byName) ==
  {p \in [codes : SUBSET (Modules \cup {None}), byName : {byName}, to : Maps(Modules, Modules \cup {None}),
          create : Seq(Creation), collisions : Seq(Rows)] :
     /\ codes \subseteq p.codes
     /\ \A k \in DOMAIN p.create :
          /\ p.create[k].code \in p.codes
          /\ p.create[k].code # None => p.create[k].code \notin codes
     /\ \A j, k \in DOMAIN p.create : p.create[j].code = p.create[k].code /\ p.create[j].code # None => j = k
     /\ \A m \in DOMAIN p.to : p.to[m] = None => \E k \in DOMAIN p.create : p.create[k].code = None}

Settled(p, r) ==
  /\ r.module \in DOMAIN p.to
  /\ r.derived => \/ r.name \in DOMAIN p.byName /\ p.to[r.module] = p.byName[r.name]
                  \/ \E k \in DOMAIN p.create : p.create[k] = [code |-> p.to[r.module], name |-> r.name]

\* What a step for row r leaves as it was.
Follows(q, p, r) ==
  /\ \A s \in Rows : s.module # r.module /\ Settled(p, s) => Settled(q, s)
  /\ \A s \in Range(p.collisions) : s \in Range(q.collisions)
  /\ \A s \in Range(q.collisions) : s \in Range(p.collisions) \/ s = r

LEMMA AddingFits ==
  ASSUME NEW codes, NEW byName, NEW p \in PlansOf(codes, byName), NEW r \in Rows,
         NEW code \in Modules \cup {None}, code # None => code \notin p.codes
  PROVE  /\ Adding(p, r, code) \in PlansOf(codes, byName)
         /\ Settled(Adding(p, r, code), r) /\ Follows(Adding(p, r, code), p, r)
<1> DEFINE to == Put(p.to, r.module, code)
           new == [code |-> code, name |-> r.name]
           create == Append(p.create, new)
           all == p.codes \cup {code}
<1>1. PICK q : q = Adding(p, r, code)
  OBVIOUS
<1>2. q = [codes |-> all, byName |-> p.byName, to |-> to, create |-> create, collisions |-> p.collisions]
  BY <1>1 DEF Adding, PlansOf
<1>3. r.module \in Modules /\ r.name \in Names /\ new \in Creation
  BY DEF Rows, Creation
<1>4. /\ p.to \in Maps(Modules, Modules \cup {None}) /\ p.create \in Seq(Creation)
      /\ p.codes \in SUBSET (Modules \cup {None}) /\ p.byName = byName /\ p.collisions \in Seq(Rows)
      /\ codes \subseteq p.codes
  BY DEF PlansOf
<1>5. to \in Maps(Modules, Modules \cup {None})
  BY <1>3, <1>4, PutFits
<1>6. DOMAIN to = DOMAIN p.to \cup {r.module} /\ to[r.module] = code
      /\ \A m \in DOMAIN p.to \ {r.module} : to[m] = p.to[m]
  BY DEF Put
<1>7. /\ create \in Seq(Creation)
      /\ \A k \in DOMAIN p.create : k \in DOMAIN create /\ create[k] = p.create[k]
      /\ \A k \in DOMAIN create : k \in DOMAIN p.create \/ k = Len(p.create) + 1
      /\ Len(p.create) + 1 \in DOMAIN create /\ create[Len(p.create) + 1] = new
  BY <1>3, <1>4
<1> HIDE DEF to, create
<1>8. all \in SUBSET (Modules \cup {None}) /\ codes \subseteq all
  BY <1>4
<1>9. \A k \in DOMAIN create : create[k].code \in all /\ (create[k].code # None => create[k].code \notin codes)
  BY <1>4, <1>7 DEF PlansOf
<1>10. \A j, k \in DOMAIN create : create[j].code = create[k].code /\ create[j].code # None => j = k
  BY <1>7 DEF PlansOf
<1>11. \A m \in DOMAIN to : to[m] = None => \E k \in DOMAIN create : create[k].code = None
  <2> SUFFICES ASSUME NEW m \in DOMAIN to, to[m] = None PROVE \E k \in DOMAIN create : create[k].code = None
    OBVIOUS
  <2>1. CASE m = r.module
    BY <1>6, <1>7, <2>1
  <2>2. CASE m # r.module
    <3>1. PICK k \in DOMAIN p.create : p.create[k].code = None
      BY <1>6, <2>2 DEF PlansOf
    <3> QED BY <1>7, <3>1
  <2> QED BY <2>1, <2>2
<1> HIDE DEF all, new
<1>12. q \in [codes : SUBSET (Modules \cup {None}), byName : {byName}, to : Maps(Modules, Modules \cup {None}),
             create : Seq(Creation), collisions : Seq(Rows)]
  BY <1>2, <1>4, <1>5, <1>7, <1>8
<1>13. q.codes = all /\ q.byName = p.byName /\ q.to = to /\ q.create = create /\ q.collisions = p.collisions
  BY <1>2
<1>14. q \in PlansOf(codes, byName)
  BY <1>8, <1>9, <1>10, <1>11, <1>12, <1>13 DEF PlansOf
<1>15. Settled(q, r)
  BY <1>6, <1>7, <1>13 DEF Settled, new
<1>16. Follows(q, p, r)
  <2>1. ASSUME NEW s \in Rows, s.module # r.module, Settled(p, s) PROVE Settled(q, s)
    <3>1. s.module \in DOMAIN to /\ to[s.module] = p.to[s.module]
      BY <1>6, <2>1 DEF Settled
    <3> QED BY <1>7, <1>13, <2>1, <3>1 DEF Settled
  <2> QED BY <1>13, <2>1 DEF Follows
<1> QED BY <1>1, <1>14, <1>15, <1>16

\* The rows go to a module the project has.
LEMMA LeadingFits ==
  ASSUME NEW codes, NEW byName, NEW p \in PlansOf(codes, byName), NEW r \in Rows, NEW m \in Modules,
         r.derived => r.name \in DOMAIN p.byName /\ m = p.byName[r.name],
         NEW q, q = [p EXCEPT !.to = Put(@, r.module, m)]
  PROVE  q \in PlansOf(codes, byName) /\ Settled(q, r) /\ Follows(q, p, r)
<1> DEFINE to == Put(p.to, r.module, m)
<1>1. q = [codes |-> p.codes, byName |-> p.byName, to |-> to, create |-> p.create, collisions |-> p.collisions]
  BY DEF PlansOf
<1>2. p.to \in Maps(Modules, Modules \cup {None}) /\ r.module \in Modules /\ None \notin Modules
  BY ImportFilesAssumption DEF PlansOf, Rows
<1>3. to \in Maps(Modules, Modules \cup {None})
  BY <1>2, PutFits
<1>4. DOMAIN to = DOMAIN p.to \cup {r.module} /\ to[r.module] = m
      /\ \A n \in DOMAIN p.to \ {r.module} : to[n] = p.to[n]
  BY DEF Put
<1> HIDE DEF to
<1>5. q.codes = p.codes /\ q.byName = p.byName /\ q.to = to /\ q.create = p.create /\ q.collisions = p.collisions
  BY <1>1
<1>6. q \in [codes : SUBSET (Modules \cup {None}), byName : {byName}, to : Maps(Modules, Modules \cup {None}),
             create : Seq(Creation), collisions : Seq(Rows)]
  BY <1>1, <1>3 DEF PlansOf
<1>7. \A n \in DOMAIN to : to[n] = None => \E k \in DOMAIN p.create : p.create[k].code = None
  BY <1>2, <1>4 DEF PlansOf
<1>8. q \in PlansOf(codes, byName)
  BY <1>5, <1>6, <1>7 DEF PlansOf
<1>9. Settled(q, r)
  BY <1>4, <1>5 DEF Settled
<1>10. Follows(q, p, r)
  <2>1. ASSUME NEW s \in Rows, s.module # r.module, Settled(p, s) PROVE Settled(q, s)
    <3>1. s.module \in DOMAIN to /\ to[s.module] = p.to[s.module]
      BY <1>4, <2>1 DEF Settled
    <3> QED BY <1>5, <2>1, <3>1 DEF Settled
  <2> QED BY <1>5, <2>1 DEF Follows
<1> QED BY <1>8, <1>9, <1>10

LEMMA ResolveFits ==
  ASSUME NEW codes, NEW D, NEW byName \in [D -> Modules], NEW p \in PlansOf(codes, byName), NEW r \in Rows
  PROVE  /\ Resolve(p, r) \in PlansOf(codes, byName) /\ Follows(Resolve(p, r), p, r)
         /\ Settled(Resolve(p, r), r) \/ r \in Range(Resolve(p, r).collisions)
<1>1. PICK q : q = Resolve(p, r)
  OBVIOUS
<1>2. p.byName = byName /\ r.module \in Modules
  BY DEF PlansOf, Rows
<1>3. CASE r.derived /\ r.name \in DOMAIN p.byName
  <2>1. q = [p EXCEPT !.to = Put(@, r.module, p.byName[r.name])] /\ p.byName[r.name] \in Modules
    BY <1>1, <1>2, <1>3 DEF Resolve
  <2> QED BY <1>1, <1>3, <2>1, LeadingFits
<1>4. CASE ~(r.derived /\ r.name \in DOMAIN p.byName) /\ r.module \notin p.codes
  <2>1. q = Adding(p, r, r.module)
    BY <1>1, <1>4 DEF Resolve
  <2> QED BY <1>1, <1>2, <1>4, <2>1, AddingFits
<1>5. CASE r.derived /\ r.name \notin DOMAIN p.byName /\ r.module \in p.codes
  <2>1. q = [codes |-> p.codes, byName |-> p.byName, to |-> p.to, create |-> p.create,
             collisions |-> Append(p.collisions, r)]
    BY <1>1, <1>5 DEF Resolve, PlansOf
  <2>2. PICK c \in Seq(Rows) : c = p.collisions
    BY DEF PlansOf
  <2>3. /\ Append(c, r) \in Seq(Rows) /\ r \in Range(Append(c, r))
        /\ \A s \in Range(c) : s \in Range(Append(c, r))
        /\ \A s \in Range(Append(c, r)) : s \in Range(c) \/ s = r
    <3>1. PICK d : d = Append(c, r)
      OBVIOUS
    <3>2. /\ d \in Seq(Rows) /\ Len(c) + 1 \in DOMAIN d /\ d[Len(c) + 1] = r
          /\ \A k \in DOMAIN c : k \in DOMAIN d /\ d[k] = c[k]
          /\ \A k \in DOMAIN d : k \in DOMAIN c \/ k = Len(c) + 1
      BY <3>1
    <3> QED BY <3>1, <3>2 DEF Range
  <2>4. /\ q.codes = p.codes /\ q.byName = p.byName /\ q.to = p.to /\ q.create = p.create
        /\ q.collisions = Append(c, r)
    BY <2>1, <2>2
  <2>5. q \in [codes : SUBSET (Modules \cup {None}), byName : {byName}, to : Maps(Modules, Modules \cup {None}),
               create : Seq(Creation), collisions : Seq(Rows)]
    BY <2>1, <2>2, <2>3 DEF PlansOf
  <2>6. q \in PlansOf(codes, byName)
    BY <2>4, <2>5 DEF PlansOf
  <2>7. Follows(q, p, r)
    BY <2>2, <2>3, <2>4 DEF Follows, Settled
  <2> QED BY <1>1, <2>3, <2>4, <2>6, <2>7
<1>6. CASE ~r.derived /\ r.module \in p.codes
  <2>1. q = [p EXCEPT !.to = Put(@, r.module, r.module)]
    BY <1>1, <1>6 DEF Resolve
  <2> QED BY <1>1, <1>2, <1>6, <2>1, LeadingFits
<1> QED BY <1>3, <1>4, <1>5, <1>6

LEMMA ResolveCollisionFits ==
  ASSUME NEW codes, NEW byName, NEW p \in PlansOf(codes, byName), NEW r \in Rows
  PROVE  /\ ResolveCollision(p, r) \in PlansOf(codes, byName)
         /\ Follows(ResolveCollision(p, r), p, r) /\ Settled(ResolveCollision(p, r), r)
<1>1. Derive[r.name] \in Modules
  BY ImportFilesAssumption DEF Rows
<1>2. PICK code \in Modules \cup {None} :
        code = UniqueModuleCode(Derive[r.name], p.codes) /\ (code # None => code \notin p.codes)
  BY <1>1, UniqueCode
<1>3. ResolveCollision(p, r) = Adding(p, r, code)
  BY <1>2 DEF ResolveCollision
<1> QED BY <1>2, <1>3, AddingFits

\* The wanted rows at the indices T are settled, but for those whose code belongs to another name.
LEMMA FirstFits ==
  ASSUME NEW w \in Seq(Rows), \A j, k \in DOMAIN w : w[j].module = w[k].module => j = k,
         NEW codes \in SUBSET Modules, NEW D, NEW byName \in [D -> Modules],
         NEW first, first = FoldLeft(Resolve, NothingPlanned(codes, byName), w)
  PROVE  /\ first \in PlansOf(codes, byName)
         /\ \A s \in Range(first.collisions) : s \in Range(w)
         /\ \A k \in DOMAIN w : Settled(first, w[k]) \/ w[k] \in Range(first.collisions)
<1> DEFINE n == Len(w)
           S == PlansOf(codes, byName)
           Fits(p, T) == /\ \A s \in Range(p.collisions) : s \in Range(w)
                         /\ \A k \in T : Settled(p, w[k]) \/ w[k] \in Range(p.collisions)
           P == [T \in SUBSET (1 .. n) |-> {p \in S : Fits(p, T)}]
           step == [z \in S \X (1 .. n) |-> Resolve(z[1], w[z[2]])]
           base == NothingPlanned(codes, byName)
           Folds(g) == g = [T \in SUBSET DOMAIN w |->
                              IF T = {} THEN base ELSE Resolve(g[T \ {Max(T)}], w[Max(T)])]
<1>1. n \in Nat /\ DOMAIN w = 1 .. n
  OBVIOUS
<1>2. base \in S /\ Fits(base, {})
  <2>1. <<>> \in Maps(Modules, Modules \cup {None}) /\ DOMAIN <<>> = {}
    BY EmptyMap
  <2>2. base = [codes |-> codes, byName |-> byName, to |-> <<>>, create |-> <<>>, collisions |-> <<>>]
    BY DEF NothingPlanned
  <2>3. base \in [codes : SUBSET (Modules \cup {None}), byName : {byName}, to : Maps(Modules, Modules \cup {None}),
                  create : Seq(Creation), collisions : Seq(Rows)]
    BY <2>1, <2>2
  <2> HIDE DEF base
  <2>4. base \in S
    BY <2>1, <2>2, <2>3 DEF PlansOf
  <2>5. Range(base.collisions) = {}
    BY <2>1, <2>2 DEF Range
  <2> HIDE DEF S
  <2> QED BY <2>4, <2>5
<1>3. ASSUME NEW T \in SUBSET (1 .. n), NEW k \in T, NEW p \in S, Fits(p, T \ {k})
      PROVE  Resolve(p, w[k]) \in S /\ Fits(Resolve(p, w[k]), T)
  <2>1. PICK q : q = Resolve(p, w[k])
    OBVIOUS
  <2>2. PICK r \in Rows : r = w[k]
    BY <1>1
  <2>3. /\ q \in S /\ Follows(q, p, r) /\ (Settled(q, r) \/ r \in Range(q.collisions))
    BY <2>1, <2>2, ResolveFits
  <2>4. \A s \in Range(q.collisions) : s \in Range(w)
    BY <1>1, <1>3, <2>2, <2>3 DEF Follows, Range
  <2>5. ASSUME NEW j \in T PROVE Settled(q, w[j]) \/ w[j] \in Range(q.collisions)
    <3>1. CASE j = k
      BY <2>2, <2>3, <3>1
    <3>2. CASE j # k
      <4>1. w[j] \in Rows /\ w[j].module # r.module
        BY <1>1, <2>2, <3>2
      <4>2. Settled(p, w[j]) \/ w[j] \in Range(p.collisions)
        BY <1>3, <3>2
      <4> QED BY <2>3, <4>1, <4>2 DEF Follows
    <3> QED BY <3>1, <3>2
  <2> HIDE DEF S
  <2> QED BY <2>1, <2>2, <2>3, <2>4, <2>5
<1> HIDE DEF S, Fits, base
<1>4. ASSUME NEW T \in SUBSET (1 .. n), T # {}, NEW p \in P[T \ {Max(T)}]
      PROVE  /\ Resolve(p, w[Max(T)]) \in P[T]
             /\ step[<<p, Max(T)>>] = Resolve(p, w[Max(T)])
  <2>1. T \in SUBSET (0 .. n)
    OBVIOUS
  <2>2. PICK k \in T : k = Max(T)
    BY <1>1, <1>4, <2>1, MaxOfBounded
  <2>3. p \in S /\ Fits(p, T \ {k})
    BY <1>4, <2>2
  <2>4. Resolve(p, w[k]) \in P[T]
    BY <1>3, <2>3
  <2>5. step[<<p, k>>] = Resolve(p, w[k])
    BY <2>3
  <2> HIDE DEF step, P
  <2> QED BY <2>2, <2>4, <2>5
<1>5. P \in [SUBSET (1 .. n) -> SUBSET S] /\ base \in P[{}]
  BY <1>2
<1>6. \E g : Folds(g)
  <2> HIDE DEF P, step, n
  <2>1. Preserves(n, S, P, base, step)
    BY <1>4, <1>5 DEF Preserves
  <2>2. PICK g : FoldsBy(g, n, S, base, step) /\ \A T \in SUBSET (1 .. n) : g[T] \in P[T]
    BY <1>1, <2>1, FoldExists
  <2>3. \A T \in SUBSET (1 .. n) : g[T] = IF T = {} THEN base ELSE Resolve(g[T \ {Max(T)}], w[Max(T)])
    BY <1>4, <2>2 DEF FoldsBy
  <2>4. g = [T \in SUBSET (1 .. n) |-> g[T]]
    BY <2>2 DEF FoldsBy
  <2>5. g = [T \in SUBSET (1 .. n) |-> IF T = {} THEN base ELSE Resolve(g[T \ {Max(T)}], w[Max(T)])]
    BY <2>3, <2>4
  <2>6. Folds(g)
    BY <1>1, <2>5, Zenon
  <2> HIDE DEF Folds
  <2> QED BY <2>6
<1>7. PICK h : h = CHOOSE g : Folds(g)
  OBVIOUS
<1>8. Folds(h)
  BY <1>6, <1>7, Zenon
<1>9. \A T \in SUBSET (1 .. n) : h[T] = IF T = {} THEN base ELSE Resolve(h[T \ {Max(T)}], w[Max(T)])
  BY <1>1, <1>8
<1>10. first = h[DOMAIN w]
  BY <1>7, Zenon DEF base, FoldLeft, MapThenFoldSet
<1> DEFINE G == {T \in SUBSET (1 .. n) : h[T] \in P[T]}
<1>11. SUBSET (1 .. n) \subseteq G
  <2>1. {} \in G
    BY <1>5, <1>9
  <2>2. ASSUME NEW T \in SUBSET (1 .. n), T # {}, T \ {Max(T)} \in G PROVE T \in G
    <3> HIDE DEF P, step
    <3>1. h[T \ {Max(T)}] \in P[T \ {Max(T)}]
      BY <2>2
    <3>2. h[T] = Resolve(h[T \ {Max(T)}], w[Max(T)])
      BY <1>9, <2>2
    <3>3. Resolve(h[T \ {Max(T)}], w[Max(T)]) \in P[T]
      BY <1>4, <2>2, <3>1
    <3> QED BY <3>2, <3>3
  <2> HIDE DEF G, P, n
  <2> QED BY <1>1, <2>1, <2>2, IndexInduction
<1>12. first \in S /\ Fits(first, DOMAIN w)
  <2>1. 1 .. n \in SUBSET (1 .. n) /\ h[1 .. n] \in P[1 .. n]
    BY <1>11
  <2>2. h[1 .. n] \in {p \in S : Fits(p, 1 .. n)}
    BY <2>1
  <2> HIDE DEF n, P, G
  <2> QED BY <1>1, <1>10, <2>2
<1> QED BY <1>12 DEF S, Fits

\* The collisions are settled too, one after the other.
LEMMA AllFits ==
  ASSUME NEW w \in Seq(Rows), \A j, k \in DOMAIN w : w[j].module = w[k].module => j = k,
         NEW codes, NEW byName, NEW first \in PlansOf(codes, byName),
         NEW c \in Seq(Rows), \A s \in Range(c) : s \in Range(w),
         \A k \in DOMAIN w : Settled(first, w[k]) \/ w[k] \in Range(c),
         NEW all, all = FoldLeft(ResolveCollision, first, c)
  PROVE  all \in PlansOf(codes, byName) /\ \A k \in DOMAIN w : Settled(all, w[k])
<1> DEFINE n == Len(c)
           S == PlansOf(codes, byName)
           Fits(p, T) == \A k \in DOMAIN w : Settled(p, w[k]) \/ \E j \in (1 .. n) \ T : c[j] = w[k]
           P == [T \in SUBSET (1 .. n) |-> {p \in S : Fits(p, T)}]
           step == [z \in S \X (1 .. n) |-> ResolveCollision(z[1], c[z[2]])]
           Folds(g) == g = [T \in SUBSET DOMAIN c |->
                              IF T = {} THEN first ELSE ResolveCollision(g[T \ {Max(T)}], c[Max(T)])]
<1>1. n \in Nat /\ DOMAIN c = 1 .. n
  OBVIOUS
<1>2. Fits(first, {})
  BY <1>1 DEF Range
<1>3. ASSUME NEW T \in SUBSET (1 .. n), NEW k \in T, NEW p \in S, Fits(p, T \ {k})
      PROVE  ResolveCollision(p, c[k]) \in S /\ Fits(ResolveCollision(p, c[k]), T)
  <2>1. PICK q : q = ResolveCollision(p, c[k])
    OBVIOUS
  <2>2. PICK r \in Rows : r = c[k]
    BY <1>1
  <2>3. q \in S /\ Follows(q, p, r) /\ Settled(q, r)
    BY <2>1, <2>2, ResolveCollisionFits
  <2>4. PICK i \in DOMAIN w : r = w[i]
    <3>1. c[k] \in Range(c)
      BY <1>1 DEF Range
    <3> QED BY <2>2, <3>1 DEF Range
  <2>5. ASSUME NEW j \in DOMAIN w PROVE Settled(q, w[j]) \/ \E l \in (1 .. n) \ T : c[l] = w[j]
    <3>1. CASE j = i
      BY <2>3, <2>4, <3>1
    <3>2. CASE j # i
      <4>1. w[j] \in Rows /\ w[j].module # r.module
        BY <2>4, <3>2
      <4>2. CASE Settled(p, w[j])
        BY <2>3, <4>1, <4>2 DEF Follows
      <4>3. CASE ~Settled(p, w[j])
        <5>1. PICK l \in (1 .. n) \ (T \ {k}) : c[l] = w[j]
          BY <1>3, <4>3
        <5>2. l # k
          BY <2>2, <4>1, <5>1
        <5> QED BY <5>1, <5>2
      <4> QED BY <4>2, <4>3
    <3> QED BY <3>1, <3>2
  <2> HIDE DEF S
  <2> QED BY <2>1, <2>3, <2>5
<1> HIDE DEF S, Fits
<1>4. ASSUME NEW T \in SUBSET (1 .. n), T # {}, NEW p \in P[T \ {Max(T)}]
      PROVE  /\ ResolveCollision(p, c[Max(T)]) \in P[T]
             /\ step[<<p, Max(T)>>] = ResolveCollision(p, c[Max(T)])
  <2>1. T \in SUBSET (0 .. n)
    OBVIOUS
  <2>2. PICK k \in T : k = Max(T)
    BY <1>1, <1>4, <2>1, MaxOfBounded
  <2>3. p \in S /\ Fits(p, T \ {k})
    BY <1>4, <2>2
  <2>4. ResolveCollision(p, c[k]) \in P[T]
    BY <1>3, <2>3
  <2>5. step[<<p, k>>] = ResolveCollision(p, c[k])
    BY <2>3
  <2> HIDE DEF step, P
  <2> QED BY <2>2, <2>4, <2>5
<1>5. P \in [SUBSET (1 .. n) -> SUBSET S] /\ first \in P[{}]
  BY <1>2 DEF S
<1>6. \E g : Folds(g)
  <2> HIDE DEF P, step, n
  <2>1. Preserves(n, S, P, first, step)
    BY <1>4, <1>5 DEF Preserves
  <2>2. PICK g : FoldsBy(g, n, S, first, step) /\ \A T \in SUBSET (1 .. n) : g[T] \in P[T]
    BY <1>1, <2>1, FoldExists
  <2>3. \A T \in SUBSET (1 .. n) : g[T] = IF T = {} THEN first ELSE ResolveCollision(g[T \ {Max(T)}], c[Max(T)])
    BY <1>4, <2>2 DEF FoldsBy
  <2>4. g = [T \in SUBSET (1 .. n) |-> g[T]]
    BY <2>2 DEF FoldsBy
  <2>5. g = [T \in SUBSET (1 .. n) |-> IF T = {} THEN first ELSE ResolveCollision(g[T \ {Max(T)}], c[Max(T)])]
    BY <2>3, <2>4
  <2>6. Folds(g)
    BY <1>1, <2>5, Zenon
  <2> HIDE DEF Folds
  <2> QED BY <2>6
<1>7. PICK h : h = CHOOSE g : Folds(g)
  OBVIOUS
<1>8. Folds(h)
  BY <1>6, <1>7, Zenon
<1>9. \A T \in SUBSET (1 .. n) : h[T] = IF T = {} THEN first ELSE ResolveCollision(h[T \ {Max(T)}], c[Max(T)])
  BY <1>1, <1>8
<1>10. all = h[DOMAIN c]
  BY <1>7, Zenon DEF FoldLeft, MapThenFoldSet
<1> DEFINE G == {T \in SUBSET (1 .. n) : h[T] \in P[T]}
<1>11. SUBSET (1 .. n) \subseteq G
  <2>1. {} \in G
    BY <1>5, <1>9
  <2>2. ASSUME NEW T \in SUBSET (1 .. n), T # {}, T \ {Max(T)} \in G PROVE T \in G
    <3> HIDE DEF P, step
    <3>1. h[T \ {Max(T)}] \in P[T \ {Max(T)}]
      BY <2>2
    <3>2. h[T] = ResolveCollision(h[T \ {Max(T)}], c[Max(T)])
      BY <1>9, <2>2
    <3>3. ResolveCollision(h[T \ {Max(T)}], c[Max(T)]) \in P[T]
      BY <1>4, <2>2, <3>1
    <3> QED BY <3>2, <3>3
  <2> HIDE DEF G, P, n
  <2> QED BY <1>1, <2>1, <2>2, IndexInduction
<1>12. all \in S /\ Fits(all, 1 .. n)
  <2>1. 1 .. n \in SUBSET (1 .. n) /\ h[1 .. n] \in P[1 .. n]
    BY <1>11
  <2>2. h[1 .. n] \in {p \in S : Fits(p, 1 .. n)}
    BY <2>1
  <2> HIDE DEF n, P, G
  <2> QED BY <1>1, <1>10, <2>2
<1> QED BY <1>12 DEF S, Fits

LEMMA PlanSettles ==
  ASSUME NEW rows \in Seq(Rows), NEW codes \in SUBSET Modules, NEW D, NEW byName \in [D -> Modules]
  PROVE  \E p \in PlansOf(codes, byName) :
           /\ Plan(rows, codes, byName) = [to |-> p.to, create |-> p.create]
           /\ \A k \in DOMAIN Wanted(rows) : Settled(p, Wanted(rows)[k])
<1>1. PICK w \in WantedOf(rows, DOMAIN rows) : w = Wanted(rows)
  BY WantedFits
<1>2. w \in Seq(Rows) /\ \A j, k \in DOMAIN w : w[j].module = w[k].module => j = k
  BY DEF WantedOf
<1>3. PICK first : first = FoldLeft(Resolve, NothingPlanned(codes, byName), w)
  OBVIOUS
<1>4. /\ first \in PlansOf(codes, byName)
      /\ \A s \in Range(first.collisions) : s \in Range(w)
      /\ \A k \in DOMAIN w : Settled(first, w[k]) \/ w[k] \in Range(first.collisions)
  BY <1>2, <1>3, FirstFits
<1>5. PICK c \in Seq(Rows) : c = first.collisions
  BY <1>4 DEF PlansOf
<1>6. PICK all : all = FoldLeft(ResolveCollision, first, c)
  OBVIOUS
<1>7. all \in PlansOf(codes, byName) /\ \A k \in DOMAIN w : Settled(all, w[k])
  BY <1>2, <1>4, <1>5, <1>6, AllFits
<1>8. Plan(rows, codes, byName) = [to |-> all.to, create |-> all.create]
  BY <1>1, <1>3, <1>5, <1>6 DEF Plan
<1> QED BY <1>1, <1>7, <1>8

-------------------------------------------------------------------------------
(* What requests, previews and the modules they create are in between. *)

RestOK ==
  /\ modules \in Maps(Modules, Names)
  /\ linked \in Codes \cup {None}
  /\ store \in [Previews -> Entry]
  /\ changes \in 0 .. MaxChanges
  /\ pc \in [Writers -> Steps]
  /\ local \in [Writers -> Local]

StoreFits == \A v \in Previews : RowsFit(store[v].rows)

\* A create knows the code it is about to insert and has an attempt left when it reads again.
AttemptFits(q) ==
  /\ pc[q] = "new" => local[q].attempt = 0
  /\ pc[q] = "read" => local[q].attempt < MaxAttempts
  /\ pc[q] \in {"read", "insert"} => local[q].code \in Codes

\* Whoever inserts a module has found its code free.
HeldModulesAreNew == \A m \in Modules : held[m] # None => m \notin DOMAIN modules

\* The rows of module code m go to a module of that name, or to one the plan creates with it.
Planned(plan, m, name) ==
  \/ plan.to[m] \in DOMAIN modules /\ modules[plan.to[m]] = name
  \/ \E k \in DOMAIN plan.create : plan.create[k] = [code |-> plan.to[m], name |-> name]

\* A row of another name whose own ID names the code of r.
Overruled(rows, r) == \E s \in Range(rows) : s.name # r.name /\ ~s.derived /\ s.module = r.module

PlanFits(i) ==
  LET plan == local[i].plan IN
  /\ \A j, k \in DOMAIN plan.create : plan.create[j].code = plan.create[k].code => j = k
  /\ \A r \in Range(local[i].rows) : r.valid /\ r.derived =>
       Planned(plan, r.module, r.name) \/ Overruled(local[i].rows, r)
  /\ pc[i] # "create modules" => \A k \in DOMAIN plan.create : held[plan.create[k].code] = i

ImportJoins(i) ==
  /\ RowsFit(local[i].rows)
  /\ pc[i] \in {"create modules", "codes", "updatable", "rows"} => PlanFits(i)
  /\ pc[i] = "done" =>
       \A r \in Range(local[i].rows) : r.valid /\ r.derived =>
         \/ local[i].plan.to[r.module] \in DOMAIN modules /\ modules[local[i].plan.to[r.module]] = r.name
         \/ Overruled(local[i].rows, r)

JInv ==
  /\ RestOK /\ StoreFits /\ HeldModulesAreNew
  /\ \A q \in Creates \cup Links : AttemptFits(q)
  /\ \A i \in Confirms : ImportJoins(i)

ModulesStay == \A m \in DOMAIN modules : m \in DOMAIN modules' /\ modules'[m] = modules[m]

LEMMA NoRowsFit == RowsFit(<<>>)
BY DEF RowsFit, Range

LEMMA InitJInv == Init => JInv
<1> SUFFICES ASSUME Init PROVE JInv
  OBVIOUS
<1>1. /\ pc = [q \in Writers |-> "new"] /\ local = [q \in Writers |-> Blank]
      /\ held = [x \in Codes \cup Modules |-> None] /\ modules = Existing /\ linked = None /\ changes = 0
      /\ store = [v \in Previews |-> [state |-> "absent", rows |-> <<>>]]
  BY DEF Init
<1>2. Blank \in Local
  <2>1. <<>> \in Maps(Modules, Modules) /\ <<>> \in Seq([code : Modules, name : Names]) /\ <<>> \in Seq(Rows)
    BY EmptyMap
  <2>2. [to |-> <<>>, create |-> <<>>] \in Plans
    BY <2>1 DEF Plans
  <2> QED BY <2>1, <2>2, BoundsAssumption DEF Blank, Local
<1>3. RestOK
  BY <1>1, <1>2, ModulesAssumption, BoundsAssumption DEF RestOK, Entry, Steps, Ends
<1>4. StoreFits
  BY <1>1, NoRowsFit DEF StoreFits
<1>5. HeldModulesAreNew
  BY <1>1 DEF HeldModulesAreNew
<1>6. \A q \in Creates \cup Links : AttemptFits(q)
  BY <1>1 DEF AttemptFits, Writers, Blank
<1>7. \A i \in Confirms : ImportJoins(i)
  BY <1>1, NoRowsFit DEF ImportJoins, Writers, Blank
<1> QED BY <1>3, <1>4, <1>5, <1>6, <1>7 DEF JInv

LEMMA ElementsFit ==
  ASSUME NEW S, NEW s \in Seq(S)
  PROVE  \A k \in DOMAIN s : s[k] \in S
OBVIOUS

LEMMA NarrowerSeq ==
  ASSUME NEW S, NEW T, NEW s \in Seq(S), \A k \in DOMAIN s : s[k] \in T
  PROVE  s \in Seq(T)
OBVIOUS

LEMMA CreateCodes ==
  ASSUME RestOK, NEW q \in Writers
  PROVE  \A k \in DOMAIN local[q].plan.create : local[q].plan.create[k].code \in Modules
<1>1. local[q].plan \in Plans
  BY DEF RestOK, Local
<1>2. PICK create \in Seq([code : Modules, name : Names]) : create = local[q].plan.create
  BY <1>1 DEF Plans
<1>3. \A k \in DOMAIN create : create[k] \in [code : Modules, name : Names]
  BY ElementsFit
<1> QED BY <1>2, <1>3

\* An import that does not move keeps what it holds and where its rows go.
LEMMA ImportJoinsStays ==
  ASSUME RestOK, ModulesStay, NEW i \in Confirms, ImportJoins(i), UNCHANGED <<pc[i], local[i]>>,
         \A m \in Modules : held[m] = i => held'[m] = i
  PROVE  ImportJoins(i)'
<1> PICK plan : plan = local[i].plan
  OBVIOUS
<1> PICK rows : rows = local[i].rows
  OBVIOUS
<1>1. local'[i].plan = plan /\ local'[i].rows = rows /\ pc'[i] = pc[i]
  OBVIOUS
<1>2. \A k \in DOMAIN plan.create : plan.create[k].code \in Modules
  BY CreateCodes DEF Writers
<1>3. \A m, name : Planned(plan, m, name) => Planned(plan, m, name)'
  BY DEF Planned, ModulesStay
<1>4. PlanFits(i) => PlanFits(i)'
  <2> SUFFICES ASSUME PlanFits(i) PROVE PlanFits(i)'
    OBVIOUS
  <2>1. /\ \A j, k \in DOMAIN plan.create : plan.create[j].code = plan.create[k].code => j = k
        /\ \A r \in Range(rows) : r.valid /\ r.derived => Planned(plan, r.module, r.name) \/ Overruled(rows, r)
        /\ pc[i] # "create modules" => \A k \in DOMAIN plan.create : held[plan.create[k].code] = i
    BY DEF PlanFits
  <2>2. \A r \in Range(rows) : r.valid /\ r.derived => Planned(plan, r.module, r.name)' \/ Overruled(rows, r)
    BY <1>3, <2>1
  <2>3. pc'[i] # "create modules" => \A k \in DOMAIN plan.create : held'[plan.create[k].code] = i
    BY <1>1, <1>2, <2>1
  <2> QED BY <1>1, <2>1, <2>2, <2>3 DEF PlanFits, Overruled
<1>5. RowsFit(rows) => RowsFit(rows)'
  BY DEF RowsFit
<1>6. ASSUME NEW r \in Range(rows), r.valid, r.derived, pc[i] = "done"
      PROVE  \/ plan.to[r.module] \in DOMAIN modules' /\ modules'[plan.to[r.module]] = r.name
             \/ Overruled(rows, r)
  BY <1>6 DEF ImportJoins, ModulesStay
<1>7. \A r : Overruled(rows, r) => Overruled(rows, r)'
  BY DEF Overruled
<1> QED BY <1>1, <1>4, <1>5, <1>6, <1>7 DEF ImportJoins

\* One request moves.
LEMMA OneJoins ==
  ASSUME JInv, RestOK', StoreFits', HeldModulesAreNew', ModulesStay, NEW q \in Writers,
         \A p \in Writers \ {q} : pc'[p] = pc[p] /\ local'[p] = local[p],
         \A m \in Modules : held'[m] = held[m] \/ held[m] \in {q, None},
         q \in Creates \cup Links => AttemptFits(q)',
         q \in Confirms => ImportJoins(q)'
  PROVE  JInv'
<1>1. Creates \cup Links \subseteq Writers /\ Confirms \subseteq Writers /\ None \notin Writers
  BY Kinds DEF Writers
<1>2. ASSUME NEW p \in Creates \cup Links PROVE AttemptFits(p)'
  BY <1>1, <1>2 DEF JInv, AttemptFits
<1>3. ASSUME NEW i \in Confirms PROVE ImportJoins(i)'
  <2>1. CASE i = q
    BY <2>1
  <2>2. CASE i # q
    <3>1. UNCHANGED <<pc[i], local[i]>> /\ ImportJoins(i) /\ RestOK
      BY <1>1, <2>2 DEF JInv
    <3>2. \A m \in Modules : held[m] = i => held'[m] = i
      BY <1>1, <2>2
    <3> QED BY <3>1, <3>2, ImportJoinsStays
  <2> QED BY <2>1, <2>2
<1> QED BY <1>2, <1>3 DEF JInv

\* No request moves.
LEMMA NoneJoins ==
  ASSUME JInv, RestOK', StoreFits', HeldModulesAreNew', ModulesStay, UNCHANGED <<pc, local, held>>
  PROVE  JInv'
<1>1. \A p \in Creates \cup Links : AttemptFits(p)'
  BY DEF JInv, AttemptFits
<1>2. ASSUME NEW i \in Confirms PROVE ImportJoins(i)'
  BY ImportJoinsStays DEF JInv
<1> QED BY <1>1, <1>2 DEF JInv

\* Assigning to one request.
LEMMA LocalStays ==
  ASSUME RestOK, NEW q \in Writers, NEW step \in Steps, pc' = [pc EXCEPT ![q] = step] \/ (pc' = pc /\ step = pc[q]),
         NEW at \in Local, local' = [local EXCEPT ![q] = at]
  PROVE  /\ pc' \in [Writers -> Steps] /\ local' \in [Writers -> Local]
         /\ pc'[q] = step /\ local'[q] = at
         /\ \A p \in Writers \ {q} : pc'[p] = pc[p] /\ local'[p] = local[p]
BY DEF RestOK

LEMMA ReadCodesFit ==
  ASSUME RestOK, NEW q \in Writers, NEW m, ReadCodes(q, m), local[q].attempt < MaxAttempts
  PROVE  \E at \in Local : local' = [local EXCEPT ![q] = at] /\ at.code \in Codes
<1> PICK code \in Codes : code = NextCode(m, Used)
  BY DEF ReadCodes
<1> DEFINE at == [local[q] EXCEPT !.attempt = @ + 1, !.code = code]
<1>1. local[q] \in Local /\ local \in [Writers -> Local]
  BY DEF RestOK
<1>2. local[q].attempt + 1 \in 0 .. MaxAttempts
  BY <1>1, BoundsAssumption DEF Local
<1>3. at \in Local /\ at.code = code
  BY <1>1, <1>2 DEF Local
<1>4. local' = [local EXCEPT ![q] = at]
  BY <1>1 DEF ReadCodes, Local
<1> HIDE DEF at
<1> QED BY <1>3, <1>4

\* Nothing but the cases, and what q remembers.
LEMMA OnlyLocal ==
  ASSUME JInv, UNCHANGED <<modules, linked, store, changes>>
  PROVE  /\ pc' \in [Writers -> Steps] /\ local' \in [Writers -> Local] => RestOK'
         /\ StoreFits' /\ ModulesStay
         /\ (\A m \in Modules : held'[m] \in {held[m], None}) => HeldModulesAreNew'
BY DEF JInv, RestOK, StoreFits, ModulesStay, HeldModulesAreNew

LEMMA CreateJoins ==
  ASSUME JInv, NEW c \in Creates, Create(c)
  PROVE  JInv'
<1>1. c \in Writers /\ c \notin Confirms /\ c # None
  BY Kinds DEF Writers
<1>2. RestOK /\ AttemptFits(c)
  BY DEF JInv
<1>3. CASE CreateRead(c)
  <2>1. PICK m : ReadCodes(c, m) /\ pc[c] \in {"new", "read"}
    BY <1>3 DEF CreateRead
  <2>2. local[c].attempt < MaxAttempts
    BY <1>2, <2>1, BoundsAssumption DEF AttemptFits
  <2>3. PICK at \in Local : local' = [local EXCEPT ![c] = at] /\ at.code \in Codes
    BY <1>1, <1>2, <2>1, <2>2, ReadCodesFit
  <2>4. pc' = [pc EXCEPT ![c] = "insert"] /\ "insert" \in Steps /\ UNCHANGED <<modules, held, linked, store, changes>>
    BY <1>3 DEF CreateRead, Steps
  <2>5. /\ pc' \in [Writers -> Steps] /\ local' \in [Writers -> Local]
        /\ pc'[c] = "insert" /\ local'[c] = at
        /\ \A p \in Writers \ {c} : pc'[p] = pc[p] /\ local'[p] = local[p]
    BY <1>1, <1>2, <2>3, <2>4, LocalStays
  <2>6. AttemptFits(c)'
    BY <2>3, <2>5 DEF AttemptFits
  <2> QED BY <1>1, <2>4, <2>5, <2>6, OnlyLocal, OneJoins
<1>4. CASE CreateInsert(c)
  <2>1. PICK step \in {"read", "outrun", "done"} :
          /\ pc' = [pc EXCEPT ![c] = step] /\ pc[c] = "insert"
          /\ step = "read" => local[c].attempt < MaxAttempts
          /\ UNCHANGED <<modules, held, linked, store, local, changes>>
    BY <1>4 DEF CreateInsert, MayRetry
  <2>2. step \in Steps
    BY DEF Steps, Ends
  <2>3. /\ pc' \in [Writers -> Steps] /\ local' \in [Writers -> Local]
        /\ pc'[c] = step /\ local'[c] = local[c]
        /\ \A p \in Writers \ {c} : pc'[p] = pc[p] /\ local'[p] = local[p]
    BY <1>1, <1>2, <2>1, <2>2 DEF RestOK
  <2>4. AttemptFits(c)'
    BY <1>2, <2>1, <2>3 DEF AttemptFits
  <2> QED BY <1>1, <2>1, <2>3, <2>4, OnlyLocal, OneJoins
<1> QED BY <1>3, <1>4 DEF Create

\* Any request's end by a failure.
LEMMA RollbackJoins ==
  ASSUME IInv, JInv, NEW q \in Links \cup Confirms, NEW step \in {"refused", "outrun", "dead"}, Rollback(q, step),
         UNCHANGED <<modules, linked, store, local, changes>>
  PROVE  JInv'
<1>1. q \in Writers /\ q \notin Creates
  BY Kinds DEF Writers
<1>2. RestOK /\ step \in Steps
  BY DEF JInv, Steps, Ends
<1>3. /\ pc' \in [Writers -> Steps] /\ local' \in [Writers -> Local]
      /\ pc'[q] = step /\ local'[q] = local[q]
      /\ \A p \in Writers \ {q} : pc'[p] = pc[p] /\ local'[p] = local[p]
  BY <1>1, <1>2 DEF RestOK, Rollback
<1>4. \A m \in Modules : held'[m] \in {held[m], None} /\ (held'[m] = held[m] \/ held[m] = q)
  BY DEF Rollback, Release, IInv, RowsOK
<1>5. AttemptFits(q)'
  BY <1>3 DEF AttemptFits
<1>6. q \in Confirms => ImportJoins(q)'
  BY <1>3 DEF ImportJoins, JInv
<1> QED BY <1>1, <1>3, <1>4, <1>5, <1>6, OnlyLocal, OneJoins

LEMMA LinkJoins ==
  ASSUME IInv, JInv, NEW l \in Links, Link(l)
  PROVE  JInv'
<1>1. l \in Writers /\ l \notin Confirms
  BY Kinds DEF Writers
<1>2. RestOK /\ AttemptFits(l) /\ held \in [Codes \cup Modules -> Links \cup Confirms \cup {None}]
  BY DEF JInv, IInv, RowsOK
<1>3. CASE LinkRead(l) /\ linked = None
  <2>1. PICK m : ReadCodes(l, m) /\ pc[l] = "new"
    BY <1>3 DEF LinkRead
  <2>2. local[l].attempt < MaxAttempts
    BY <1>2, <2>1, BoundsAssumption DEF AttemptFits
  <2>3. PICK at \in Local : local' = [local EXCEPT ![l] = at] /\ at.code \in Codes
    BY <1>1, <1>2, <2>1, <2>2, ReadCodesFit
  <2>4. pc' = [pc EXCEPT ![l] = "insert"] /\ "insert" \in Steps /\ UNCHANGED <<modules, held, linked, store, changes>>
    BY <1>3 DEF LinkRead, Steps
  <2>5. /\ pc' \in [Writers -> Steps] /\ local' \in [Writers -> Local]
        /\ pc'[l] = "insert" /\ local'[l] = at
        /\ \A p \in Writers \ {l} : pc'[p] = pc[p] /\ local'[p] = local[p]
    BY <1>1, <1>2, <2>3, <2>4, LocalStays
  <2>6. AttemptFits(l)'
    BY <2>3, <2>5 DEF AttemptFits
  <2> QED BY <1>1, <2>4, <2>5, <2>6, OnlyLocal, OneJoins
<1>4. ASSUME NEW step \in {"refused", "outrun"}, pc' = [pc EXCEPT ![l] = step],
             UNCHANGED <<modules, held, linked, store, local, changes>>
      PROVE  JInv'
  <2>1. step \in Steps
    BY DEF Steps, Ends
  <2>2. /\ pc' \in [Writers -> Steps] /\ local' \in [Writers -> Local]
        /\ pc'[l] = step /\ local'[l] = local[l]
        /\ \A p \in Writers \ {l} : pc'[p] = pc[p] /\ local'[p] = local[p]
    BY <1>1, <1>2, <1>4, <2>1 DEF RestOK
  <2>3. AttemptFits(l)'
    BY <2>2 DEF AttemptFits
  <2> QED BY <1>1, <1>4, <2>2, <2>3, OnlyLocal, OneJoins
<1>5. CASE LinkInsert(l) /\ ~Taken(local[l].code)
  <2>1. PICK code \in Codes : code = local[l].code
    BY <1>2, <1>5 DEF LinkInsert, AttemptFits
  <2>2. held' = [held EXCEPT ![code] = l] /\ UNCHANGED <<pc, modules, linked, store, local, changes>>
    BY <1>5, <2>1 DEF LinkInsert
  <2>3. \A m \in Modules : held'[m] = held[m]
    BY <1>2, <2>2, ModulesAssumption
  <2>4. pc' \in [Writers -> Steps] /\ local' \in [Writers -> Local] /\ AttemptFits(l)'
    BY <1>2, <2>2 DEF RestOK, AttemptFits
  <2> QED BY <1>1, <2>2, <2>3, <2>4, OnlyLocal, OneJoins
<1>6. CASE LinkCommit(l) /\ linked # None
  BY <1>6, RollbackJoins DEF LinkCommit
<1>7. CASE LinkCommit(l) /\ linked = None
  <2>1. PICK code \in Codes : code = local[l].code
    BY <1>2, <1>7 DEF LinkCommit, AttemptFits
  <2>2. /\ linked' = code /\ Release(l) /\ pc' = [pc EXCEPT ![l] = "done"]
        /\ UNCHANGED <<modules, store, local, changes>>
    BY <1>7, <2>1 DEF LinkCommit
  <2>3. /\ pc' \in [Writers -> Steps] /\ local' \in [Writers -> Local]
        /\ pc'[l] = "done" /\ local'[l] = local[l]
        /\ \A p \in Writers \ {l} : pc'[p] = pc[p] /\ local'[p] = local[p]
    BY <1>1, <1>2, <2>2 DEF RestOK, Steps, Ends
  <2>4. \A m \in Modules : held'[m] \in {held[m], None} /\ (held'[m] = held[m] \/ held[m] = l)
    BY <1>2, <2>2 DEF Release
  <2>5. RestOK' /\ StoreFits' /\ ModulesStay /\ HeldModulesAreNew'
    BY <2>2, <2>3, <2>4 DEF JInv, RestOK, StoreFits, ModulesStay, HeldModulesAreNew
  <2>6. AttemptFits(l)'
    BY <2>3 DEF AttemptFits
  <2> QED BY <1>1, <2>3, <2>4, <2>5, <2>6, OneJoins
<1> QED BY <1>3, <1>4, <1>5, <1>6, <1>7 DEF Link, LinkRead, LinkInsert

\* A step of an import before its commit that changes no module it holds: what is left to show is
\* where its rows go.
LEMMA ConfirmMoves ==
  ASSUME IInv, JInv, NEW i \in Confirms, NEW step \in Steps, NEW at \in Local,
         pc' = [pc EXCEPT ![i] = step] \/ (pc' = pc /\ step = pc[i]), local' = [local EXCEPT ![i] = at],
         \A m \in Modules : held'[m] = held[m], UNCHANGED <<modules, linked, store, changes>>,
         RowsFit(at.rows), step # "done",
         step \in {"create modules", "codes", "updatable", "rows"} =>
           (pc'[i] = step /\ local'[i] = at => PlanFits(i)')
  PROVE  JInv'
<1>1. i \in Writers /\ i \notin Creates \cup Links /\ RestOK
  BY Kinds DEF Writers, JInv
<1>2. /\ pc' \in [Writers -> Steps] /\ local' \in [Writers -> Local]
      /\ pc'[i] = step /\ local'[i] = at
      /\ \A p \in Writers \ {i} : pc'[p] = pc[p] /\ local'[p] = local[p]
  BY <1>1, LocalStays
<1>3. ImportJoins(i)'
  BY <1>2 DEF ImportJoins
<1> QED BY <1>1, <1>2, <1>3, OnlyLocal, OneJoins

LEMMA ConfirmTakeJoins ==
  ASSUME IInv, JInv, NEW i \in Confirms, ConfirmTake(i)
  PROVE  JInv'
<1>1. i \in Writers /\ i \notin Creates \cup Links /\ RestOK /\ StoreFits /\ local[i] \in Local
  BY Kinds DEF Writers, JInv, RestOK
<1>2. PICK v \in Previews : \/ Take(i, v)
                            \/ store[v].state = "gone" /\ Goto(i, "refused") /\ UNCHANGED <<store, local>>
  BY DEF ConfirmTake
<1>3. UNCHANGED <<modules, held, linked, changes>>
  BY DEF ConfirmTake
<1>4. CASE Take(i, v)
  <2> DEFINE at == [local[i] EXCEPT !.rows = store[v].rows]
  <2>1. store[v] \in Entry /\ RowsFit(store[v].rows)
    BY <1>1 DEF RestOK, StoreFits
  <2>2. at \in Local /\ at.rows = store[v].rows
    BY <1>1, <2>1 DEF Local, Entry
  <2>3. local' = [local EXCEPT ![i] = at] /\ pc' = [pc EXCEPT ![i] = "modules"]
    BY <1>1, <1>4 DEF Take, RestOK
  <2> HIDE DEF at
  <2>4. /\ pc' \in [Writers -> Steps] /\ local' \in [Writers -> Local]
        /\ pc'[i] = "modules" /\ local'[i] = at
        /\ \A p \in Writers \ {i} : pc'[p] = pc[p] /\ local'[p] = local[p]
    BY <1>1, <2>2, <2>3 DEF RestOK, Steps
  <2>5. Gone \in Entry /\ RowsFit(Gone.rows)
    BY NoRowsFit DEF Gone, Entry
  <2>6. store' \in [Previews -> Entry] /\ StoreFits'
    BY <1>1, <1>4, <2>5 DEF Take, RestOK, StoreFits
  <2>7. RestOK' /\ ModulesStay /\ HeldModulesAreNew'
    BY <1>1, <1>3, <2>4, <2>6 DEF RestOK, ModulesStay, HeldModulesAreNew, JInv
  <2>8. ImportJoins(i)'
    BY <2>1, <2>2, <2>4 DEF ImportJoins
  <2> QED BY <1>1, <1>3, <2>4, <2>6, <2>7, <2>8, OneJoins
<1>5. CASE Goto(i, "refused") /\ UNCHANGED <<store, local>>
  <2>1. local' = [local EXCEPT ![i] = local[i]] /\ "refused" \in Steps /\ RowsFit(local[i].rows)
    BY <1>1, <1>5 DEF RestOK, Steps, Ends, JInv, ImportJoins
  <2> QED BY <1>1, <1>3, <1>5, <2>1, ConfirmMoves
<1> QED BY <1>2, <1>4, <1>5

\* ensureModules plans for what it reads.
LEMMA ReadModulesJoins ==
  ASSUME IInv, JInv, NEW i \in Confirms, ReadModules(i)
  PROVE  JInv'
<1>1. /\ i \in Writers /\ RestOK /\ local[i] \in Local
      /\ modules \in [DOMAIN modules -> Names] /\ DOMAIN modules \in SUBSET Modules
  BY MapsAreFunctions DEF Writers, JInv, RestOK
<1>2. PICK byName \in [Range(modules) -> DOMAIN modules] :
         LET plan == Plan(local[i].rows, DOMAIN modules, byName) IN
         /\ \A n \in Range(modules) : modules[byName[n]] = n
         /\ \A m \in Range(plan.create) : m.code # None
         /\ local' = [local EXCEPT ![i].plan = plan]
  BY DEF ReadModules
<1> PICK plan : plan = Plan(local[i].rows, DOMAIN modules, byName)
  OBVIOUS
<1>3. /\ \A n \in Range(modules) : modules[byName[n]] = n
      /\ \A m \in Range(plan.create) : m.code # None
      /\ local' = [local EXCEPT ![i].plan = plan]
  BY <1>2
<1> PICK rows \in Seq(Rows) : rows = local[i].rows
  BY <1>1 DEF Local
<1>4. byName \in [Range(modules) -> Modules]
  BY <1>1
<1>5. PICK p \in PlansOf(DOMAIN modules, byName) :
        /\ plan = [to |-> p.to, create |-> p.create]
        /\ \A k \in DOMAIN Wanted(rows) : Settled(p, Wanted(rows)[k])
  BY <1>1, <1>3, <1>4, PlanSettles
<1>6. p.create \in Seq(Creation) /\ p.to \in Maps(Modules, Modules \cup {None}) /\ p.byName = byName
  BY DEF PlansOf
<1>7. plan.to = p.to /\ plan.create = p.create
  BY <1>5
<1>8. \A k \in DOMAIN p.create : p.create[k].code # None
  BY <1>3, <1>7 DEF Range
<1>9. plan \in Plans
  <2>1. \A k \in DOMAIN p.create : p.create[k] \in [code : Modules, name : Names]
    <3> SUFFICES ASSUME NEW k \in DOMAIN p.create PROVE p.create[k] \in [code : Modules, name : Names]
      OBVIOUS
    <3>1. PICK m \in Creation : m = p.create[k]
      BY <1>6, ElementsFit
    <3> QED BY <1>8, <3>1 DEF Creation
  <2>2. p.create \in Seq([code : Modules, name : Names])
    BY <1>6, <2>1, NarrowerSeq
  <2>3. p.to \in [DOMAIN p.to -> Modules \cup {None}] /\ DOMAIN p.to \subseteq Modules
    BY <1>6, MapsAreFunctions
  <2>4. \A m \in DOMAIN p.to : p.to[m] # None
    BY <1>8 DEF PlansOf
  <2>5. p.to \in [DOMAIN p.to -> Modules]
    BY <2>3, <2>4
  <2>6. p.to \in Maps(Modules, Modules)
    BY <2>3, <2>5, MapsAreFunctions
  <2> QED BY <1>5, <2>2, <2>6 DEF Plans
<1> DEFINE at == [local[i] EXCEPT !.plan = plan]
<1>10. at \in Local /\ at.rows = rows /\ at.plan = plan
  BY <1>1, <1>9 DEF Local
<1>11. local' = [local EXCEPT ![i] = at] /\ pc' = [pc EXCEPT ![i] = "create modules"] /\ "create modules" \in Steps
  BY <1>1, <1>3 DEF ReadModules, RestOK, Steps
<1>12. \A j, k \in DOMAIN plan.create : plan.create[j].code = plan.create[k].code => j = k
  BY <1>7, <1>8 DEF PlansOf
<1>13. RowsFit(rows)
  BY DEF JInv, ImportJoins
<1>14. ASSUME NEW r \in Range(rows), r.valid, r.derived
       PROVE  Planned(plan, r.module, r.name) \/ Overruled(rows, r)
  <2>1. PICK w \in WantedOf(rows, DOMAIN rows) : w = Wanted(rows)
    BY WantedFits
  <2>2. PICK k \in DOMAIN rows : r = rows[k]
    BY DEF Range
  <2>3. PICK j \in DOMAIN w : w[j].module = r.module
    BY <1>14, <2>2 DEF WantedOf
  <2>4. PICK s \in Range(rows) : s = w[j]
    BY DEF WantedOf
  <2>5. Settled(p, s)
    BY <1>5, <2>1, <2>4
  <2>6. CASE s.derived
    <3>1. s.name = r.name
      BY <1>13, <1>14, <2>3, <2>4, <2>6 DEF RowsFit
    <3>2. CASE r.name \in DOMAIN byName /\ p.to[r.module] = byName[r.name]
      <4>1. plan.to[r.module] \in DOMAIN modules /\ modules[plan.to[r.module]] = r.name
        BY <1>3, <1>7, <3>2
      <4> QED BY <4>1 DEF Planned
    <3>3. CASE \E n \in DOMAIN p.create : p.create[n] = [code |-> p.to[r.module], name |-> r.name]
      BY <1>7, <3>3 DEF Planned
    <3> QED BY <1>6, <2>3, <2>4, <2>5, <2>6, <3>1, <3>2, <3>3 DEF Settled
  <2>7. CASE ~s.derived
    <3>1. s.name # r.name
      BY <1>13, <1>14, <2>7 DEF RowsFit
    <3> QED BY <2>3, <2>4, <2>7, <3>1 DEF Overruled
  <2> QED BY <2>6, <2>7
<1>15. UNCHANGED <<cases, modules, held, linked, store, changes>>
  BY DEF ReadModules
<1> HIDE DEF at
<1>16. ASSUME pc'[i] = "create modules", local'[i] = at PROVE PlanFits(i)'
  <2>1. Range(rows) = Range(local'[i].rows) /\ local'[i].plan = plan /\ local'[i].rows = rows
    BY <1>10, <1>16
  <2>2. \A r \in Range(rows) : r.valid /\ r.derived => Planned(plan, r.module, r.name)' \/ Overruled(rows, r)
    BY <1>14, <1>15 DEF Planned
  <2> QED BY <1>12, <1>16, <2>1, <2>2 DEF PlanFits, Overruled
<1> QED BY <1>10, <1>11, <1>13, <1>15, <1>16, ConfirmMoves

\* The next module of the plan, which CreateModule waits for or inserts.
LEMMA NextToCreate ==
  ASSUME RestOK, NEW i \in Writers,
         NEW left, left = {k \in DOMAIN local[i].plan.create : held[local[i].plan.create[k].code] # i}, left # {}
  PROVE  local[i].plan.create[Min(left)].code \in Modules
<1>1. local[i].plan \in Plans
  BY DEF RestOK, Local
<1>2. PICK create \in Seq([code : Modules, name : Names]) : create = local[i].plan.create
  BY <1>1 DEF Plans
<1>3. left \in SUBSET Nat /\ left \subseteq DOMAIN create
  BY <1>2
<1>4. Min(left) \in DOMAIN create
  BY <1>3, MinOfNaturals
<1> QED BY <1>2, <1>4, CreateCodes

\* What a step of CreateModule does: it is done, undone, or inserts a module nobody has.
LEMMA CreateModuleSteps ==
  ASSUME RestOK, NEW i \in Confirms, CreateModule(i)
  PROVE  /\ pc[i] = "create modules" /\ UNCHANGED <<cases, modules, linked, store, local, changes>>
         /\ \/ /\ pc' = [pc EXCEPT ![i] = "codes"] /\ UNCHANGED held
               /\ \A k \in DOMAIN local[i].plan.create : held[local[i].plan.create[k].code] = i
            \/ Rollback(i, "refused")
            \/ \E code \in Modules : /\ code \notin DOMAIN modules /\ held[code] \in {i, None}
                                     /\ held' = [held EXCEPT ![code] = i] /\ UNCHANGED pc
<1> DEFINE create == local[i].plan.create
           left == {k \in DOMAIN create : held[create[k].code] # i}
           code == create[Min(left)].code
<1>1. pc[i] = "create modules" /\ UNCHANGED <<cases, modules, linked, store, local, changes>>
  BY DEF CreateModule
<1>2. CASE left = {}
  <2>1. pc' = [pc EXCEPT ![i] = "codes"] /\ UNCHANGED held
    BY <1>2 DEF CreateModule
  <2> QED BY <1>1, <1>2, <2>1
<1>3. CASE left # {}
  <2>1. code \in Modules
    <3>1. PICK l : l = left
      OBVIOUS
    <3>2. create[Min(l)].code \in Modules
      BY <1>3, <3>1, NextToCreate DEF Writers
    <3> QED BY <3>1, <3>2
  <2>2. /\ ~HeldByOther(i, code)
        /\ IF code \in DOMAIN modules THEN Rollback(i, "refused")
                                     ELSE held' = [held EXCEPT ![code] = i] /\ UNCHANGED pc
    BY <1>3 DEF CreateModule
  <2> HIDE DEF code
  <2> QED BY <1>1, <2>1, <2>2 DEF HeldByOther
<1> QED BY <1>2, <1>3

LEMMA CreateModuleJoins ==
  ASSUME IInv, JInv, NEW i \in Confirms, CreateModule(i)
  PROVE  JInv'
<1>1. /\ i \in Writers /\ i \notin Creates \cup Links /\ RestOK /\ local[i] \in Local /\ ImportJoins(i)
      /\ held \in [Codes \cup Modules -> Links \cup Confirms \cup {None}]
  BY Kinds DEF Writers, JInv, RestOK, IInv, RowsOK
<1>2. pc[i] = "create modules" /\ UNCHANGED <<cases, modules, linked, store, local, changes>>
  BY <1>1, CreateModuleSteps
<1>3. PlanFits(i) /\ RowsFit(local[i].rows)
  BY <1>1, <1>2 DEF ImportJoins
<1>4. local' = [local EXCEPT ![i] = local[i]]
  BY <1>1, <1>2 DEF RestOK
<1>5. CASE /\ pc' = [pc EXCEPT ![i] = "codes"] /\ UNCHANGED held
           /\ \A k \in DOMAIN local[i].plan.create : held[local[i].plan.create[k].code] = i
  <2>1. PlanFits(i)'
    BY <1>2, <1>3, <1>5 DEF PlanFits, Planned, Overruled
  <2> QED BY <1>1, <1>2, <1>3, <1>4, <1>5, <2>1, ConfirmMoves DEF Steps
<1>6. CASE Rollback(i, "refused")
  BY <1>2, <1>6, RollbackJoins
<1>7. ASSUME NEW code \in Modules, code \notin DOMAIN modules, held[code] \in {i, None},
             held' = [held EXCEPT ![code] = i], UNCHANGED pc
      PROVE  JInv'
  <2>1. \A m \in Modules : held'[m] = IF m = code THEN i ELSE held[m]
    BY <1>1, <1>7
  <2>2. HeldModulesAreNew'
    BY <1>2, <1>7, <2>1 DEF JInv, HeldModulesAreNew
  <2>3. RestOK' /\ StoreFits' /\ ModulesStay
    BY <1>2, <1>7 DEF JInv, RestOK, StoreFits, ModulesStay
  <2>4. PlanFits(i)'
    BY <1>2, <1>3, <1>7 DEF PlanFits, Planned, Overruled
  <2>5. ImportJoins(i)'
    BY <1>2, <1>3, <1>7, <2>4 DEF ImportJoins
  <2>6. \A m \in Modules : held'[m] = held[m] \/ held[m] \in {i, None}
    BY <1>7, <2>1
  <2> QED BY <1>1, <1>2, <1>7, <2>2, <2>3, <2>5, <2>6, OneJoins
<1> QED BY <1>1, <1>5, <1>6, <1>7, CreateModuleSteps

\* The steps after the modules, up to the commit: neither the plan nor the modules change.
LEMMA ConfirmRowsJoin ==
  ASSUME IInv, JInv, NEW i \in Confirms,
         ReadAllCodes(i) \/ ReadUpdatable(i) \/ UpdateRow(i) \/ SkipRow(i) \/ CreateRow(i)
  PROVE  JInv'
<1>1. /\ i \in Writers /\ RestOK /\ local[i] \in Local /\ ImportJoins(i)
      /\ held \in [Codes \cup Modules -> Links \cup Confirms \cup {None}]
  BY DEF Writers, JInv, RestOK, IInv, RowsOK
<1>2. ASSUME NEW step \in {"updatable", "rows"}, NEW at \in Local,
             pc[i] \in {"codes", "updatable", "rows"},
             pc' = [pc EXCEPT ![i] = step] \/ (pc' = pc /\ step = pc[i]), local' = [local EXCEPT ![i] = at],
             at.rows = local[i].rows, at.plan = local[i].plan, UNCHANGED <<modules, linked, store, changes>>,
             UNCHANGED held \/ \E c \in Codes : held' = [held EXCEPT ![c] = i]
      PROVE  JInv'
  <2>1. PlanFits(i) /\ RowsFit(at.rows)
    BY <1>1, <1>2 DEF ImportJoins
  <2>2. \A m \in Modules : held'[m] = held[m]
    BY <1>1, <1>2, ModulesAssumption
  <2>3. ASSUME local'[i] = at, pc'[i] = step PROVE PlanFits(i)'
    <3>1. local'[i].plan = local[i].plan /\ local'[i].rows = local[i].rows /\ UNCHANGED modules
      BY <1>2, <2>3
    <3>2. \A k \in DOMAIN local[i].plan.create :
            pc[i] # "create modules" => held'[local[i].plan.create[k].code] = i
      BY <1>1, <2>1, <2>2, CreateCodes DEF PlanFits
    <3>3. pc[i] # "create modules"
      BY <1>2
    <3> PICK plan : plan = local[i].plan
      OBVIOUS
    <3> PICK rows : rows = local[i].rows
      OBVIOUS
    <3>4. /\ \A j, k \in DOMAIN plan.create : plan.create[j].code = plan.create[k].code => j = k
          /\ \A r \in Range(rows) : r.valid /\ r.derived => Planned(plan, r.module, r.name) \/ Overruled(rows, r)
      BY <2>1 DEF PlanFits
    <3>5. \A r \in Range(rows) : r.valid /\ r.derived => Planned(plan, r.module, r.name)' \/ Overruled(rows, r)
      BY <3>4, <1>2 DEF Planned
    <3> QED BY <3>1, <3>2, <3>3, <3>4, <3>5 DEF PlanFits, Overruled
  <2>4. step \in Steps
    BY DEF Steps
  <2> QED BY <1>2, <2>1, <2>2, <2>3, <2>4, ConfirmMoves
<1>3. CASE ReadAllCodes(i)
  <2> DEFINE at == [local[i] EXCEPT !.known = Used]
  <2>1. at \in Local /\ at.rows = local[i].rows /\ at.plan = local[i].plan
    BY <1>1 DEF Local, Used
  <2>2. local' = [local EXCEPT ![i] = at] /\ pc' = [pc EXCEPT ![i] = "updatable"] /\ pc[i] = "codes"
    BY <1>1, <1>3 DEF ReadAllCodes, RestOK
  <2> HIDE DEF at
  <2> QED BY <1>2, <1>3, <2>1, <2>2 DEF ReadAllCodes
<1>4. CASE ReadUpdatable(i)
  <2> DEFINE at == [local[i] EXCEPT !.updatable = Approved]
  <2>1. at \in Local /\ at.rows = local[i].rows /\ at.plan = local[i].plan
    BY <1>1 DEF Local, Approved
  <2>2. local' = [local EXCEPT ![i] = at] /\ pc' = [pc EXCEPT ![i] = "rows"] /\ pc[i] = "updatable"
    BY <1>1, <1>4 DEF ReadUpdatable, RestOK
  <2> HIDE DEF at
  <2> QED BY <1>2, <1>4, <2>1, <2>2 DEF ReadUpdatable
<1>5. CASE UpdateRow(i) \/ SkipRow(i)
  <2> DEFINE at == [local[i] EXCEPT !.next = @ + 1]
  <2>1. at \in Local /\ at.rows = local[i].rows /\ at.plan = local[i].plan
    BY <1>1 DEF Local
  <2>2. /\ local' = [local EXCEPT ![i] = at] /\ pc' = pc /\ pc[i] = "rows"
        /\ UNCHANGED <<modules, linked, store, changes>>
    BY <1>1, <1>5 DEF UpdateRow, SkipRow, Unhandled, Drop, RestOK
  <2>3. UNCHANGED held \/ \E c \in Codes : held' = [held EXCEPT ![c] = i]
    BY <1>1, <1>5 DEF UpdateRow, SkipRow, Local
  <2> HIDE DEF at
  <2> QED BY <1>2, <2>1, <2>2, <2>3
<1>6. CASE CreateRow(i)
  <2>1. PICK code \in Codes : code = RowCode(i)
    BY <1>6 DEF CreateRow
  <2>2. pc[i] = "rows" /\ UNCHANGED <<modules, linked, store, changes>>
    BY <1>6 DEF CreateRow, Unhandled
  <2>3. CASE Rollback(i, "outrun") /\ UNCHANGED local
    BY <2>2, <2>3, RollbackJoins
  <2>4. CASE held' = [held EXCEPT ![code] = i] /\ AddRow(i, code) /\ UNCHANGED pc
    <3> DEFINE at == [local[i] EXCEPT !.next = @ + 1, !.known = @ \cup {code}]
    <3>1. local[i].known \cup {code} \in SUBSET Codes /\ local[i].next + 1 \in Nat \ {0}
      BY <1>1 DEF Local
    <3>2. at \in Local /\ at.rows = local[i].rows /\ at.plan = local[i].plan
      BY <1>1, <3>1 DEF Local
    <3>3. local' = [local EXCEPT ![i] = at]
      BY <1>1, <2>4 DEF AddRow, RestOK, Local
    <3> HIDE DEF at
    <3> QED BY <1>2, <2>2, <2>4, <3>2, <3>3
  <2> QED BY <1>6, <2>1, <2>3, <2>4 DEF CreateRow
<1> QED BY <1>3, <1>4, <1>5, <1>6

\* The commit: the modules the import holds are new, and get the names the plan gave them.
LEMMA ConfirmCommitJoins ==
  ASSUME IInv, JInv, NEW i \in Confirms, ConfirmCommit(i)
  PROVE  JInv'
<1>1. /\ i \in Writers /\ i \notin Creates \cup Links /\ i # None /\ RestOK /\ ImportJoins(i)
      /\ held \in [Codes \cup Modules -> Links \cup Confirms \cup {None}]
      /\ HeldModulesAreNew
  BY Kinds DEF Writers, JInv, IInv, RowsOK
<1>2. /\ pc[i] = "rows" /\ pc' = [pc EXCEPT ![i] = "done"] /\ "done" \in Steps
      /\ modules' = WithCreated(i) /\ Release(i) /\ UNCHANGED <<linked, store, local, changes>>
  BY DEF ConfirmCommit, Unhandled, Steps, Ends
<1> PICK plan : plan = local[i].plan
  OBVIOUS
<1> PICK rows : rows = local[i].rows
  OBVIOUS
<1> DEFINE create == plan.create
           created == {create[k].code : k \in DOMAIN create}
<1>3. /\ \A j, k \in DOMAIN create : create[j].code = create[k].code => j = k
      /\ \A r \in Range(rows) : r.valid /\ r.derived => Planned(plan, r.module, r.name) \/ Overruled(rows, r)
      /\ \A k \in DOMAIN create : held[create[k].code] = i
  BY <1>1, <1>2 DEF ImportJoins, PlanFits
<1>4. create \in Seq([code : Modules, name : Names])
  <2>1. plan \in Plans
    BY <1>1 DEF RestOK, Local
  <2> QED BY <2>1 DEF Plans
<1>5. \A k \in DOMAIN create : create[k].code \in Modules /\ create[k].name \in Names
  <2>1. \A k \in DOMAIN create : create[k] \in [code : Modules, name : Names]
    BY <1>4, ElementsFit
  <2> QED BY <2>1
<1>6. modules' = [code \in DOMAIN modules \cup created |->
                    IF code \in created THEN create[CHOOSE k \in DOMAIN create : create[k].code = code].name
                                        ELSE modules[code]]
  BY <1>2 DEF WithCreated
<1> HIDE DEF create
<1>7. \A k \in DOMAIN create : create[k].code \in DOMAIN modules' /\ modules'[create[k].code] = create[k].name
  <2> SUFFICES ASSUME NEW k \in DOMAIN create
               PROVE  create[k].code \in DOMAIN modules' /\ modules'[create[k].code] = create[k].name
    OBVIOUS
  <2>1. (CHOOSE j \in DOMAIN create : create[j].code = create[k].code) = k
    BY <1>3
  <2> QED BY <1>6, <2>1
<1>8. \A m \in created : m \notin DOMAIN modules /\ held[m] = i /\ m \in Modules
  BY <1>1, <1>3, <1>5 DEF HeldModulesAreNew
<1>9. DOMAIN modules' = DOMAIN modules \cup created
  BY <1>6
<1>10. ModulesStay
  BY <1>6, <1>8 DEF ModulesStay
<1>11. modules' \in Maps(Modules, Names)
  <2>1. modules \in [DOMAIN modules -> Names] /\ DOMAIN modules \subseteq Modules
    BY <1>1, MapsAreFunctions DEF RestOK
  <2>2. \A m \in DOMAIN modules : modules'[m] \in Names
    BY <1>10, <2>1 DEF ModulesStay
  <2>3. \A m \in created : modules'[m] \in Names
    BY <1>5, <1>7
  <2>4. modules' \in [DOMAIN modules' -> Names] /\ DOMAIN modules' \subseteq Modules
    <3>1. modules' = [m \in DOMAIN modules' |-> modules'[m]]
      BY <1>6
    <3> HIDE DEF created
    <3> QED BY <1>8, <1>9, <2>1, <2>2, <2>3, <3>1
  <2> QED BY <2>4, MapsAreFunctions
<1>12. /\ pc' \in [Writers -> Steps] /\ local' \in [Writers -> Local]
       /\ pc'[i] = "done" /\ local'[i] = local[i]
       /\ \A p \in Writers \ {i} : pc'[p] = pc[p] /\ local'[p] = local[p]
  BY <1>1, <1>2 DEF RestOK
<1>13. \A m \in Modules : held'[m] = IF held[m] = i THEN None ELSE held[m]
  BY <1>1, <1>2 DEF Release
<1>14. HeldModulesAreNew'
  BY <1>1, <1>8, <1>9, <1>13 DEF HeldModulesAreNew
<1>15. RestOK' /\ StoreFits'
  BY <1>2, <1>11, <1>12 DEF JInv, RestOK, StoreFits
<1>16. ASSUME NEW r \in Range(rows), r.valid, r.derived
       PROVE  \/ plan.to[r.module] \in DOMAIN modules' /\ modules'[plan.to[r.module]] = r.name
              \/ Overruled(rows, r)
  <2>1. CASE plan.to[r.module] \in DOMAIN modules /\ modules[plan.to[r.module]] = r.name
    BY <1>10, <2>1 DEF ModulesStay
  <2>2. ASSUME NEW k \in DOMAIN create, create[k] = [code |-> plan.to[r.module], name |-> r.name]
        PROVE  plan.to[r.module] \in DOMAIN modules' /\ modules'[plan.to[r.module]] = r.name
    BY <1>7, <2>2
  <2> QED BY <1>3, <1>16, <2>1, <2>2 DEF Planned, create
<1>17. ImportJoins(i)'
  <2>1. local'[i].rows = rows /\ local'[i].plan = plan /\ RowsFit(rows)
    BY <1>1, <1>12 DEF ImportJoins
  <2> QED BY <1>12, <1>16, <2>1 DEF ImportJoins, Overruled
<1> QED BY <1>1, <1>10, <1>12, <1>13, <1>14, <1>15, <1>17, OneJoins

\* The import store, and people.
LEMMA OthersJoin ==
  ASSUME IInv, JInv,
         \/ \E v \in Previews : Preview(v) \/ Forget(v)
         \/ \E c \in Codes : ChangeCase(c)
         \/ \E m \in NewModules : AddModule(m)
         \/ UNCHANGED vars
  PROVE  JInv'
<1>1. RestOK /\ StoreFits
  BY DEF JInv
<1>2. ASSUME NEW v \in Previews, Preview(v) \/ Forget(v) PROVE JInv'
  <2>1. PICK entry \in Entry : store' = [store EXCEPT ![v] = entry] /\ RowsFit(entry.rows)
    <3>1. CASE Preview(v)
      <4>1. PICK table \in Files :
              /\ \A r \in Range(ParsedRows(table)) : r.module # None
              /\ store' = [store EXCEPT ![v] = [state |-> "kept", rows |-> ParsedRows(table)]]
        BY <3>1 DEF Preview
      <4>2. ParsedRows(table) \in Seq(Rows) /\ RowsFit(ParsedRows(table))
        BY <4>1, FilesAssumption, ParsedRowsFit
      <4>3. PICK entry : entry = [state |-> "kept", rows |-> ParsedRows(table)]
        OBVIOUS
      <4>4. entry \in Entry /\ RowsFit(entry.rows)
        BY <4>2, <4>3 DEF Entry
      <4> QED BY <4>1, <4>3, <4>4
    <3>2. CASE Forget(v)
      <4>1. Gone \in Entry /\ RowsFit(Gone.rows)
        BY NoRowsFit DEF Gone, Entry
      <4> QED BY <3>2, <4>1 DEF Forget
    <3> QED BY <1>2, <3>1, <3>2
  <2>2. UNCHANGED <<cases, modules, held, linked, pc, local, changes>>
    BY <1>2 DEF Preview, Forget
  <2>3. store' \in [Previews -> Entry] /\ StoreFits'
    BY <1>1, <2>1 DEF RestOK, StoreFits
  <2>4. RestOK' /\ ModulesStay /\ HeldModulesAreNew'
    BY <1>1, <2>2, <2>3 DEF RestOK, ModulesStay, HeldModulesAreNew, JInv
  <2> QED BY <2>2, <2>3, <2>4, NoneJoins
<1>3. ASSUME NEW c \in Codes, ChangeCase(c) PROVE JInv'
  <2>1. UNCHANGED <<modules, held, linked, store, pc, local>> /\ changes' = changes + 1 /\ changes < MaxChanges
    BY <1>3 DEF ChangeCase
  <2>2. RestOK' /\ StoreFits' /\ ModulesStay /\ HeldModulesAreNew'
    BY <1>1, <2>1, BoundsAssumption DEF RestOK, StoreFits, ModulesStay, HeldModulesAreNew, JInv
  <2> QED BY <2>1, <2>2, NoneJoins
<1>4. ASSUME NEW m \in NewModules, AddModule(m) PROVE JInv'
  <2>1. /\ UNCHANGED <<held, linked, store, pc, local>> /\ changes' = changes + 1 /\ changes < MaxChanges
        /\ m.code \notin DOMAIN modules /\ held[m.code] = None /\ modules' = Put(modules, m.code, m.name)
    BY <1>4 DEF AddModule
  <2>2. m.code \in Modules /\ m.name \in Names
    BY ModulesAssumption
  <2>3. modules' \in Maps(Modules, Names)
    BY <1>1, <2>1, <2>2, PutFits DEF RestOK
  <2>4. ModulesStay /\ DOMAIN modules' = DOMAIN modules \cup {m.code}
    BY <2>1 DEF ModulesStay, Put
  <2>5. HeldModulesAreNew'
    BY <2>1, <2>4 DEF JInv, HeldModulesAreNew
  <2>6. RestOK' /\ StoreFits'
    BY <1>1, <2>1, <2>3, BoundsAssumption DEF RestOK, StoreFits
  <2> QED BY <2>1, <2>4, <2>5, <2>6, NoneJoins
<1>5. CASE UNCHANGED vars
  <2>1. RestOK' /\ StoreFits' /\ ModulesStay /\ HeldModulesAreNew'
    BY <1>1, <1>5 DEF RestOK, StoreFits, ModulesStay, HeldModulesAreNew, JInv, vars
  <2> QED BY <1>5, <2>1, NoneJoins DEF vars
<1> QED BY <1>2, <1>3, <1>4, <1>5

LEMMA NextJInv == IInv /\ JInv /\ [Next]_vars => JInv'
<1> SUFFICES ASSUME IInv, JInv, [Next]_vars PROVE JInv'
  OBVIOUS
<1>1. ASSUME NEW c \in Creates, Create(c) PROVE JInv'
  BY <1>1, CreateJoins
<1>2. ASSUME NEW l \in Links, Link(l) PROVE JInv'
  BY <1>2, LinkJoins
<1>3. ASSUME NEW i \in Confirms, Confirm(i) PROVE JInv'
  BY <1>3, ConfirmTakeJoins, ReadModulesJoins, CreateModuleJoins, ConfirmRowsJoin, ConfirmCommitJoins DEF Confirm
<1>4. ASSUME NEW q \in Links \cup Confirms, Abort(q) PROVE JInv'
  BY <1>4, RollbackJoins DEF Abort
<1> QED BY <1>1, <1>2, <1>3, <1>4, OthersJoin DEF Next, Finished

LEMMA JInvariance == Spec => []JInv
BY InitJInv, NextJInv, Invariance, PTL DEF Spec

\* Every variable keeps its type: no counter passes its bound, no import is left without a code for
\* a row or a module for a plan (parseImportRows, ensureModules, create).
THEOREM TypeCorrect == Spec => []TypeOK
<1>1. IInv /\ JInv => TypeOK
  BY DEF IInv, RowsOK, JInv, RestOK, TypeOK
<1> QED BY <1>1, Invariance, JInvariance, PTL

\* The rows of a module name without ID prefix end up in the project's module of that name, for
\* every file, every set of modules and whoever creates modules meanwhile (buildRow, ensureModules).
THEOREM RowsStayTogether == Spec => []RowsJoinTheirModule
<1>1. JInv => RowsJoinTheirModule
  BY DEF JInv, ImportJoins, Overruled, RowsJoinTheirModule
<1> QED BY <1>1, JInvariance, PTL

-------------------------------------------------------------------------------
(***************************************************************************)
(* Numbers: nextCaseCode lies above every code it was given, and the codes *)
(* of one module are finitely many.                                        *)
(***************************************************************************)

LEMMA NextCodeIsAbove ==
  ASSUME NEW codes \in SUBSET Codes, NEW m
  PROVE  \A c \in codes : c[1] = m => c[2] < NextCode(m, codes)[2]
<1> DEFINE S == {0} \cup {c[2] : c \in {d \in codes : d[1] = m}}
<1>1. \A c \in Codes : c[2] \in 1 .. MaxNumber
  BY DEF Codes
<1>2. MaxNumber \in Nat /\ S \in SUBSET (0 .. MaxNumber) /\ S # {}
  BY <1>1, ImportFilesAssumption
<1>3. Max(S) \in 0 .. MaxNumber /\ \A x \in S : Max(S) >= x
  BY <1>2, MaxOfBounded
<1>4. NextCode(m, codes)[2] = Max(S) + 1
  BY DEF NextCode
<1> SUFFICES ASSUME NEW c \in codes, c[1] = m PROVE c[2] < Max(S) + 1
  BY <1>4
<1>5. c[2] \in S
  OBVIOUS
<1> QED BY <1>1, <1>2, <1>3, <1>5

LEMMA NextCodeIsFree ==
  ASSUME NEW codes \in SUBSET Codes, NEW m, NextCode(m, codes) \in Codes
  PROVE  NextCode(m, codes) \notin codes /\ NextCode(m, codes)[1] = m
<1>1. NextCode(m, codes)[1] = m
  BY DEF NextCode
<1>2. NextCode(m, codes)[2] \in 1 .. MaxNumber
  BY DEF Codes
<1> QED BY <1>1, <1>2, NextCodeIsAbove, ImportFilesAssumption

LEMMA CodesOfModuleAreFinite ==
  ASSUME NEW m, NEW S \in SUBSET {c \in Codes : c[1] = m}
  PROVE  IsFiniteSet(S)
<1> DEFINE f == [c \in S |-> c[2]]
<1>1. \A c \in S : c = <<m, c[2]>> /\ c[2] \in 1 .. MaxNumber
  BY DEF Codes
<1>2. f \in Injection(S, 1 .. MaxNumber)
  <2>1. f \in [S -> 1 .. MaxNumber]
    BY <1>1
  <2>2. \A a, b \in S : f[a] = f[b] => a = b
    BY <1>1
  <2> HIDE DEF f
  <2> QED BY <2>1, <2>2 DEF Injection, IsInjective
<1>3. IsFiniteSet(1 .. MaxNumber)
  BY FS_Interval, ImportFilesAssumption
<1> HIDE DEF f
<1> QED BY <1>2, <1>3, FS_Injection

-------------------------------------------------------------------------------
(***************************************************************************)
(* Requests: what a create and an import remember of the codes they read,  *)
(* and why that is out of date only by the fault of others.                *)
(***************************************************************************)

\* Assigning to one field of one request changes nothing else.
LocalsFit ==
  /\ pc \in [Writers -> Steps] /\ DOMAIN local = Writers
  /\ \A q \in Writers : DOMAIN local[q] = DOMAIN Blank

UsedOf(m) == {code \in Used : code[1] = m}
UsedBelow(code) == {d \in Used : d[1] = code[1] /\ d[2] < code[2]}

\* Every attempt of a create after the first follows one that found its code taken, and the next
\* code it reads lies above that one.
CreateFits(c) ==
  /\ pc[c] \in {"new", "read", "insert", "done", "outrun"}
  /\ pc[c] = "new" => local[c].attempt = 0
  /\ pc[c] # "new" => local[c].attempt \in Nat \ {0} /\ local[c].code \in Codes
  /\ pc[c] = "insert" => Cardinality(UsedBelow(local[c].code)) >= local[c].attempt - 1
  /\ pc[c] \in {"read", "outrun"} => Cardinality(UsedOf(local[c].code[1])) >= local[c].attempt
  /\ pc[c] = "outrun" => local[c].attempt >= MaxAttempts

\* What an import has inserted is among the codes it knows; the other rows it holds were there.
ImportFits(i) ==
  /\ local[i].known \subseteq Codes
  /\ local[i].updatable \subseteq Used
  /\ \A c \in Codes : held[c] = i => pc[i] = "rows" /\ c \in Used \cup local[i].known

RequestsFit ==
  /\ LocalsFit
  /\ \A c \in Creates : CreateFits(c)
  /\ \A i \in Confirms : ImportFits(i)

LEMMA InitRequestsFit == Init => RequestsFit /\ ImportClashesOnlyWithOthers
<1> SUFFICES ASSUME Init PROVE RequestsFit /\ ImportClashesOnlyWithOthers
  OBVIOUS
<1>1. /\ pc = [q \in Writers |-> "new"] /\ local = [q \in Writers |-> Blank]
      /\ held = [x \in Codes \cup Modules |-> None]
  BY DEF Init
<1>2. Creates \subseteq Writers /\ Confirms \subseteq Writers /\ None \notin Writers
  BY Kinds DEF Writers
<1>3. LocalsFit
  BY <1>1 DEF LocalsFit, Steps, Ends
<1>4. \A c \in Creates : CreateFits(c)
  BY <1>1, <1>2 DEF CreateFits, Blank
<1>5. \A i \in Confirms : ImportFits(i)
  BY <1>1, <1>2 DEF ImportFits, Blank
<1>6. ImportClashesOnlyWithOthers
  BY <1>1, <1>2 DEF ImportClashesOnlyWithOthers
<1> QED BY <1>3, <1>4, <1>5, <1>6 DEF RequestsFit

LEMMA UsedGrows == IInv /\ [Next]_vars => Used \subseteq Used'
<1> SUFFICES ASSUME IInv, [Next]_vars, NEW c \in Used PROVE c \in Used'
  OBVIOUS
<1> USE DEF Used
<1>1. CASE UNCHANGED cases
  BY <1>1
<1>2. ASSUME NEW q \in Creates, CreateInsert(q) PROVE c \in Used'
  BY <1>2 DEF CreateInsert, IInv, RowsOK
<1>3. ASSUME NEW l \in Links, LinkCommit(l) PROVE c \in Used'
  BY <1>3 DEF LinkCommit, IInv, RowsOK
<1>4. ASSUME NEW i \in Confirms, ConfirmCommit(i) PROVE c \in Used'
  BY <1>4 DEF ConfirmCommit
<1>5. ASSUME NEW d \in Codes, ChangeCase(d) PROVE c \in Used'
  BY <1>5 DEF ChangeCase, IInv, RowsOK, Case
<1> QED BY <1>1, <1>2, <1>3, <1>4, <1>5
    DEF Next, Create, CreateRead, Link, LinkRead, LinkInsert, Confirm, ConfirmTake, ReadModules,
        CreateModule, ReadAllCodes, ReadUpdatable, UpdateRow, SkipRow, CreateRow, Preview, Forget,
        AddModule, Abort, Finished, vars

\* More codes in use never hurt a create.
LEMMA UsedOfModule ==
  ASSUME NEW m
  PROVE  IsFiniteSet(UsedOf(m)) /\ Cardinality(UsedOf(m)) \in Nat
BY CodesOfModuleAreFinite, FS_CardinalityType DEF UsedOf, Used

LEMMA CreateFitsStays ==
  ASSUME NEW c \in Creates, CreateFits(c), Used \subseteq Used', UNCHANGED <<pc[c], local[c]>>
  PROVE  CreateFits(c)'
<1> PICK at : at = local[c]
  OBVIOUS
<1> PICK d : d = at.code
  OBVIOUS
<1>1. local[c] = at /\ local'[c] = at /\ pc'[c] = pc[c]
  OBVIOUS
<1>2. /\ UsedOf(d[1]) \subseteq UsedOf(d[1])' /\ UsedBelow(d) \subseteq UsedBelow(d)'
  BY DEF UsedOf, UsedBelow
<1>3. /\ IsFiniteSet(UsedOf(d[1])) /\ IsFiniteSet(UsedOf(d[1])')
      /\ IsFiniteSet(UsedBelow(d)) /\ IsFiniteSet(UsedBelow(d)')
  <2>1. /\ UsedOf(d[1]) \in SUBSET {e \in Codes : e[1] = d[1]}
        /\ UsedOf(d[1])' \in SUBSET {e \in Codes : e[1] = d[1]}
        /\ UsedBelow(d) \in SUBSET {e \in Codes : e[1] = d[1]}
        /\ UsedBelow(d)' \in SUBSET {e \in Codes : e[1] = d[1]}
    BY DEF UsedOf, UsedBelow, Used
  <2> QED BY <2>1, CodesOfModuleAreFinite
<1>4. /\ Cardinality(UsedOf(d[1])) <= Cardinality(UsedOf(d[1])')
      /\ Cardinality(UsedBelow(d)) <= Cardinality(UsedBelow(d)')
  BY <1>2, <1>3, FS_Subset
<1>5. /\ Cardinality(UsedOf(d[1])) \in Nat /\ Cardinality(UsedOf(d[1])') \in Nat
      /\ Cardinality(UsedBelow(d)) \in Nat /\ Cardinality(UsedBelow(d)') \in Nat
  BY <1>3, FS_CardinalityType
<1> QED BY <1>1, <1>4, <1>5 DEF CreateFits

LEMMA ImportFitsStays ==
  ASSUME NEW i \in Confirms, ImportFits(i), Used \subseteq Used', UNCHANGED <<pc[i], local[i]>>,
         \A x \in Codes : held'[x] = i => held[x] = i
  PROVE  ImportFits(i)'
BY DEF ImportFits

LEMMA ClashStays ==
  ASSUME ImportClashesOnlyWithOthers, Used \subseteq Used',
         \A i \in Confirms : pc'[i] = "outrun" => pc[i] = "outrun" /\ local'[i] = local[i]
  PROVE  ImportClashesOnlyWithOthers'
BY DEF ImportClashesOnlyWithOthers

\* One request moves: the others' part of the invariant is untouched.
LEMMA OneMoves ==
  ASSUME RequestsFit, ImportClashesOnlyWithOthers, Used \subseteq Used', LocalsFit', NEW q \in Writers,
         \A p \in Writers \ {q} : pc'[p] = pc[p] /\ local'[p] = local[p],
         \A x \in Codes : held'[x] \in {held[x], None, q},
         q \in Creates => CreateFits(q)',
         q \in Confirms => ImportFits(q)' /\ (pc'[q] = "outrun" => \E c \in Used' : c \notin local'[q].known)
  PROVE  RequestsFit' /\ ImportClashesOnlyWithOthers'
<1>1. Creates \subseteq Writers /\ Confirms \subseteq Writers /\ None \notin Writers
  BY Kinds DEF Writers
<1>2. \A c \in Creates : CreateFits(c)'
  <2> SUFFICES ASSUME NEW c \in Creates, c # q PROVE CreateFits(c)'
    OBVIOUS
  <2> QED BY <1>1, CreateFitsStays DEF RequestsFit
<1>3. \A i \in Confirms : ImportFits(i)'
  <2> SUFFICES ASSUME NEW i \in Confirms, i # q PROVE ImportFits(i)'
    OBVIOUS
  <2>1. UNCHANGED <<pc[i], local[i]>> /\ ImportFits(i)
    BY <1>1 DEF RequestsFit
  <2>2. \A x \in Codes : held'[x] = i => held[x] = i
    BY <1>1
  <2> QED BY <2>1, <2>2, ImportFitsStays
<1>4. ImportClashesOnlyWithOthers'
  <2> SUFFICES ASSUME NEW i \in Confirms, pc'[i] = "outrun"
               PROVE  \E c \in Used' : c \notin local'[i].known
    BY DEF ImportClashesOnlyWithOthers
  <2>1. CASE i = q
    BY <2>1
  <2>2. CASE i # q
    BY <2>2, <1>1 DEF ImportClashesOnlyWithOthers
  <2> QED BY <2>1, <2>2
<1> QED BY <1>2, <1>3, <1>4 DEF RequestsFit

\* The first attempt, and every later one.
LEMMA CreateReadFits ==
  ASSUME RequestsFit, ImportClashesOnlyWithOthers, Used \subseteq Used', NEW c \in Creates, CreateRead(c)
  PROVE  RequestsFit' /\ ImportClashesOnlyWithOthers'
<1> PICK m : ReadCodes(c, m) /\ (pc[c] = "new" \/ (pc[c] = "read" /\ m = local[c].code[1]))
  BY DEF CreateRead
<1> PICK code : code = NextCode(m, Used)
  OBVIOUS
<1> PICK attempt : attempt = local[c].attempt
  OBVIOUS
<1>1. c \in Writers /\ c \notin Confirms
  BY Kinds DEF Writers
<1>2. /\ code \in Codes /\ pc' = [pc EXCEPT ![c] = "insert"] /\ UNCHANGED <<cases, held>>
      /\ local' = [local EXCEPT ![c].attempt = attempt + 1, ![c].code = code]
  BY DEF CreateRead, ReadCodes
<1>3. LocalsFit /\ CreateFits(c)
  BY DEF RequestsFit
<1>4. /\ LocalsFit' /\ \A p \in Writers \ {c} : pc'[p] = pc[p] /\ local'[p] = local[p]
      /\ pc'[c] = "insert" /\ local'[c].attempt = attempt + 1 /\ local'[c].code = code
  BY <1>1, <1>2, <1>3 DEF LocalsFit, Steps, Ends, Blank
<1>5. UsedBelow(code) = UsedOf(m)
  <2>1. code[1] = m
    BY DEF NextCode
  <2>2. \A d \in Used : d[1] = m => d[2] < code[2]
    BY NextCodeIsAbove DEF Used
  <2> QED BY <2>1, <2>2 DEF UsedBelow, UsedOf
<1>6. attempt \in Nat /\ Cardinality(UsedOf(m)) >= attempt
  BY <1>3, UsedOfModule DEF CreateFits
<1>7. UsedBelow(code)' = UsedBelow(code)
  BY <1>2 DEF UsedBelow, Used
<1>8. CreateFits(c)'
  BY <1>2, <1>4, <1>5, <1>6, <1>7 DEF CreateFits
<1> QED BY <1>1, <1>2, <1>4, <1>8, OneMoves

\* The code that was taken lies above those that were taken before.
LEMMA CreateInsertFits ==
  ASSUME RequestsFit, ImportClashesOnlyWithOthers, Used \subseteq Used', NEW c \in Creates, CreateInsert(c)
  PROVE  RequestsFit' /\ ImportClashesOnlyWithOthers'
<1> PICK code : code = local[c].code
  OBVIOUS
<1> PICK attempt : attempt = local[c].attempt
  OBVIOUS
<1>1. c \in Writers /\ c \notin Confirms
  BY Kinds DEF Writers
<1>2. pc[c] = "insert" /\ UNCHANGED <<held, local>>
  BY DEF CreateInsert
<1>3. LocalsFit /\ CreateFits(c)
  BY DEF RequestsFit
<1>4. PICK step \in {"read", "outrun", "done"} :
        /\ pc' = [pc EXCEPT ![c] = step]
        /\ step # "done" => UNCHANGED cases /\ code \in Used
        /\ step = "outrun" => ~(attempt < MaxAttempts)
  BY DEF CreateInsert, Taken, MayRetry
<1>5. /\ LocalsFit' /\ \A p \in Writers \ {c} : pc'[p] = pc[p] /\ local'[p] = local[p]
      /\ pc'[c] = step /\ local'[c] = local[c]
  BY <1>1, <1>2, <1>3, <1>4 DEF LocalsFit, Steps, Ends
<1>6. attempt \in Nat \ {0} /\ code \in Codes /\ Cardinality(UsedBelow(code)) >= attempt - 1
  BY <1>2, <1>3 DEF CreateFits
<1>7. code \in Used => Cardinality(UsedOf(code[1])) >= attempt
  <2> SUFFICES ASSUME code \in Used PROVE Cardinality(UsedOf(code[1])) >= attempt
    OBVIOUS
  <2>1. code[2] \in Nat
    BY <1>6 DEF Codes
  <2>2. UsedBelow(code) \cup {code} \subseteq UsedOf(code[1]) /\ code \notin UsedBelow(code)
    BY <2>1 DEF UsedBelow, UsedOf
  <2>3. IsFiniteSet(UsedBelow(code)) /\ IsFiniteSet(UsedOf(code[1])) /\ Cardinality(UsedOf(code[1])) \in Nat
    BY CodesOfModuleAreFinite, UsedOfModule DEF UsedBelow, Used
  <2>4. Cardinality(UsedBelow(code) \cup {code}) = Cardinality(UsedBelow(code)) + 1
    BY <2>2, <2>3, FS_AddElement
  <2>5. Cardinality(UsedBelow(code) \cup {code}) <= Cardinality(UsedOf(code[1]))
    BY <2>2, <2>3, FS_Subset
  <2>6. Cardinality(UsedBelow(code)) \in Nat
    BY <2>3, FS_CardinalityType
  <2> QED BY <1>6, <2>3, <2>4, <2>5, <2>6
<1>8. step # "done" => UsedOf(code[1])' = UsedOf(code[1])
  BY <1>4 DEF UsedOf, Used
<1>9. CreateFits(c)'
  BY <1>4, <1>5, <1>6, <1>7, <1>8, BoundsAssumption DEF CreateFits
<1> QED BY <1>1, <1>2, <1>5, <1>9, OneMoves

\* A step of a link, or its end by a failure.
LEMMA LinkFits ==
  ASSUME RequestsFit, ImportClashesOnlyWithOthers, Used \subseteq Used', NEW l \in Links,
         IInv, Link(l) \/ Abort(l)
  PROVE  RequestsFit' /\ ImportClashesOnlyWithOthers'
<1>1. l \in Writers /\ l \notin Confirms /\ l \notin Creates
  BY Kinds DEF Writers
<1>2. LocalsFit /\ LocalsFit'
  <2>1. LocalsFit
    BY DEF RequestsFit
  <2> QED BY <1>1, <2>1 DEF LocalsFit, Steps, Ends, Blank, Link, LinkRead, ReadCodes, LinkInsert, LinkCommit, Rollback, Abort
<1>3. \A p \in Writers \ {l} : pc'[p] = pc[p] /\ local'[p] = local[p]
  BY <1>1, <1>2 DEF LocalsFit, Steps, Ends, Link, LinkRead, ReadCodes, LinkInsert, LinkCommit, Rollback, Abort
<1>4. \A x \in Codes : held'[x] \in {held[x], None, l}
  BY DEF IInv, RowsOK, Link, LinkRead, LinkInsert, LinkCommit, Rollback, Release, Abort
<1> QED BY <1>1, <1>2, <1>3, <1>4, OneMoves

\* An import up to the point where it reads the codes; what it inserts are modules.
LEMMA ConfirmBeginFits ==
  ASSUME RequestsFit, ImportClashesOnlyWithOthers, Used \subseteq Used', NEW i \in Confirms, IInv, JInv,
         ConfirmTake(i) \/ ReadModules(i) \/ CreateModule(i) \/ ReadAllCodes(i) \/ ReadUpdatable(i)
  PROVE  RequestsFit' /\ ImportClashesOnlyWithOthers'
<1>1. i \in Writers /\ i \notin Creates /\ i # None
  BY Kinds DEF Writers
<1>2. LocalsFit /\ ImportFits(i) /\ held \in [Codes \cup Modules -> Links \cup Confirms \cup {None}]
  BY DEF RequestsFit, IInv, RowsOK
<1>3. CASE ConfirmTake(i)
  <2>1. PICK step, rows :
          /\ step \in {"modules", "refused"}
          /\ pc[i] = "new" /\ pc' = [pc EXCEPT ![i] = step] /\ UNCHANGED <<cases, held>>
          /\ local' = local \/ local' = [local EXCEPT ![i].rows = rows]
    BY <1>3 DEF ConfirmTake, Take
  <2>2. /\ LocalsFit' /\ \A p \in Writers \ {i} : pc'[p] = pc[p] /\ local'[p] = local[p]
        /\ pc'[i] = step /\ local'[i].known = local[i].known /\ local'[i].updatable = local[i].updatable
    BY <1>1, <1>2, <2>1 DEF LocalsFit, Steps, Ends, Blank
  <2>3. ImportFits(i)'
    BY <1>2, <2>1, <2>2 DEF ImportFits
  <2> QED BY <1>1, <2>1, <2>2, <2>3, OneMoves
<1>4. CASE ReadModules(i)
  <2>1. PICK plan :
          /\ pc[i] = "modules" /\ pc' = [pc EXCEPT ![i] = "create modules"] /\ UNCHANGED <<cases, held>>
          /\ local' = [local EXCEPT ![i].plan = plan]
    BY <1>4 DEF ReadModules
  <2>2. /\ LocalsFit' /\ \A p \in Writers \ {i} : pc'[p] = pc[p] /\ local'[p] = local[p]
        /\ pc'[i] = "create modules" /\ local'[i].known = local[i].known /\ local'[i].updatable = local[i].updatable
    BY <1>1, <1>2, <2>1 DEF LocalsFit, Steps, Ends, Blank
  <2>3. ImportFits(i)'
    BY <1>2, <2>1, <2>2 DEF ImportFits
  <2> QED BY <1>1, <2>1, <2>2, <2>3, OneMoves
<1>5. CASE CreateModule(i)
  <2>1. PICK step \in {"codes", "refused", "create modules"} :
          /\ pc[i] = "create modules" /\ UNCHANGED <<cases, local>>
          /\ pc' = [pc EXCEPT ![i] = step]
          /\ held' = held \/ Release(i) \/ \E m \in Modules : held' = [held EXCEPT ![m] = i]
    <3>1. /\ pc[i] = "create modules" /\ UNCHANGED <<cases, local>>
          /\ \/ pc' = [pc EXCEPT ![i] = "codes"] /\ UNCHANGED held
             \/ Rollback(i, "refused")
             \/ UNCHANGED pc /\ \E m \in Modules : held' = [held EXCEPT ![m] = i]
      BY <1>5, CreateModuleSteps DEF JInv
    <3>2. ASSUME UNCHANGED pc PROVE pc' = [pc EXCEPT ![i] = "create modules"]
      BY <1>2, <3>1, <3>2 DEF LocalsFit, Steps, Ends
    <3> QED BY <3>1, <3>2 DEF Rollback
  <2>2. /\ LocalsFit' /\ \A p \in Writers \ {i} : pc'[p] = pc[p] /\ local'[p] = local[p]
        /\ pc'[i] = step /\ local'[i] = local[i]
    BY <1>1, <1>2, <2>1 DEF LocalsFit, Steps, Ends
  <2>3. \A x \in Codes : held'[x] \in {held[x], None}
    BY <1>2, <2>1, ModulesAssumption DEF Release
  <2>4. ImportFits(i)'
    BY <1>1, <1>2, <2>1, <2>2, <2>3 DEF ImportFits
  <2> QED BY <1>1, <2>1, <2>2, <2>3, <2>4, OneMoves
<1>6. CASE ReadAllCodes(i)
  <2>1. /\ pc[i] = "codes" /\ pc' = [pc EXCEPT ![i] = "updatable"] /\ UNCHANGED <<cases, held>>
        /\ local' = [local EXCEPT ![i].known = Used]
    BY <1>6 DEF ReadAllCodes
  <2>2. /\ LocalsFit' /\ \A p \in Writers \ {i} : pc'[p] = pc[p] /\ local'[p] = local[p]
        /\ pc'[i] = "updatable" /\ local'[i].known = Used /\ local'[i].updatable = local[i].updatable
    BY <1>1, <1>2, <2>1 DEF LocalsFit, Steps, Ends, Blank
  <2>3. Used \subseteq Codes
    BY DEF Used
  <2>4. ImportFits(i)'
    BY <1>2, <2>1, <2>2, <2>3 DEF ImportFits
  <2> QED BY <1>1, <2>1, <2>2, <2>4, OneMoves
<1>7. CASE ReadUpdatable(i)
  <2>1. /\ pc[i] = "updatable" /\ pc' = [pc EXCEPT ![i] = "rows"] /\ UNCHANGED <<cases, held>>
        /\ local' = [local EXCEPT ![i].updatable = Approved]
    BY <1>7 DEF ReadUpdatable
  <2>2. /\ LocalsFit' /\ \A p \in Writers \ {i} : pc'[p] = pc[p] /\ local'[p] = local[p]
        /\ pc'[i] = "rows" /\ local'[i].updatable = Approved /\ local'[i].known = local[i].known
    BY <1>1, <1>2, <2>1 DEF LocalsFit, Steps, Ends, Blank
  <2>3. Approved \subseteq Used
    BY DEF Approved, Used
  <2>4. ImportFits(i)'
    BY <1>2, <2>1, <2>2, <2>3 DEF ImportFits
  <2> QED BY <1>1, <2>1, <2>2, <2>4, OneMoves
<1> QED BY <1>3, <1>4, <1>5, <1>6, <1>7

\* A row that is updated or skipped.
LEMMA OldRowFits ==
  ASSUME RequestsFit, ImportClashesOnlyWithOthers, Used \subseteq Used', NEW i \in Confirms, IInv,
         UpdateRow(i) \/ SkipRow(i)
  PROVE  RequestsFit' /\ ImportClashesOnlyWithOthers'
<1> PICK code : code = Row(i).code
  OBVIOUS
<1> PICK next : next = local[i].next
  OBVIOUS
<1>1. i \in Writers /\ i \notin Creates /\ i # None
  BY Kinds DEF Writers
<1>2. LocalsFit /\ ImportFits(i) /\ held \in [Codes \cup Modules -> Links \cup Confirms \cup {None}]
  BY DEF RequestsFit, IInv, RowsOK
<1>3. /\ pc[i] = "rows" /\ UNCHANGED <<cases, pc>>
      /\ local' = [local EXCEPT ![i].next = next + 1]
      /\ UNCHANGED held \/ (code \in local[i].updatable /\ held' = [held EXCEPT ![code] = i])
  BY DEF UpdateRow, SkipRow, Unhandled, Drop
<1>4. /\ LocalsFit' /\ \A p \in Writers \ {i} : pc'[p] = pc[p] /\ local'[p] = local[p]
      /\ pc'[i] = "rows" /\ local'[i].known = local[i].known /\ local'[i].updatable = local[i].updatable
  BY <1>1, <1>2, <1>3 DEF LocalsFit, Blank
<1>5. \A x \in Codes : held'[x] = held[x] \/ (held'[x] = i /\ x \in Used)
  BY <1>2, <1>3 DEF ImportFits
<1>6. ImportFits(i)'
  BY <1>2, <1>3, <1>4, <1>5 DEF ImportFits
<1> QED BY <1>1, <1>4, <1>5, <1>6, OneMoves

\* A new case: its code is not among those the import knows, so whoever has it took it since.
LEMMA CreateRowFits ==
  ASSUME RequestsFit, ImportClashesOnlyWithOthers, Used \subseteq Used', NEW i \in Confirms, IInv, CreateRow(i)
  PROVE  RequestsFit' /\ ImportClashesOnlyWithOthers'
<1> PICK code : code = RowCode(i)
  OBVIOUS
<1> PICK next : next = local[i].next
  OBVIOUS
<1> PICK known : known = local[i].known
  OBVIOUS
<1>1. i \in Writers /\ i \notin Creates /\ i # None
  BY Kinds DEF Writers
<1>2. LocalsFit /\ ImportFits(i) /\ held \in [Codes \cup Modules -> Links \cup Confirms \cup {None}]
  BY DEF RequestsFit, IInv, RowsOK
<1>3. /\ pc[i] = "rows" /\ code \in Codes /\ UNCHANGED cases
      /\ Row(i).code \notin known
  BY DEF CreateRow, Unhandled
<1>4. code \notin known
  <2>1. CASE Row(i).code = None
    <3>1. PICK m : code = NextCode(m, known)
      BY <2>1 DEF RowCode
    <3> QED BY <3>1, <1>2, <1>3, NextCodeIsFree DEF ImportFits
  <2>2. CASE Row(i).code # None
    BY <1>3, <2>2 DEF RowCode
  <2> QED BY <2>1, <2>2
<1>5. CASE Taken(code) \/ held[code] = i
  <2>1. pc' = [pc EXCEPT ![i] = "outrun"] /\ Release(i) /\ UNCHANGED local
    BY <1>5 DEF CreateRow, Rollback
  <2>2. /\ LocalsFit' /\ \A p \in Writers \ {i} : pc'[p] = pc[p] /\ local'[p] = local[p]
        /\ pc'[i] = "outrun" /\ local'[i] = local[i]
    BY <1>1, <1>2, <2>1 DEF LocalsFit, Steps, Ends
  <2>3. \A x \in Codes : held'[x] \in {held[x], None} /\ held'[x] # i
    BY <1>1, <1>2, <2>1 DEF Release
  <2>4. ImportFits(i)'
    BY <1>2, <1>3, <2>2, <2>3 DEF ImportFits
  <2>5. code \in Used
    BY <1>2, <1>3, <1>4, <1>5 DEF Taken, ImportFits
  <2>6. \E c \in Used' : c \notin local'[i].known
    BY <1>4, <2>2, <2>5
  <2> QED BY <1>1, <2>2, <2>3, <2>4, <2>6, OneMoves
<1>6. CASE ~(Taken(code) \/ held[code] = i)
  <2>1. /\ held' = [held EXCEPT ![code] = i] /\ UNCHANGED pc
        /\ local' = [local EXCEPT ![i].next = next + 1, ![i].known = known \cup {code}]
    BY <1>6 DEF CreateRow, AddRow
  <2>2. /\ LocalsFit' /\ \A p \in Writers \ {i} : pc'[p] = pc[p] /\ local'[p] = local[p]
        /\ pc'[i] = "rows" /\ local'[i].known = known \cup {code} /\ local'[i].updatable = local[i].updatable
    BY <1>1, <1>2, <1>3, <2>1 DEF LocalsFit, Blank
  <2>3. \A x \in Codes : held'[x] = held[x] \/ (held'[x] = i /\ x = code)
    BY <1>2, <2>1
  <2>4. ImportFits(i)'
    BY <1>2, <1>3, <2>2, <2>3 DEF ImportFits
  <2> QED BY <1>1, <2>2, <2>3, <2>4, OneMoves
<1> QED BY <1>5, <1>6

\* The commit of an import, or its end by a failure.
LEMMA ConfirmEndFits ==
  ASSUME RequestsFit, ImportClashesOnlyWithOthers, Used \subseteq Used', NEW i \in Confirms, IInv,
         ConfirmCommit(i) \/ Abort(i)
  PROVE  RequestsFit' /\ ImportClashesOnlyWithOthers'
<1>1. i \in Writers /\ i \notin Creates /\ i # None
  BY Kinds DEF Writers
<1>2. LocalsFit /\ ImportFits(i) /\ held \in [Codes \cup Modules -> Links \cup Confirms \cup {None}]
  BY DEF RequestsFit, IInv, RowsOK
<1>3. PICK step \in {"done", "dead"} :
        pc' = [pc EXCEPT ![i] = step] /\ UNCHANGED local /\ Release(i)
  BY DEF ConfirmCommit, Abort, Rollback
<1>4. /\ LocalsFit' /\ \A p \in Writers \ {i} : pc'[p] = pc[p] /\ local'[p] = local[p]
      /\ pc'[i] = step /\ local'[i] = local[i]
  BY <1>1, <1>2, <1>3 DEF LocalsFit, Steps, Ends
<1>5. \A x \in Codes : held'[x] \in {held[x], None} /\ held'[x] # i
  BY <1>1, <1>2, <1>3 DEF Release
<1>6. ImportFits(i)'
  BY <1>2, <1>4, <1>5 DEF ImportFits
<1> QED BY <1>1, <1>4, <1>5, <1>6, OneMoves

LEMMA NextRequestsFit ==
  IInv /\ JInv /\ RequestsFit /\ ImportClashesOnlyWithOthers /\ [Next]_vars
    => RequestsFit' /\ ImportClashesOnlyWithOthers'
<1> SUFFICES ASSUME IInv, JInv, RequestsFit, ImportClashesOnlyWithOthers, [Next]_vars
             PROVE  RequestsFit' /\ ImportClashesOnlyWithOthers'
  OBVIOUS
<1>1. Used \subseteq Used'
  BY UsedGrows
<1>2. ASSUME NEW c \in Creates, Create(c) PROVE RequestsFit' /\ ImportClashesOnlyWithOthers'
  BY <1>1, <1>2, CreateReadFits, CreateInsertFits DEF Create
<1>3. ASSUME NEW l \in Links, Link(l) \/ Abort(l) PROVE RequestsFit' /\ ImportClashesOnlyWithOthers'
  BY <1>1, <1>3, LinkFits
<1>4. ASSUME NEW i \in Confirms, Confirm(i) \/ Abort(i)
      PROVE  RequestsFit' /\ ImportClashesOnlyWithOthers'
  BY <1>1, <1>4, ConfirmBeginFits, OldRowFits, CreateRowFits, ConfirmEndFits DEF Confirm
<1>5. CASE UNCHANGED <<held, pc, local>>
  <2>1. LocalsFit'
    BY <1>5 DEF RequestsFit, LocalsFit
  <2>2. \A c \in Creates : CreateFits(c)'
    BY <1>1, <1>5, CreateFitsStays DEF RequestsFit
  <2>3. \A i \in Confirms : ImportFits(i)'
    BY <1>1, <1>5, ImportFitsStays DEF RequestsFit
  <2>4. ImportClashesOnlyWithOthers'
    BY <1>1, <1>5, ClashStays
  <2> QED BY <2>1, <2>2, <2>3, <2>4 DEF RequestsFit
<1> QED BY <1>2, <1>3, <1>4, <1>5 DEF Next, Preview, Forget, ChangeCase, AddModule, Finished, vars

LEMMA RequestsInvariance == Spec => [](RequestsFit /\ ImportClashesOnlyWithOthers)
<1>1. Init => RequestsFit /\ ImportClashesOnlyWithOthers
  BY InitRequestsFit
<1> QED BY <1>1, NextRequestsFit, Invariance, JInvariance, PTL DEF Spec

\* create gives up only when each of its attempts met another used code of the module, whoever else
\* creates, imports, links or deletes cases meanwhile (TestCasesService.create).
THEOREM OutrunByRivals == Spec => []OnlyOutrunByRivals
<1>1. RequestsFit => OnlyOutrunByRivals
  <2> SUFFICES ASSUME RequestsFit, NEW c \in Creates, pc[c] = "outrun"
               PROVE  Cardinality(UsedOf(local[c].code[1])) >= MaxAttempts
    BY DEF OnlyOutrunByRivals, UsedOf
  <2>1. CreateFits(c)
    BY DEF RequestsFit
  <2>2. Cardinality(UsedOf(local[c].code[1])) \in Nat
    BY UsedOfModule
  <2> QED BY <2>1, <2>2, BoundsAssumption DEF CreateFits
<1> QED BY <1>1, RequestsInvariance, PTL

\* An import is undone by a clash only when somebody took a code since it read them, whatever the
\* rows of its file say (ImportService.confirm).
THEOREM ImportsClashWithOthers == Spec => []ImportClashesOnlyWithOthers
BY RequestsInvariance, PTL
================================================================================
