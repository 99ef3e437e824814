----------------------- MODULE GitlabConnectionsProofs -----------------------
(***************************************************************************)
(* GitlabConnections, proved for every number of users, processes and      *)
(* requests.  A request keeps what it read of a row across several awaits  *)
(* while others refresh, relink and disconnect.  The proof rests on        *)
(* freshness: a pair that is on its way to a row was never in one, so what *)
(* a request read earlier can be revoked without touching what is stored   *)
(* now.                                                                    *)
(***************************************************************************)
EXTENDS GitlabConnections, FiniteSetTheorems, TLAPS

USE DEF NewPair, ViolatesGitlabUserId

Has(u) == conn[u] # None

\* The steps at which a request holds a pair that no row holds yet.
Holding == {"check", "previous", "upsert", "discard", "write", "revoke"}
Fresh(q) == pc[q] \in Holding

TokensFit ==
  \A q \in Requests : Fresh(q) =>
    /\ local[q].token \in live
    /\ \A u \in Users : Has(u) => conn[u].pair # local[q].token
    /\ \A r \in Requests : local[r].row # None => local[r].row.pair # local[q].token
    /\ \A r \in Requests \ {q} : Fresh(r) => local[r].token # local[q].token

\* No pair is in two rows.
StoredOnce ==
  /\ \A u \in Users : Has(u) => conn[u].pair \in 1 .. issued
  /\ \A u, v \in Users : Has(u) /\ Has(v) /\ u # v => conn[u].pair # conn[v].pair

\* A row that was read may be gone or changed; its pair is nowhere else.
RowFits(q) ==
  /\ local[q].row.pair \in 1 .. issued
  /\ \A u \in Users : Has(u) /\ conn[u].pair = local[q].row.pair =>
       u = local[q].user /\ conn[u].id = local[q].row.id /\ pc[q] # "retire"
RowsFit == \A q \in Requests : local[q].row # None => RowFits(q)

\* What the step a request is at says of what it has read.
ControlFits(q) ==
  /\ pc[q] \in {"new", "exchange", "check", "previous", "create"} => local[q].row = None
  /\ pc[q] \in RefreshSteps \cup {"read", "joined", "retire"} => local[q].row # None
  /\ pc[q] \in RefreshSteps \cup {"exchange", "check", "previous", "upsert"} => local[q].user \in Users
  /\ pc[q] \in {"check", "previous", "upsert"} => local[q].identity \in Identities
  /\ pc[q] = "create" => local[q].user \in Linking
  /\ pc[q] = "read" => local[q].user \in Users /\ local[q].instance \in Instances
  /\ pc[q] = "joined" => local[q].leader \in Calls
  /\ pc[q] = "write" => local[q].row.pair \notin live
ControlsFit == \A q \in Requests : ControlFits(q)

LinksFit ==
  /\ \A s \in Links : oauth[s].state = "open" => oauth[s].user \in Linking
  /\ \A s \in Links : pc[s] \in {"new", "create"} => oauth[s].state = "absent"
  /\ \A k \in Completions : local[k].link # None =>
       local[k].link \in Links /\ oauth[local[k].link].state = "used"

IInv ==
  /\ TypeOK /\ TokensFit /\ StoredOnce /\ RowsFit /\ ControlsFit /\ LinksFit
  /\ ActiveConnectionWorks /\ LinkUsedOnce

Core == TokensFit /\ StoredOnce /\ RowsFit /\ ActiveConnectionWorks

LEMMA InitIInv == Init => IInv
<1> SUFFICES ASSUME Init PROVE IInv
  OBVIOUS
<1>1. issued \in 0 .. MaxPairs /\ issued \in Nat /\ 0 \in 0 .. MaxLosses
  BY BoundsAssumption, FS_CardinalityType DEF Init
<1>2. PICK pair \in [Connected -> 1 .. issued], identity \in [Connected -> Identities] :
        /\ IsInjective(pair)
        /\ conn = [u \in Users |->
             IF u \in Connected THEN [id |-> pair[u], pair |-> pair[u],
                                      identity |-> identity[u], state |-> "ACTIVE"]
                                ELSE None]
  BY DEF Init
<1>2a. \A u, v \in Connected : pair[u] = pair[v] => u = v
  BY <1>2 DEF IsInjective
<1>3. /\ pc = [q \in Requests |-> "new"] /\ local = [q \in Requests |-> Blank]
      /\ oauth = [s \in Links |-> [user |-> None, state |-> "absent"]]
      /\ live = 1 .. issued /\ due = {} /\ lost = {} /\ losses = 0
      /\ refreshing = [x \in Instances \X Users |-> None]
  BY DEF Init
<1>4. Blank \in Local /\ Blank.row = None /\ Blank.link = None
  BY DEF Blank, Local
<1>5. \A u \in Connected : pair[u] \in Pairs /\ pair[u] \in 1 .. issued
  BY <1>1, BoundsAssumption DEF Pairs
<1>6. conn \in [Users -> Connection \cup {None}]
  BY <1>2, <1>5 DEF Connection
<1>7. TypeOK
  BY <1>1, <1>3, <1>4, <1>6 DEF TypeOK, OAuthState, Steps, Requests
<1>8. StoredOnce
  BY <1>2, <1>2a, <1>5 DEF StoredOnce, Has
<1>9. TokensFit /\ RowsFit /\ ControlsFit
  BY <1>3, <1>4 DEF TokensFit, RowsFit, ControlsFit, ControlFits, Fresh, Holding, RefreshSteps
<1>10. LinksFit /\ LinkUsedOnce
  BY <1>3, <1>4 DEF LinksFit, LinkUsedOnce, Requests
<1>11. ActiveConnectionWorks
  BY <1>2, <1>3, <1>5 DEF ActiveConnectionWorks
<1> QED BY <1>7, <1>8, <1>9, <1>10, <1>11 DEF IInv

------------------------------------------------------------------------------
(* What the steps of a request may do to the pairs and the rows *)

\* A step of request q: everybody else stays; most steps keep its link.
MoveOf(q) ==
  /\ pc' \in [Requests -> Steps] /\ local' \in [Requests -> Local]
  /\ \A r \in Requests \ {q} : pc'[r] = pc[r] /\ local'[r] = local[r]
StepOf(q) == MoveOf(q) /\ local'[q].link = local[q].link

KeepsRow(q) == local'[q].row = local[q].row /\ (local'[q].row # None => local'[q].user = local[q].user)

\* Rows are deleted or marked, but no row gets a pair.
RowsOnlyFade ==
  \A u \in Users : conn'[u] # None =>
    /\ Has(u) /\ conn'[u].pair = conn[u].pair /\ conn'[u].id = conn[u].id
    /\ conn'[u].state \in {conn[u].state, "NEEDS_RECONNECT"}

\* At most a pair that nobody needs is revoked.
NothingNeededGoes(q) ==
  /\ live' \subseteq live /\ issued' = issued /\ lost \subseteq lost'
  /\ \A p \in live \ live' :
       /\ \A u \in Users : Has(u) => conn[u].pair # p
       /\ \A r \in Requests \ {q} : Fresh(r) => local[r].token # p
       /\ pc'[q] \in Holding => local'[q].token # p

LEMMA QuietCore ==
  ASSUME IInv, NEW q \in Requests, MoveOf(q), KeepsRow(q), RowsOnlyFade, NothingNeededGoes(q),
         pc'[q] \in Holding => Fresh(q) /\ local'[q].token = local[q].token,
         pc'[q] # "retire", pc[q] = "write" => ~SamePair(q)
  PROVE  Core'
<1>1. TokensFit'
  BY DEF IInv, TokensFit, MoveOf, KeepsRow, RowsOnlyFade, NothingNeededGoes, Fresh, Has
<1>2. StoredOnce'
  BY DEF IInv, StoredOnce, RowsOnlyFade, NothingNeededGoes, Has
<1>3. RowsFit'
  <2> SUFFICES ASSUME NEW r \in Requests, local'[r].row # None
               PROVE  RowFits(r)'
    BY DEF RowsFit
  <2>1. RowFits(r) /\ local'[r].row = local[r].row /\ local'[r].user = local[r].user
    BY DEF IInv, RowsFit, MoveOf, KeepsRow
  <2>2. pc'[r] = "retire" => pc[r] = "retire"
    BY DEF MoveOf
  <2> QED BY <2>1, <2>2 DEF RowFits, RowsOnlyFade, NothingNeededGoes, Has
<1>4. ActiveConnectionWorks'
  <2> SUFFICES ASSUME NEW u \in Users, conn'[u] # None, conn'[u].state = "ACTIVE"
               PROVE  \/ conn'[u].pair \in live' \cup lost'
                      \/ \E c \in Calls : /\ pc'[c] = "write" /\ local'[c].user = u
                                         /\ local'[c].row.pair = conn'[u].pair
    BY DEF ActiveConnectionWorks
  <2>1. /\ Has(u) /\ conn[u].state = "ACTIVE" /\ conn'[u].pair = conn[u].pair
    BY DEF RowsOnlyFade
  <2>2. CASE conn[u].pair \in live \cup lost
    BY <2>1, <2>2 DEF NothingNeededGoes
  <2>3. ASSUME NEW c \in Calls, pc[c] = "write", local[c].user = u, local[c].row.pair = conn[u].pair
        PROVE  pc'[c] = "write" /\ local'[c].user = u /\ local'[c].row.pair = conn'[u].pair
    <3>1. c \in Requests /\ local[c].row # None
      BY <2>3 DEF Requests, IInv, ControlsFit, ControlFits, RefreshSteps
    <3>2. conn[u].id = local[c].row.id
      BY <2>1, <2>3, <3>1 DEF IInv, RowsFit, RowFits
    <3>3. SamePair(c)
      BY <2>1, <2>3, <3>2 DEF SamePair, Row, Has
    <3>4. c # q
      BY <2>3, <3>3
    <3> QED BY <2>1, <2>3, <3>1, <3>4 DEF MoveOf
  <2> QED BY <2>1, <2>2, <2>3 DEF IInv, ActiveConnectionWorks, Has
<1> QED BY <1>1, <1>2, <1>3, <1>4 DEF Core

\* The request reads a row, or deletes it.
LEMMA ReadCore ==
  ASSUME IInv, NEW q \in Requests, NEW u \in Users, StepOf(q),
         UNCHANGED <<live, issued, lost>>,
         UNCHANGED conn \/ conn' = [conn EXCEPT ![u] = None],
         local'[q].row = conn[u], local'[q].user = u,
         pc[q] # "write", pc'[q] \in Holding => Fresh(q) /\ local'[q].token = local[q].token,
         pc'[q] = "retire" => conn' = [conn EXCEPT ![u] = None]
  PROVE  Core'
<1>1. \A v \in Users : conn'[v] # None => Has(v) /\ conn'[v] = conn[v]
  BY DEF IInv, TypeOK, Has
<1>2. pc'[q] = "retire" => conn'[u] = None
  BY DEF IInv, TypeOK
<1>3. TokensFit'
  <2> SUFFICES ASSUME NEW r \in Requests, Fresh(r)'
               PROVE  /\ Fresh(r) /\ local'[r].token = local[r].token
                      /\ \A x \in Requests : local'[x].row # None =>
                           local'[x].row.pair # local'[r].token
    BY <1>1 DEF IInv, TokensFit, StepOf, MoveOf, Fresh, Has
  <2>1. Fresh(r) /\ local'[r].token = local[r].token
    BY DEF StepOf, MoveOf, Fresh
  <2> QED BY <2>1 DEF IInv, TokensFit, StepOf, MoveOf, Has
<1>4. StoredOnce'
  BY <1>1 DEF IInv, StoredOnce, Has
<1>5. RowsFit'
  <2> SUFFICES ASSUME NEW r \in Requests, local'[r].row # None
               PROVE  RowFits(r)'
    BY DEF RowsFit
  <2>1. CASE r = q
    BY <1>1, <1>2, <2>1 DEF IInv, StoredOnce, RowFits, Has
  <2>2. CASE r # q
    BY <1>1, <2>2 DEF IInv, RowsFit, RowFits, StepOf, MoveOf, Has
  <2> QED BY <2>1, <2>2
<1>6. ActiveConnectionWorks'
  <2>1. \A c \in Calls : pc[c] = "write" => pc'[c] = pc[c] /\ local'[c] = local[c]
    BY DEF StepOf, MoveOf, Requests
  <2> QED BY <1>1, <2>1 DEF IInv, ActiveConnectionWorks, Has
<1> QED BY <1>3, <1>4, <1>5, <1>6 DEF Core

\* The pair the request holds goes to the row of u.
LEMMA StoreCore ==
  ASSUME IInv, NEW q \in Requests, NEW u \in Users, StepOf(q), KeepsRow(q),
         UNCHANGED <<live, issued, lost>>,
         Fresh(q), pc'[q] \notin Holding,
         conn' \in [Users -> Connection \cup {None}], conn'[u].pair = local[q].token,
         \A v \in Users \ {u} : conn'[v] = conn[v],
         pc'[q] = "retire" \/ pc[q] = "write" => local[q].user = u
  PROVE  Core'
<1>1. /\ local[q].token \in live /\ local[q].token \in 1 .. issued
      /\ \A v \in Users : Has(v) => conn[v].pair # local[q].token
      /\ \A r \in Requests : local[r].row # None => local[r].row.pair # local[q].token
      /\ \A r \in Requests \ {q} : Fresh(r) => local[r].token # local[q].token
  BY DEF IInv, TokensFit, TypeOK
<1>2. TokensFit'
  <2> SUFFICES ASSUME NEW r \in Requests, Fresh(r)'
               PROVE  /\ r # q /\ Fresh(r) /\ local'[r].token = local[r].token
                      /\ \A v \in Users : conn'[v] # None => conn'[v].pair # local'[r].token
                      /\ \A x \in Requests : local'[x].row # None =>
                           local'[x].row.pair # local'[r].token
    BY DEF IInv, TokensFit, StepOf, MoveOf, Fresh, Has
  <2>1. r # q /\ Fresh(r) /\ local'[r].token = local[r].token
    BY DEF StepOf, MoveOf, Fresh
  <2> QED BY <1>1, <2>1 DEF IInv, TokensFit, StepOf, MoveOf, KeepsRow, Has
<1>3. StoredOnce'
  BY <1>1 DEF IInv, StoredOnce, Has
<1>4. RowsFit'
  <2> SUFFICES ASSUME NEW r \in Requests, local'[r].row # None
               PROVE  RowFits(r)'
    BY DEF RowsFit
  <2>1. RowFits(r) /\ local'[r].row = local[r].row /\ local'[r].user = local[r].user
    BY DEF IInv, RowsFit, StepOf, MoveOf, KeepsRow
  <2>2. local[r].row.pair # conn'[u].pair
    BY <1>1, <2>1
  <2>3. ASSUME NEW v \in Users, conn'[v] # None, conn'[v].pair = local[r].row.pair
        PROVE  v = local[r].user /\ conn'[v].id = local[r].row.id /\ pc'[r] # "retire"
    <3>1. v # u /\ conn'[v] = conn[v]
      BY <2>2, <2>3
    <3>2. v = local[r].user /\ conn[v].id = local[r].row.id /\ pc[r] # "retire"
      BY <2>1, <2>3, <3>1 DEF RowFits, Has
    <3>3. pc'[r] # "retire"
      BY <3>1, <3>2 DEF StepOf, MoveOf
    <3> QED BY <3>1, <3>2, <3>3
  <2> QED BY <2>1, <2>3 DEF RowFits, Has
<1>5. ActiveConnectionWorks'
  <2> SUFFICES ASSUME NEW v \in Users, conn'[v] # None, conn'[v].state = "ACTIVE", v # u
               PROVE  \/ conn'[v].pair \in live' \cup lost'
                      \/ \E c \in Calls : /\ pc'[c] = "write" /\ local'[c].user = v
                                         /\ local'[c].row.pair = conn'[v].pair
    BY <1>1 DEF ActiveConnectionWorks
  <2>1. conn'[v] = conn[v]
    OBVIOUS
  <2>2. CASE conn[v].pair \in live \cup lost
    BY <2>1, <2>2
  <2>3. ASSUME NEW c \in Calls, pc[c] = "write", local[c].user = v, local[c].row.pair = conn[v].pair
        PROVE  c # q
    BY <2>3
  <2> QED BY <2>1, <2>2, <2>3 DEF IInv, ActiveConnectionWorks, StepOf, MoveOf, Requests
<1> QED BY <1>2, <1>3, <1>4, <1>5 DEF Core

\* GitLab issues a pair to the request, or its answer is lost; old is spent.
LEMMA IssueCore ==
  ASSUME IInv, NEW q \in Requests, NEW old, StepOf(q), KeepsRow(q), Issue(old),
         UNCHANGED conn, lost \subseteq lost', ~Fresh(q),
         old \in Pairs => local[q].row # None /\ local[q].row.pair = old,
         old \notin Pairs \/ (pc'[q] = "write" /\ q \in Calls) \/ old \in lost',
         pc'[q] \in Holding => local'[q].token = issued + 1, pc'[q] # "retire"
  PROVE  Core' /\ live' \subseteq live \cup {issued + 1}
<1>1. /\ issued' = issued + 1 /\ live' = (live \ {old}) \cup {issued + 1}
      /\ issued \in Nat /\ live \subseteq 1 .. issued /\ issued + 1 \notin 1 .. issued
      /\ 1 .. issued \subseteq 1 .. issued' /\ 1 .. issued \subseteq Pairs
  BY BoundsAssumption DEF Issue, IInv, TypeOK, Pairs
<1>2. ASSUME NEW r \in Requests \ {q}, Fresh(r)'
      PROVE  /\ Fresh(r) /\ local'[r].token = local[r].token
             /\ local[r].token \in live' /\ local[r].token \in 1 .. issued
  <2>1. Fresh(r) /\ local'[r].token = local[r].token
    BY <1>2 DEF StepOf, MoveOf, Fresh
  <2>2. local[r].token \in live /\ local[r].token \in Pairs
    BY <1>1, <2>1 DEF IInv, TokensFit
  <2>3. local[r].token # old
    BY <1>1, <2>1, <2>2 DEF IInv, TokensFit
  <2> QED BY <1>1, <2>1, <2>2, <2>3
<1>3. ASSUME Fresh(q)'
      PROVE  local'[q].token = issued + 1 /\ issued + 1 \in live'
  BY <1>1, <1>3 DEF Fresh
<1>4. \A r \in Requests : local'[r].row # None =>
        local'[r].row = local[r].row /\ local'[r].row.pair \in 1 .. issued
  BY DEF IInv, RowsFit, RowFits, StepOf, MoveOf, KeepsRow
<1>5. \A u \in Users : Has(u) => conn[u].pair \in 1 .. issued
  BY DEF IInv, StoredOnce
<1>6. TokensFit'
  <2> SUFFICES ASSUME NEW r \in Requests, Fresh(r)'
               PROVE  /\ local'[r].token \in live'
                      /\ \A u \in Users : Has(u) => conn[u].pair # local'[r].token
                      /\ \A x \in Requests : local'[x].row # None => local'[x].row.pair # local'[r].token
                      /\ \A x \in Requests \ {r} : Fresh(x)' => local'[x].token # local'[r].token
    BY DEF TokensFit, Has
  <2>1. CASE r = q
    BY <1>1, <1>2, <1>3, <1>4, <1>5, <2>1
  <2>2. CASE r # q
    <3>1. /\ Fresh(r) /\ local'[r].token = local[r].token
          /\ local[r].token \in live' /\ local[r].token \in 1 .. issued
      BY <1>2, <2>2
    <3>2. ASSUME NEW x \in Requests \ {r}, Fresh(x)' PROVE local'[x].token # local'[r].token
      <4>1. CASE x = q
        BY <1>1, <1>3, <3>1, <3>2, <4>1
      <4>2. CASE x # q
        BY <1>2, <3>1, <3>2, <4>2 DEF IInv, TokensFit
      <4> QED BY <4>1, <4>2
    <3> QED BY <1>4, <3>1, <3>2 DEF IInv, TokensFit
  <2> QED BY <2>1, <2>2
<1>7. StoredOnce'
  BY <1>1 DEF IInv, StoredOnce, Has
<1>8. RowsFit'
  BY <1>1 DEF IInv, RowsFit, RowFits, StepOf, MoveOf, KeepsRow, Has
<1>9. ActiveConnectionWorks'
  <2> SUFFICES ASSUME NEW u \in Users, Has(u), conn[u].state = "ACTIVE"
               PROVE  \/ conn[u].pair \in live' \cup lost'
                      \/ \E c \in Calls : /\ pc'[c] = "write" /\ local'[c].user = u
                                         /\ local'[c].row.pair = conn[u].pair
    BY DEF ActiveConnectionWorks, Has
  <2>1. CASE conn[u].pair = old
    <3>1. old \in Pairs
      BY <1>1, <1>5, <2>1
    <3>2. local[q].row # None /\ local[q].row.pair = old /\ local[q].user = u
      BY <2>1, <3>1 DEF IInv, RowsFit, RowFits
    <3>3. local'[q].row = local[q].row /\ local'[q].user = u
      BY <3>2 DEF KeepsRow
    <3> QED BY <2>1, <3>1, <3>2, <3>3
  <2>2. CASE conn[u].pair # old /\ conn[u].pair \in live \cup lost
    BY <1>1, <2>2
  <2>3. ASSUME NEW c \in Calls, pc[c] = "write", local[c].user = u, local[c].row.pair = conn[u].pair
        PROVE  c \in Requests \ {q}
    BY <2>3 DEF Requests, Fresh, Holding
  <2> QED BY <2>1, <2>2, <2>3 DEF IInv, ActiveConnectionWorks, StepOf, MoveOf, Has
<1> QED BY <1>1, <1>6, <1>7, <1>8, <1>9 DEF Core

------------------------------------------------------------------------------
(* What the others keep *)

LEMMA ControlStays ==
  ASSUME IInv, NEW q \in Requests, MoveOf(q), live' \subseteq live \cup {issued + 1}, ControlFits(q)'
  PROVE  ControlsFit'
<1> SUFFICES ASSUME NEW r \in Requests \ {q} PROVE ControlFits(r)'
  BY DEF ControlsFit
<1>1. ControlFits(r) /\ pc'[r] = pc[r] /\ local'[r] = local[r]
  BY DEF IInv, ControlsFit, MoveOf
<1>2. pc[r] = "write" => local[r].row.pair \in 1 .. issued
  BY DEF IInv, ControlsFit, ControlFits, RefreshSteps, RowsFit, RowFits
<1>3. issued + 1 \notin 1 .. issued
  BY BoundsAssumption DEF IInv, TypeOK
<1> QED BY <1>1, <1>2, <1>3 DEF ControlFits

LEMMA LinksStay ==
  ASSUME IInv, NEW q \in Requests, StepOf(q), UNCHANGED oauth, pc'[q] \notin {"new", "create"}
  PROVE  LinksFit' /\ LinkUsedOnce'
<1>1. \A k \in Completions : local'[k].link = local[k].link
  BY DEF StepOf, MoveOf, Requests
<1>2. \A s \in Links : pc'[s] \in {"new", "create"} => pc'[s] = pc[s]
  BY DEF StepOf, MoveOf, Requests
<1> QED BY <1>1, <1>2 DEF IInv, LinksFit, LinkUsedOnce

\* TypeOK without pc and local.
WorldOK ==
  /\ conn \in [Users -> Connection \cup {None}]
  /\ oauth \in [Links -> OAuthState]
  /\ issued \in 0 .. MaxPairs
  /\ live \subseteq 1 .. issued
  /\ due \subseteq 1 .. issued
  /\ lost \subseteq 1 .. issued
  /\ losses \in 0 .. MaxLosses
  /\ refreshing \in [Instances \X Users -> Calls \cup {None}]

\* A request goes on; only what its class of step says of the pairs and the rows is left to show.
LEMMA Assemble ==
  ASSUME IInv, NEW q \in Requests, StepOf(q), WorldOK', UNCHANGED oauth,
         live' \subseteq live \cup {issued + 1}, pc'[q] \notin {"new", "create"}, ControlFits(q)', Core'
  PROVE  IInv'
<1>1. TypeOK'
  BY DEF WorldOK, TypeOK, StepOf, MoveOf
<1> QED BY <1>1, ControlStays, LinksStay DEF IInv, Core, StepOf

\* The request only looks at the rows, or ends.
LEMMA CalmIInv ==
  ASSUME IInv, NEW q \in Requests, StepOf(q), KeepsRow(q), UNCHANGED <<conn, oauth, gitlab>>,
         refreshing' \in [Instances \X Users -> Calls \cup {None}],
         pc'[q] \notin {"new", "create", "retire"}, ControlFits(q)',
         pc'[q] \in Holding => Fresh(q) /\ local'[q].token = local[q].token,
         pc[q] = "write" => ~SamePair(q)
  PROVE  IInv'
<1>1. RowsOnlyFade
  BY DEF RowsOnlyFade, Has
<1>2. NothingNeededGoes(q)
  BY DEF NothingNeededGoes, gitlab
<1>3. Core'
  BY <1>1, <1>2, QuietCore DEF StepOf
<1>4. WorldOK'
  BY DEF IInv, TypeOK, WorldOK, gitlab
<1> QED BY <1>3, <1>4, Assemble DEF gitlab

LEMMA GotoFacts ==
  ASSUME IInv, NEW q \in Requests, NEW step \in Steps, Goto(q, step), UNCHANGED local
  PROVE  StepOf(q) /\ KeepsRow(q) /\ pc'[q] = step
BY DEF IInv, TypeOK, Goto, StepOf, MoveOf, KeepsRow

LEMMA TokenFacts ==
  ASSUME IInv, NEW q \in Requests, NEW step \in Steps, Goto(q, step),
         NEW p \in Pairs \cup {None}, Keep(q, "token", p)
  PROVE  /\ StepOf(q) /\ KeepsRow(q) /\ pc'[q] = step /\ local'[q].token = p
         /\ local'[q].user = local[q].user /\ local'[q].row = local[q].row
BY DEF IInv, TypeOK, Goto, Keep, StepOf, MoveOf, KeepsRow, Local

LEMMA LeaderFacts ==
  ASSUME IInv, NEW q \in Requests, NEW step \in Steps, Goto(q, step),
         NEW c \in Calls, Keep(q, "leader", c)
  PROVE  StepOf(q) /\ KeepsRow(q) /\ pc'[q] = step /\ local'[q].leader = c
BY DEF IInv, TypeOK, Goto, Keep, StepOf, MoveOf, KeepsRow, Local

\* A refresh settles, with a pair or with an error.
LEMMA SettleFacts ==
  ASSUME IInv, NEW c \in Calls, (\E p \in Pairs : SettleWith(c, p)) \/ Fail(c)
  PROVE  /\ StepOf(c) /\ KeepsRow(c) /\ pc'[c] \in {"use", "refused"} /\ ControlFits(c)'
         /\ refreshing' \in [Instances \X Users -> Calls \cup {None}]
<1>1. c \in Requests /\ {"use", "refused"} \subseteq Steps
  BY DEF Requests, Steps, Ends
<1>2. refreshing' \in [Instances \X Users -> Calls \cup {None}]
  BY DEF IInv, TypeOK, SettleWith, Fail, Leave
<1>3. StepOf(c) /\ KeepsRow(c) /\ pc'[c] \in {"use", "refused"}
  BY <1>1, TokenFacts DEF SettleWith, Fail
<1>4. ControlFits(c)'
  BY <1>3 DEF ControlFits, RefreshSteps
<1> QED BY <1>2, <1>3, <1>4

LEMMA SettleIInv ==
  ASSUME IInv, NEW c \in Calls, (\E p \in Pairs : SettleWith(c, p)) \/ Fail(c),
         UNCHANGED <<conn, oauth, gitlab>>, pc[c] = "write" => ~SamePair(c)
  PROVE  IInv'
<1>1. c \in Requests
  BY DEF Requests
<1> QED BY <1>1, SettleFacts, CalmIInv DEF Holding

\* The row a call re-reads.
LEMMA RowOfCall ==
  ASSUME IInv, NEW c \in Calls, Row(c) # None, pc[c] \in RefreshSteps
  PROVE  Row(c) \in Connection /\ Row(c).pair \in Pairs /\ Row(c) = conn[local[c].user]
BY DEF IInv, TypeOK, ControlsFit, ControlFits, Row, Connection, Requests

------------------------------------------------------------------------------
(* accessToken, refresh and withToken *)

LEMMA ReadConnectionIInv ==
  ASSUME IInv, NEW c \in Calls, ReadConnection(c)
  PROVE  IInv'
<1>1. PICK u \in Users, i \in Instances :
        /\ local' = [local EXCEPT ![c].user = u, ![c].instance = i, ![c].row = conn[u]]
        /\ Goto(c, IF conn[u] # None /\ conn[u].state = "ACTIVE" THEN "read" ELSE "refused")
        /\ pc[c] = "new" /\ UNCHANGED <<conn, oauth, gitlab, refreshing>>
  BY DEF ReadConnection
<1>2. c \in Requests /\ conn[u] \in Connection \cup {None}
  BY DEF Requests, IInv, TypeOK
<1>3. /\ StepOf(c) /\ local'[c].row = conn[u] /\ local'[c].user = u /\ local'[c].instance = i
      /\ pc'[c] \in {"read", "refused"} /\ (pc'[c] = "read" => conn[u] # None)
  <2>1. /\ local' \in [Requests -> Local] /\ \A r \in Requests \ {c} : local'[r] = local[r]
        /\ local'[c].row = conn[u] /\ local'[c].user = u /\ local'[c].instance = i
        /\ local'[c].link = local[c].link
    <3>1. local[c] \in Local /\ local \in [Requests -> Local]
      BY <1>2 DEF IInv, TypeOK
    <3>2. [local[c] EXCEPT !.user = u, !.instance = i, !.row = conn[u]] \in Local
      BY <1>2, <3>1 DEF Local
    <3>3. local' = [local EXCEPT ![c] = [local[c] EXCEPT !.user = u, !.instance = i, !.row = conn[u]]]
      BY <1>1, <1>2, <3>1 DEF Local
    <3> QED BY <1>2, <3>1, <3>2, <3>3 DEF Local
  <2>2. /\ pc' \in [Requests -> Steps] /\ \A r \in Requests \ {c} : pc'[r] = pc[r]
        /\ pc'[c] \in {"read", "refused"} /\ (pc'[c] = "read" => conn[u] # None)
    BY <1>1, <1>2 DEF IInv, TypeOK, Goto, Steps, Ends
  <2> QED BY <2>1, <2>2 DEF StepOf, MoveOf
<1>4. Core'
  BY <1>1, <1>2, <1>3, ReadCore DEF gitlab, Holding
<1>5. ControlFits(c)'
  BY <1>3 DEF ControlFits, RefreshSteps
<1>6. WorldOK'
  BY <1>1 DEF IInv, TypeOK, WorldOK, gitlab
<1> QED BY <1>1, <1>2, <1>3, <1>4, <1>5, <1>6, Assemble DEF gitlab

LEMMA DecideIInv ==
  ASSUME IInv, NEW c \in Calls, Decide(c)
  PROVE  IInv'
<1>1. /\ c \in Requests /\ pc[c] = "read" /\ local[c].row # None
      /\ local[c].user \in Users /\ local[c].instance \in Instances
      /\ UNCHANGED <<conn, oauth, gitlab>>
  BY DEF Decide, Requests, IInv, ControlsFit, ControlFits
<1>2. local[c].row.pair \in Pairs
  BY <1>1 DEF IInv, TypeOK, Local, Connection
<1>3. refreshing' \in [Instances \X Users -> Calls \cup {None}]
  BY DEF Decide, IInv, TypeOK
<1>3a. {"use", "joined", "reread"} \subseteq Steps
  BY DEF Steps, RefreshSteps
<1>4. /\ StepOf(c) /\ KeepsRow(c) /\ pc'[c] \in {"use", "joined", "reread"}
      /\ (pc'[c] = "joined" => local'[c].leader \in Calls)
  <2>1. CASE Keep(c, "token", local[c].row.pair) /\ Goto(c, "use")
    BY <1>1, <1>2, <1>3a, <2>1, TokenFacts
  <2>2. CASE Keep(c, "leader", refreshing[Here(c)]) /\ Goto(c, "joined")
             /\ refreshing[Here(c)] # None
    <3>1. refreshing[Here(c)] \in Calls
      BY <1>1, <2>2 DEF IInv, TypeOK, Here
    <3> QED BY <1>1, <1>3a, <2>2, <3>1, LeaderFacts
  <2>3. CASE Goto(c, "reread") /\ UNCHANGED local
    BY <1>1, <1>3a, <2>3, GotoFacts
  <2> QED BY <2>1, <2>2, <2>3 DEF Decide
<1>5. ControlFits(c)'
  BY <1>1, <1>4 DEF ControlFits, RefreshSteps, KeepsRow
<1> QED BY <1>1, <1>3, <1>4, <1>5, CalmIInv DEF Holding

\* A refresh goes on with what it knows.
LEMMA GoOnIInv ==
  ASSUME IInv, NEW c \in Calls, pc[c] \in RefreshSteps,
         NEW step \in {"send", "rejected", "mark", "latest", "revoke"}, Goto(c, step),
         UNCHANGED <<conn, oauth, gitlab, refreshing, local>>,
         step = "revoke" => pc[c] = "write", pc[c] = "write" => ~SamePair(c)
  PROVE  IInv'
<1>1. c \in Requests /\ step \in Steps
  BY DEF Requests, Steps, RefreshSteps
<1>2. StepOf(c) /\ KeepsRow(c) /\ pc'[c] = step
  BY <1>1, GotoFacts
<1>3. local[c].row # None /\ local[c].user \in Users
  BY <1>1 DEF IInv, ControlsFit, ControlFits
<1>4. ControlFits(c)'
  BY <1>2, <1>3 DEF ControlFits, gitlab
<1>5. pc'[c] \in Holding => Fresh(c)
  BY <1>2 DEF Holding, Fresh
<1>6. refreshing' \in [Instances \X Users -> Calls \cup {None}]
  BY DEF IInv, TypeOK
<1> QED BY <1>1, <1>2, <1>4, <1>5, <1>6, CalmIInv

LEMMA JoinedIInv ==
  ASSUME IInv, NEW c \in Calls, Joined(c)
  PROVE  IInv'
<1> DEFINE l == local[c].leader
<1>1. /\ c \in Requests /\ pc[c] = "joined" /\ l \in Calls /\ l \in Requests
      /\ UNCHANGED <<conn, oauth, gitlab, refreshing>>
  BY DEF Joined, Requests, IInv, ControlsFit, ControlFits
<1>2. local[l].token \in Pairs \cup {None}
  BY <1>1 DEF IInv, TypeOK, Local
<1>3. {"use", "refused"} \subseteq Steps
  BY DEF Steps, Ends
<1>4. StepOf(c) /\ KeepsRow(c) /\ pc'[c] \in {"use", "refused"}
  <2>1. CASE Keep(c, "token", local[l].token) /\ Goto(c, "use")
    BY <1>1, <1>2, <1>3, <2>1, TokenFacts
  <2>2. CASE Goto(c, "refused") /\ UNCHANGED local
    BY <1>1, <1>3, <2>2, GotoFacts
  <2> QED BY <2>1, <2>2 DEF Joined
<1>5. ControlFits(c)'
  BY <1>4 DEF ControlFits, RefreshSteps
<1>6. refreshing' \in [Instances \X Users -> Calls \cup {None}]
  BY <1>1 DEF IInv, TypeOK
<1> QED BY <1>1, <1>4, <1>5, <1>6, CalmIInv DEF Holding

LEMMA RereadIInv ==
  ASSUME IInv, NEW c \in Calls, Reread(c)
  PROVE  IInv'
<1>1. pc[c] = "reread" /\ pc[c] \in RefreshSteps /\ UNCHANGED <<conn, oauth, gitlab>>
  BY DEF Reread, RefreshSteps
<1>2. CASE Row(c) = None /\ Fail(c)
  BY <1>1, <1>2, SettleIInv
<1>3. CASE Row(c) # None /\ SettleWith(c, Row(c).pair)
  BY <1>1, <1>3, RowOfCall, SettleIInv
<1>4. CASE Goto(c, "send") /\ UNCHANGED <<local, refreshing>>
  BY <1>1, <1>4, GoOnIInv
<1> QED BY <1>2, <1>3, <1>4 DEF Reread

LEMMA AfterRejectionIInv ==
  ASSUME IInv, NEW c \in Calls, AfterRejection(c)
  PROVE  IInv'
<1>1. pc[c] = "rejected" /\ pc[c] \in RefreshSteps /\ UNCHANGED <<conn, oauth, gitlab>>
  BY DEF AfterRejection, RefreshSteps
<1>2. CASE Row(c) # None /\ SettleWith(c, Row(c).pair)
  BY <1>1, <1>2, RowOfCall, SettleIInv
<1>3. CASE Goto(c, "mark") /\ UNCHANGED <<local, refreshing>>
  BY <1>1, <1>3, GoOnIInv
<1> QED BY <1>2, <1>3 DEF AfterRejection

LEMMA TakeLatestIInv ==
  ASSUME IInv, NEW c \in Calls, TakeLatest(c) \/ AfterLostRace(c)
  PROVE  IInv'
<1>1. pc[c] # "write" /\ pc[c] \in RefreshSteps /\ UNCHANGED <<conn, oauth, gitlab>>
  BY DEF TakeLatest, AfterLostRace, RefreshSteps
<1>2. CASE Fail(c)
  BY <1>1, <1>2, SettleIInv
<1>3. CASE Row(c) # None /\ SettleWith(c, Row(c).pair)
  BY <1>1, <1>3, RowOfCall, SettleIInv
<1> QED BY <1>2, <1>3 DEF TakeLatest, AfterLostRace

LEMMA UseIInv ==
  ASSUME IInv, NEW c \in Calls, Use(c)
  PROVE  IInv'
<1>1. /\ c \in Requests /\ pc[c] = "use" /\ UNCHANGED <<conn, oauth, gitlab, refreshing, local>>
      /\ {"done", "mark user"} \subseteq Steps
  BY DEF Use, Requests, Steps, Ends
<1>2. StepOf(c) /\ KeepsRow(c) /\ pc'[c] \in {"done", "mark user"}
  <2>1. CASE Goto(c, "done")
    BY <1>1, <2>1, GotoFacts
  <2>2. CASE Goto(c, "mark user")
    BY <1>1, <2>2, GotoFacts
  <2> QED BY <2>1, <2>2 DEF Use
<1>3. ControlFits(c)'
  BY <1>2 DEF ControlFits, RefreshSteps
<1>4. refreshing' \in [Instances \X Users -> Calls \cup {None}]
  BY <1>1 DEF IInv, TypeOK
<1> QED BY <1>1, <1>2, <1>3, <1>4, CalmIInv DEF Holding

\* What GitLab's endpoints leave in order.
LEMMA IssueWorld ==
  ASSUME IInv, NEW old, Issue(old), UNCHANGED <<conn, oauth, due>>,
         refreshing' \in [Instances \X Users -> Calls \cup {None}],
         UNCHANGED <<lost, losses>> \/ \E pairs \in SUBSET (1 .. issued + 1) : Lose(pairs)
  PROVE  WorldOK' /\ lost \subseteq lost'
<1>1. /\ issued \in Nat /\ issued' = issued + 1 /\ issued' \in 0 .. MaxPairs
      /\ live' \subseteq live \cup {issued + 1} /\ 1 .. issued \subseteq 1 .. issued'
      /\ issued + 1 \in 1 .. issued'
  BY BoundsAssumption DEF IInv, TypeOK, Issue
<1>2. lost' \subseteq 1 .. issued' /\ losses' \in 0 .. MaxLosses /\ lost \subseteq lost'
  <2>1. CASE UNCHANGED <<lost, losses>>
    BY <1>1, <2>1 DEF IInv, TypeOK
  <2>2. ASSUME NEW pairs \in SUBSET (1 .. issued + 1), Lose(pairs)
        PROVE  lost' \subseteq 1 .. issued' /\ losses' \in 0 .. MaxLosses /\ lost \subseteq lost'
    <3>1. lost' = lost \cup pairs /\ losses' = losses + 1 /\ losses < MaxLosses
      BY <2>2 DEF Lose
    <3>2. lost' \subseteq 1 .. issued'
      BY <1>1, <3>1 DEF IInv, TypeOK
    <3>3. losses' \in 0 .. MaxLosses
      BY <3>1, BoundsAssumption DEF IInv, TypeOK
    <3> QED BY <3>1, <3>2, <3>3
  <2> QED BY <2>1, <2>2
<1> QED BY <1>1, <1>2 DEF IInv, TypeOK, WorldOK

LEMMA RevokeWorld ==
  ASSUME IInv, NEW p \in 1 .. issued, Revoke(p), UNCHANGED <<conn, oauth, refreshing>>
  PROVE  /\ WorldOK' /\ live' \subseteq live /\ live \ live' \subseteq {p}
         /\ issued' = issued /\ lost \subseteq lost'
<1>1. lost' \subseteq 1 .. issued /\ losses' \in 0 .. MaxLosses /\ lost \subseteq lost'
  <2>1. CASE UNCHANGED <<lost, losses>>
    BY <2>1 DEF IInv, TypeOK
  <2>2. CASE Lose({p})
    <3>1. lost' = lost \cup {p} /\ losses' = losses + 1 /\ losses < MaxLosses
      BY <2>2 DEF Lose
    <3>2. losses' \in 0 .. MaxLosses
      BY <3>1, BoundsAssumption DEF IInv, TypeOK
    <3> QED BY <3>1, <3>2 DEF IInv, TypeOK
  <2> QED BY <2>1, <2>2 DEF Revoke
<1> QED BY <1>1 DEF IInv, TypeOK, WorldOK, Revoke, Lose

LEMMA SendRefreshIInv ==
  ASSUME IInv, NEW c \in Calls, SendRefresh(c)
  PROVE  IInv'
<1> DEFINE p == local[c].row.pair
<1>1. /\ pc[c] = "send" /\ pc[c] \in RefreshSteps /\ ~Fresh(c) /\ UNCHANGED <<conn, oauth, due>>
      /\ c \in Requests /\ local[c].row # None /\ local[c].user \in Users
  BY DEF SendRefresh, RefreshSteps, Requests, Fresh, Holding, IInv, ControlsFit, ControlFits
<1>2. issued < MaxPairs => issued + 1 \in Pairs
  BY BoundsAssumption DEF Pairs, IInv, TypeOK
<1>2a. p \in 1 .. issued /\ issued \in Nat
  BY <1>1, BoundsAssumption DEF IInv, TypeOK, RowsFit, RowFits
<1>3. ASSUME Issue(p), Keep(c, "token", issued + 1), Goto(c, "write"), UNCHANGED <<lost, losses, refreshing>>
      PROVE  IInv'
  <2>1. StepOf(c) /\ KeepsRow(c) /\ pc'[c] = "write" /\ local'[c].token = issued + 1
    BY <1>1, <1>2, <1>2a, <1>3, TokenFacts DEF Issue, Steps, RefreshSteps
  <2>2. Core' /\ live' \subseteq live \cup {issued + 1}
    BY <1>1, <1>3, <2>1, IssueCore
  <2>3. WorldOK'
    <3>1. refreshing' \in [Instances \X Users -> Calls \cup {None}]
      BY <1>3 DEF IInv, TypeOK
    <3> QED BY <1>1, <1>3, <3>1, IssueWorld
  <2>3a. p \notin live'
    BY <1>2a, <1>3 DEF Issue
  <2>4. ControlFits(c)'
    BY <1>1, <2>1, <2>3a DEF ControlFits, RefreshSteps, KeepsRow
  <2> QED BY <1>1, <2>1, <2>2, <2>3, <2>4, Assemble
<1>4. ASSUME Issue(p), Lose({p, issued + 1}), Fail(c)
      PROVE  IInv'
  <2>1. /\ StepOf(c) /\ KeepsRow(c) /\ pc'[c] \in {"use", "refused"} /\ ControlFits(c)'
        /\ refreshing' \in [Instances \X Users -> Calls \cup {None}]
    BY <1>4, SettleFacts
  <2>2. WorldOK' /\ lost \subseteq lost' /\ p \in lost'
    <3>1. {p, issued + 1} \in SUBSET (1 .. issued + 1)
      BY <1>2a
    <3>2. p \in lost'
      BY <1>4 DEF Lose
    <3> QED BY <1>1, <1>4, <2>1, <3>1, <3>2, IssueWorld
  <2>3. Core' /\ live' \subseteq live \cup {issued + 1}
    BY <1>1, <1>4, <2>1, <2>2, IssueCore DEF Holding
  <2> QED BY <1>1, <2>1, <2>2, <2>3, Assemble
<1>5. CASE Goto(c, "rejected") /\ UNCHANGED <<live, issued, lost, losses, refreshing, local>>
  BY <1>1, <1>5, GoOnIInv DEF gitlab
<1>6. CASE Fail(c) /\ UNCHANGED <<live, issued, lost, losses>>
  BY <1>1, <1>6, SettleIInv DEF gitlab
<1> QED BY <1>3, <1>4, <1>5, <1>6 DEF SendRefresh

LEMMA MarkRejectedIInv ==
  ASSUME IInv, NEW c \in Calls, MarkRejected(c)
  PROVE  IInv'
<1>1. /\ pc[c] = "mark" /\ pc[c] \in RefreshSteps /\ UNCHANGED <<oauth, gitlab>>
      /\ c \in Requests /\ local[c].user \in Users
  BY DEF MarkRejected, RefreshSteps, Requests, IInv, ControlsFit, ControlFits
<1>2. ASSUME SamePair(c), conn' = [conn EXCEPT ![local[c].user].state = "NEEDS_RECONNECT"], Fail(c)
      PROVE  IInv'
  <2>1. conn[local[c].user] \in Connection /\ conn[local[c].user] # None
    BY <1>1, <1>2 DEF SamePair, Row, IInv, TypeOK
  <2>2. conn' \in [Users -> Connection \cup {None}] /\ RowsOnlyFade
    BY <1>1, <1>2, <2>1 DEF IInv, TypeOK, Connection, RowsOnlyFade, Has
  <2>3. /\ StepOf(c) /\ KeepsRow(c) /\ pc'[c] \in {"use", "refused"} /\ ControlFits(c)'
        /\ refreshing' \in [Instances \X Users -> Calls \cup {None}]
    BY <1>2, SettleFacts
  <2>4. NothingNeededGoes(c)
    BY <1>1 DEF NothingNeededGoes, gitlab
  <2>5. Core'
    BY <1>1, <2>2, <2>3, <2>4, QuietCore DEF StepOf, Holding
  <2>6. WorldOK'
    BY <1>1, <2>2, <2>3 DEF IInv, TypeOK, WorldOK, gitlab
  <2> QED BY <1>1, <2>3, <2>5, <2>6, Assemble DEF gitlab
<1>3. CASE Goto(c, "latest") /\ UNCHANGED <<conn, refreshing, local>>
  BY <1>1, <1>3, GoOnIInv
<1> QED BY <1>2, <1>3 DEF MarkRejected

LEMMA WriteRefreshedIInv ==
  ASSUME IInv, NEW c \in Calls, WriteRefreshed(c)
  PROVE  IInv'
<1> DEFINE u == local[c].user
<1>1. /\ pc[c] = "write" /\ pc[c] \in RefreshSteps /\ Fresh(c) /\ UNCHANGED <<oauth, gitlab>>
      /\ c \in Requests /\ u \in Users
  BY DEF WriteRefreshed, RefreshSteps, Requests, Fresh, Holding, IInv, ControlsFit, ControlFits
<1>2. local[c].token \in Pairs
  <2>1. local[c].token \in 1 .. issued /\ issued \in 0 .. MaxPairs
    BY <1>1 DEF IInv, TokensFit, TypeOK
  <2> QED BY <2>1, BoundsAssumption DEF Pairs
<1>3. ASSUME SamePair(c), StoreRefreshed(c), SettleWith(c, local[c].token)
      PROVE  IInv'
  <2>1. conn[u] \in Connection
    BY <1>1, <1>3 DEF SamePair, Row, IInv, TypeOK
  <2>2. /\ conn' \in [Users -> Connection \cup {None}] /\ conn'[u].pair = local[c].token
        /\ \A v \in Users \ {u} : conn'[v] = conn[v]
    BY <1>1, <1>2, <1>3, <2>1 DEF IInv, TypeOK, Connection, StoreRefreshed
  <2>3. /\ StepOf(c) /\ KeepsRow(c) /\ pc'[c] \in {"use", "refused"} /\ ControlFits(c)'
        /\ refreshing' \in [Instances \X Users -> Calls \cup {None}]
    BY <1>2, <1>3, SettleFacts
  <2>4. Core'
    BY <1>1, <2>2, <2>3, StoreCore DEF Holding, gitlab
  <2>5. WorldOK'
    BY <1>1, <2>2, <2>3 DEF IInv, TypeOK, WorldOK, gitlab
  <2> QED BY <1>1, <2>3, <2>4, <2>5, Assemble DEF gitlab
<1>4. CASE ~SamePair(c) /\ Goto(c, "revoke") /\ UNCHANGED <<conn, refreshing, local>>
  BY <1>1, <1>4, GoOnIInv
<1> QED BY <1>3, <1>4 DEF WriteRefreshed

\* A request revokes the pair it holds, which no row and no other request has.
LEMMA RevokeOwnIInv ==
  ASSUME IInv, NEW q \in Requests, Fresh(q), pc[q] # "write", Revoke(local[q].token),
         NEW step \in {"after", "refused"}, step = "after" => pc[q] \in RefreshSteps, Goto(q, step),
         UNCHANGED <<conn, oauth, refreshing, local>>
  PROVE  IInv'
<1>1. /\ local[q].token \in 1 .. issued
      /\ \A u \in Users : Has(u) => conn[u].pair # local[q].token
      /\ \A r \in Requests \ {q} : Fresh(r) => local[r].token # local[q].token
  BY DEF IInv, TypeOK, TokensFit
<1>2. StepOf(q) /\ KeepsRow(q) /\ pc'[q] = step
  BY GotoFacts DEF Steps, RefreshSteps, Ends
<1>3. /\ WorldOK' /\ live' \subseteq live /\ live \ live' \subseteq {local[q].token}
      /\ issued' = issued /\ lost \subseteq lost'
  BY <1>1, RevokeWorld
<1>4. NothingNeededGoes(q)
  BY <1>1, <1>2, <1>3 DEF NothingNeededGoes, Holding
<1>5. RowsOnlyFade
  BY DEF RowsOnlyFade, Has
<1>6. Core'
  BY <1>2, <1>4, <1>5, QuietCore DEF StepOf, Holding
<1>7. ControlFits(q)'
  BY <1>2 DEF IInv, ControlsFit, ControlFits, RefreshSteps, KeepsRow
<1> QED BY <1>2, <1>3, <1>6, <1>7, Assemble

LEMMA RevokeUnstoredIInv ==
  ASSUME IInv, NEW c \in Calls, RevokeUnstored(c)
  PROVE  IInv'
BY RevokeOwnIInv DEF RevokeUnstored, Requests, Fresh, Holding, RefreshSteps

LEMMA MarkNeedsReconnectIInv ==
  ASSUME IInv, NEW c \in Calls, MarkNeedsReconnect(c)
  PROVE  IInv'
<1>1. /\ c \in Requests /\ pc[c] = "mark user" /\ UNCHANGED <<oauth, gitlab, refreshing, local>>
      /\ "refused" \in Steps
  BY DEF MarkNeedsReconnect, Requests, Steps, Ends
<1>2. StepOf(c) /\ KeepsRow(c) /\ pc'[c] = "refused"
  BY <1>1, GotoFacts DEF MarkNeedsReconnect
<1>3. conn' \in [Users -> Connection \cup {None}] /\ RowsOnlyFade
  BY DEF MarkNeedsReconnect, IInv, TypeOK, Connection, RowsOnlyFade, Has
<1>4. NothingNeededGoes(c)
  BY <1>1 DEF NothingNeededGoes, gitlab
<1>5. Core'
  BY <1>1, <1>2, <1>3, <1>4, QuietCore DEF StepOf, Holding
<1>6. ControlFits(c)'
  BY <1>2 DEF ControlFits, RefreshSteps
<1>7. WorldOK'
  BY <1>1, <1>3 DEF IInv, TypeOK, WorldOK, gitlab
<1> QED BY <1>1, <1>2, <1>5, <1>6, <1>7, Assemble DEF gitlab

------------------------------------------------------------------------------
(* completeOAuth and disconnect *)

LEMMA ClaimLinkIInv ==
  ASSUME IInv, NEW k \in Completions, ClaimLink(k)
  PROVE  IInv'
<1>1. /\ k \in Requests /\ pc[k] = "new" /\ local[k].row = None
      /\ UNCHANGED <<conn, gitlab, refreshing>> /\ {"exchange", "refused"} \subseteq Steps
  BY DEF ClaimLink, Requests, Steps, Ends, IInv, ControlsFit, ControlFits
<1>2. CASE Goto(k, "refused") /\ UNCHANGED <<oauth, local>>
  <2>1. StepOf(k) /\ KeepsRow(k) /\ pc'[k] = "refused"
    BY <1>1, <1>2, GotoFacts
  <2>2. ControlFits(k)'
    BY <2>1 DEF ControlFits, RefreshSteps
  <2>3. refreshing' \in [Instances \X Users -> Calls \cup {None}]
    BY <1>1 DEF IInv, TypeOK
  <2> QED BY <1>1, <1>2, <2>1, <2>2, <2>3, CalmIInv DEF Holding
<1>3. ASSUME NEW s \in Links, oauth[s].state = "open", oauth' = [oauth EXCEPT ![s].state = "used"],
             local' = [local EXCEPT ![k].user = oauth[s].user, ![k].link = s],
             Goto(k, "exchange") \/ Goto(k, "refused")
      PROVE  IInv'
  <2>1. oauth[s].user \in Linking /\ oauth[s].user \in Users /\ oauth[s] \in OAuthState
    BY <1>3, UsersAssumption DEF IInv, TypeOK, LinksFit
  <2>2. /\ local' \in [Requests -> Local] /\ \A r \in Requests \ {k} : local'[r] = local[r]
        /\ local'[k].row = None /\ local'[k].user \in Users /\ local'[k].link = s
    <3>1. local[k] \in Local /\ local \in [Requests -> Local]
      BY <1>1 DEF IInv, TypeOK
    <3>2. [local[k] EXCEPT !.user = oauth[s].user, !.link = s] \in Local
      BY <1>3, <2>1, <3>1 DEF Local
    <3>3. local' = [local EXCEPT ![k] = [local[k] EXCEPT !.user = oauth[s].user, !.link = s]]
      BY <1>1, <1>3, <3>1 DEF Local
    <3> QED BY <1>1, <2>1, <3>1, <3>2, <3>3 DEF Local
  <2>3. /\ pc' \in [Requests -> Steps] /\ \A r \in Requests \ {k} : pc'[r] = pc[r]
        /\ pc'[k] \in {"exchange", "refused"}
    BY <1>1, <1>3 DEF IInv, TypeOK, Goto
  <2>4. MoveOf(k) /\ KeepsRow(k) /\ ControlFits(k)'
    BY <1>1, <2>2, <2>3 DEF MoveOf, KeepsRow, ControlFits, RefreshSteps
  <2>5. RowsOnlyFade /\ NothingNeededGoes(k)
    BY <1>1 DEF RowsOnlyFade, NothingNeededGoes, gitlab, Has
  <2>6. Core'
    BY <1>1, <2>3, <2>4, <2>5, QuietCore DEF Holding
  <2>7. ControlsFit'
    BY <1>1, <2>4, ControlStays DEF gitlab
  <2>8. oauth' \in [Links -> OAuthState]
    BY <1>3, <2>1 DEF IInv, TypeOK, OAuthState
  <2>9. TypeOK'
    BY <1>1, <2>2, <2>3, <2>8 DEF IInv, TypeOK, gitlab
  <2>10. LinksFit'
    <3>1. \A t \in Links \ {s} : oauth'[t] = oauth[t]
      BY <1>3 DEF IInv, TypeOK
    <3>2. oauth'[s].state = "used"
      BY <1>3, <2>1 DEF IInv, TypeOK, OAuthState
    <3>3. \A t \in Links : pc'[t] \in {"new", "create"} => pc'[t] = pc[t] /\ t # s
      BY <1>3, <2>3 DEF IInv, LinksFit, Requests
    <3>4. \A m \in Completions : m # k => local'[m].link = local[m].link
      BY <2>2 DEF Requests
    <3> QED BY <2>2, <3>1, <3>2, <3>3, <3>4 DEF IInv, LinksFit
  <2>11. LinkUsedOnce'
    <3>1. \A m \in Completions \ {k} :
            local'[m].link = local[m].link /\ (local[m].link # None => local[m].link # s)
      BY <1>3, <2>2 DEF IInv, LinksFit, Requests
    <3> QED BY <2>2, <3>1 DEF IInv, LinkUsedOnce
  <2> QED BY <2>6, <2>7, <2>9, <2>10, <2>11 DEF IInv, Core
<1> QED BY <1>2, <1>3 DEF ClaimLink

LEMMA ExchangeCodeIInv ==
  ASSUME IInv, NEW k \in Completions, ExchangeCode(k)
  PROVE  IInv'
<1>1. /\ k \in Requests /\ pc[k] = "exchange" /\ local[k].row = None /\ local[k].user \in Users
      /\ ~Fresh(k) /\ UNCHANGED <<conn, oauth, due, refreshing>>
      /\ refreshing' \in [Instances \X Users -> Calls \cup {None}]
      /\ {"check", "discard", "refused"} \subseteq Steps
  BY DEF ExchangeCode, Requests, Steps, Ends, Fresh, Holding, IInv, TypeOK, ControlsFit, ControlFits
<1>2. issued \in Nat /\ (issued < MaxPairs => issued + 1 \in Pairs) /\ issued + 1 \in 1 .. issued + 1
  BY BoundsAssumption DEF Pairs, IInv, TypeOK
<1>3. ASSUME Issue(None), UNCHANGED <<lost, losses>> \/ Lose({issued + 1}),
             StepOf(k), KeepsRow(k), ControlFits(k)', pc'[k] \in {"check", "discard", "refused"},
             pc'[k] \in Holding => local'[k].token = issued + 1
      PROVE  IInv'
  <2>1. WorldOK' /\ lost \subseteq lost'
    <3>1. {issued + 1} \in SUBSET (1 .. issued + 1)
      BY <1>2
    <3> QED BY <1>1, <1>3, <3>1, IssueWorld
  <2>2. None \notin Pairs
    BY NoneAssumption DEF Pairs
  <2>3. Core' /\ live' \subseteq live \cup {issued + 1}
    BY <1>1, <1>3, <2>1, <2>2, IssueCore
  <2> QED BY <1>1, <1>3, <2>1, <2>3, Assemble
<1>4. ASSUME NEW i \in Identities, Issue(None),
             local' = [local EXCEPT ![k].token = issued + 1, ![k].identity = i], Goto(k, "check")
      PROVE  /\ StepOf(k) /\ KeepsRow(k) /\ ControlFits(k)'
             /\ pc'[k] = "check" /\ local'[k].token = issued + 1
  <2>1. local[k] \in Local /\ local \in [Requests -> Local] /\ issued + 1 \in Pairs
    BY <1>1, <1>2, <1>4 DEF IInv, TypeOK, Issue
  <2>2. [local[k] EXCEPT !.token = issued + 1, !.identity = i] \in Local
    BY <2>1 DEF Local
  <2>3. local' = [local EXCEPT ![k] = [local[k] EXCEPT !.token = issued + 1, !.identity = i]]
    BY <1>1, <1>4, <2>1 DEF Local
  <2>4. /\ local' \in [Requests -> Local] /\ \A r \in Requests \ {k} : local'[r] = local[r]
        /\ local'[k].row = None /\ local'[k].user = local[k].user /\ local'[k].link = local[k].link
        /\ local'[k].identity = i /\ local'[k].token = issued + 1
    BY <1>1, <2>1, <2>2, <2>3 DEF Local
  <2>5. /\ pc' \in [Requests -> Steps] /\ \A r \in Requests \ {k} : pc'[r] = pc[r]
        /\ pc'[k] = "check"
    BY <1>1, <1>4 DEF IInv, TypeOK, Goto
  <2> QED BY <1>1, <2>4, <2>5 DEF StepOf, MoveOf, KeepsRow, ControlFits, RefreshSteps
<1>5. ASSUME Issue(None), Keep(k, "token", issued + 1), Goto(k, "discard")
      PROVE  /\ StepOf(k) /\ KeepsRow(k) /\ ControlFits(k)'
             /\ pc'[k] = "discard" /\ local'[k].token = issued + 1
  <2>1. /\ StepOf(k) /\ KeepsRow(k) /\ pc'[k] = "discard" /\ local'[k].token = issued + 1
    BY <1>1, <1>2, <1>5, TokenFacts DEF Issue
  <2> QED BY <2>1 DEF ControlFits, RefreshSteps
<1>6. ASSUME Goto(k, "refused"), UNCHANGED local
      PROVE  StepOf(k) /\ KeepsRow(k) /\ ControlFits(k)' /\ pc'[k] = "refused"
  <2>1. StepOf(k) /\ KeepsRow(k) /\ pc'[k] = "refused"
    BY <1>1, <1>6, GotoFacts
  <2> QED BY <2>1 DEF ControlFits, RefreshSteps
<1>7. CASE Issue(None) /\ UNCHANGED <<lost, losses>>
           /\ \E i \in Identities :
                local' = [local EXCEPT ![k].token = issued + 1, ![k].identity = i] /\ Goto(k, "check")
  BY <1>3, <1>4, <1>7
<1>8. CASE Issue(None) /\ UNCHANGED <<lost, losses>> /\ Keep(k, "token", issued + 1) /\ Goto(k, "discard")
  BY <1>3, <1>5, <1>8
<1>9. CASE Issue(None) /\ Lose({issued + 1}) /\ Goto(k, "refused") /\ UNCHANGED local
  BY <1>3, <1>6, <1>9 DEF Holding
<1>10. CASE Goto(k, "refused") /\ UNCHANGED <<live, issued, lost, losses, local>>
  BY <1>1, <1>6, <1>10, CalmIInv DEF gitlab, Holding
<1> QED BY <1>7, <1>8, <1>9, <1>10 DEF ExchangeCode

LEMMA CheckOtherIInv ==
  ASSUME IInv, NEW k \in Completions, CheckOther(k)
  PROVE  IInv'
<1>1. /\ k \in Requests /\ pc[k] = "check" /\ Fresh(k) /\ local[k].row = None
      /\ local[k].user \in Users /\ local[k].identity \in Identities
      /\ UNCHANGED <<conn, oauth, gitlab, refreshing, local>>
      /\ refreshing' \in [Instances \X Users -> Calls \cup {None}]
      /\ {"discard", "previous"} \subseteq Steps
  BY DEF CheckOther, Requests, Steps, Fresh, Holding, IInv, TypeOK, ControlsFit, ControlFits
<1>2. StepOf(k) /\ KeepsRow(k) /\ pc'[k] \in {"discard", "previous"}
  BY <1>1, GotoFacts DEF CheckOther
<1>3. ControlFits(k)'
  BY <1>1, <1>2 DEF ControlFits, RefreshSteps
<1> QED BY <1>1, <1>2, <1>3, CalmIInv

LEMMA ReadPreviousIInv ==
  ASSUME IInv, NEW k \in Completions, ReadPrevious(k)
  PROVE  IInv'
<1> DEFINE u == local[k].user
<1>1. /\ k \in Requests /\ pc[k] = "previous" /\ Fresh(k) /\ u \in Users /\ local[k].identity \in Identities
      /\ UNCHANGED <<conn, oauth, gitlab, refreshing>> /\ "upsert" \in Steps
      /\ conn[u] \in Connection \cup {None}
  BY DEF ReadPrevious, Requests, Steps, Fresh, Holding, IInv, TypeOK, ControlsFit, ControlFits
<1>2. local' = [local EXCEPT ![k] = [local[k] EXCEPT !.row = conn[u]]]
  BY <1>1 DEF ReadPrevious, Keep, IInv, TypeOK, Local
<1>3. local[k] \in Local /\ [local[k] EXCEPT !.row = conn[u]] \in Local
  BY <1>1 DEF IInv, TypeOK, Local
<1>4. /\ local' \in [Requests -> Local] /\ \A r \in Requests \ {k} : local'[r] = local[r]
      /\ local'[k] = [local[k] EXCEPT !.row = conn[u]]
  BY <1>1, <1>2, <1>3 DEF IInv, TypeOK
<1>5. /\ local'[k].row = conn[u] /\ local'[k].user = u /\ local'[k].link = local[k].link
      /\ local'[k].token = local[k].token /\ local'[k].identity = local[k].identity
  BY <1>3, <1>4 DEF Local
<1>6. /\ pc' \in [Requests -> Steps] /\ \A r \in Requests \ {k} : pc'[r] = pc[r]
      /\ pc'[k] = "upsert"
  BY <1>1 DEF IInv, TypeOK, Goto, ReadPrevious
<1>7. StepOf(k)
  BY <1>4, <1>5, <1>6 DEF StepOf, MoveOf
<1>8. Core'
  BY <1>1, <1>5, <1>6, <1>7, ReadCore DEF gitlab
<1>9. ControlFits(k)'
  BY <1>1, <1>5, <1>6 DEF ControlFits, RefreshSteps
<1>10. WorldOK'
  BY <1>1 DEF IInv, TypeOK, WorldOK, gitlab
<1> QED BY <1>1, <1>6, <1>7, <1>8, <1>9, <1>10, Assemble DEF gitlab

LEMMA UpsertIInv ==
  ASSUME IInv, NEW k \in Completions, Upsert(k)
  PROVE  IInv'
<1> DEFINE u == local[k].user
           row == [id |-> IF conn[u] = None THEN local[k].token ELSE conn[u].id,
                   pair |-> local[k].token, identity |-> local[k].identity, state |-> "ACTIVE"]
<1>1. /\ k \in Requests /\ pc[k] = "upsert" /\ Fresh(k) /\ u \in Users /\ local[k].identity \in Identities
      /\ UNCHANGED <<oauth, gitlab, refreshing, local>> /\ {"discard", "done", "retire"} \subseteq Steps
      /\ refreshing' \in [Instances \X Users -> Calls \cup {None}]
  BY DEF Upsert, Requests, Steps, Ends, Fresh, Holding, IInv, TypeOK, ControlsFit, ControlFits
<1>2. CASE Goto(k, "discard") /\ UNCHANGED conn
  <2>1. StepOf(k) /\ KeepsRow(k) /\ pc'[k] = "discard"
    BY <1>1, <1>2, GotoFacts
  <2>2. ControlFits(k)'
    BY <2>1 DEF ControlFits, RefreshSteps
  <2> QED BY <1>1, <1>2, <2>1, <2>2, CalmIInv
<1>3. ASSUME conn' = [conn EXCEPT ![u] = row],
             Goto(k, IF local[k].row = None \/ StoresToken(local[k].row, local[k].token)
                       THEN "done" ELSE "retire")
      PROVE  IInv'
  <2>1. local[k].token \in Pairs
    <3>1. local[k].token \in 1 .. issued /\ issued \in 0 .. MaxPairs
      BY <1>1 DEF IInv, TokensFit, TypeOK
    <3> QED BY <3>1, BoundsAssumption DEF Pairs
  <2>2. row \in Connection /\ row.pair = local[k].token
    BY <1>1, <2>1 DEF Connection, IInv, TypeOK
  <2>3. /\ conn' \in [Users -> Connection \cup {None}] /\ conn'[u].pair = local[k].token
        /\ \A v \in Users \ {u} : conn'[v] = conn[v]
    <3> HIDE DEF row
    <3> QED BY <1>1, <1>3, <2>2 DEF IInv, TypeOK
  <2>4. StepOf(k) /\ KeepsRow(k) /\ pc'[k] \in {"done", "retire"} /\ (pc'[k] = "retire" => local[k].row # None)
    BY <1>1, <1>3, GotoFacts
  <2>5. Core'
    BY <1>1, <2>3, <2>4, StoreCore DEF Holding, gitlab
  <2>6. ControlFits(k)'
    BY <1>1, <2>4 DEF ControlFits, RefreshSteps
  <2>7. WorldOK'
    BY <1>1, <2>3 DEF IInv, TypeOK, WorldOK, gitlab
  <2> QED BY <1>1, <2>4, <2>5, <2>6, <2>7, Assemble DEF gitlab
<1> QED BY <1>2, <1>3 DEF Upsert

\* A request revokes the pair of the row it read, which is in no row any more.
LEMMA RetireIInv ==
  ASSUME IInv, NEW q \in Requests, pc[q] = "retire", Revoke(local[q].row.pair), Goto(q, "done"),
         UNCHANGED <<conn, oauth, refreshing, local>>
  PROVE  IInv'
<1> DEFINE p == local[q].row.pair
<1>1. /\ local[q].row # None /\ p \in 1 .. issued /\ \A u \in Users : Has(u) => conn[u].pair # p
  BY DEF IInv, ControlsFit, ControlFits, RowsFit, RowFits
<1>2. StepOf(q) /\ KeepsRow(q) /\ pc'[q] = "done"
  BY GotoFacts DEF Steps, Ends
<1>3. /\ WorldOK' /\ live' \subseteq live /\ live \ live' \subseteq {p}
      /\ issued' = issued /\ lost \subseteq lost'
  BY <1>1, RevokeWorld
<1>4. NothingNeededGoes(q)
  BY <1>1, <1>2, <1>3 DEF NothingNeededGoes, Holding, IInv, TokensFit
<1>5. RowsOnlyFade
  BY DEF RowsOnlyFade, Has
<1>6. Core'
  BY <1>2, <1>4, <1>5, QuietCore DEF StepOf, Holding
<1>7. ControlFits(q)'
  BY <1>2 DEF ControlFits, RefreshSteps
<1> QED BY <1>2, <1>3, <1>6, <1>7, Assemble

LEMMA CompleteIInv ==
  ASSUME IInv, NEW k \in Completions, Complete(k)
  PROVE  IInv'
<1>1. CASE RetirePrevious(k)
  BY <1>1, RetireIInv DEF RetirePrevious, Requests
<1>2. CASE Discard(k)
  BY <1>2, RevokeOwnIInv DEF Discard, Requests, Fresh, Holding
<1> QED BY <1>1, <1>2, ClaimLinkIInv, ExchangeCodeIInv, CheckOtherIInv, ReadPreviousIInv, UpsertIInv
        DEF Complete

LEMMA DisconnectIInv ==
  ASSUME IInv, NEW d \in Disconnects, Disconnect(d)
  PROVE  IInv'
<1>1. CASE RevokeDeleted(d)
  BY <1>1, RetireIInv DEF RevokeDeleted, Requests
<1>2. ASSUME NEW u \in Users, pc[d] = "new", conn' = [conn EXCEPT ![u] = None],
             local' = [local EXCEPT ![d].user = u, ![d].row = conn[u]],
             Goto(d, IF conn[u] = None THEN "done" ELSE "retire"),
             UNCHANGED <<oauth, gitlab, refreshing>>
      PROVE  IInv'
  <2>1. d \in Requests /\ conn[u] \in Connection \cup {None} /\ {"done", "retire"} \subseteq Steps
    BY DEF Requests, IInv, TypeOK, Steps, Ends
  <2>2. local[d] \in Local /\ [local[d] EXCEPT !.user = u, !.row = conn[u]] \in Local
    BY <2>1 DEF IInv, TypeOK, Local
  <2>3. local' = [local EXCEPT ![d] = [local[d] EXCEPT !.user = u, !.row = conn[u]]]
    BY <1>2, <2>1, <2>2 DEF IInv, TypeOK, Local
  <2>4. /\ local' \in [Requests -> Local] /\ \A r \in Requests \ {d} : local'[r] = local[r]
        /\ local'[d] = [local[d] EXCEPT !.user = u, !.row = conn[u]]
    BY <2>1, <2>2, <2>3 DEF IInv, TypeOK
  <2>5. local'[d].row = conn[u] /\ local'[d].user = u /\ local'[d].link = local[d].link
    BY <2>2, <2>4 DEF Local
  <2>6. /\ pc' \in [Requests -> Steps] /\ \A r \in Requests \ {d} : pc'[r] = pc[r]
        /\ pc'[d] \in {"done", "retire"} /\ (pc'[d] = "retire" => conn[u] # None)
    BY <1>2, <2>1 DEF IInv, TypeOK, Goto
  <2>7. StepOf(d)
    BY <2>4, <2>5, <2>6 DEF StepOf, MoveOf
  <2>8. Core'
    BY <1>2, <2>1, <2>5, <2>6, <2>7, ReadCore DEF gitlab, Holding
  <2>9. ControlFits(d)'
    BY <2>5, <2>6 DEF ControlFits, RefreshSteps
  <2>10. WorldOK'
    BY <1>2 DEF IInv, TypeOK, WorldOK, gitlab
  <2> QED BY <1>2, <2>1, <2>6, <2>7, <2>8, <2>9, <2>10, Assemble DEF gitlab
<1> QED BY <1>1, <1>2 DEF Disconnect, DeleteConnection

------------------------------------------------------------------------------
(* startOAuth, the passing of time, and every step *)

\* A request starts or creates a link: only the links have changed.
LEMMA LinkStepIInv ==
  ASSUME IInv, NEW s \in Links, StepOf(s), KeepsRow(s), ControlFits(s)', pc'[s] \in {"create", "done"},
         UNCHANGED <<conn, gitlab, refreshing>>, oauth' \in [Links -> OAuthState],
         pc[s] = "new" \/ (pc[s] = "create" /\ pc'[s] = "done"),
         \A t \in Links \ {s} : oauth'[t] = oauth[t] \/ (oauth[t].state = "open" /\ oauth'[t].state = "absent"),
         IF pc'[s] = "create" THEN oauth'[s].state = "absent" ELSE oauth'[s].user \in Linking
  PROVE  IInv'
<1>1. s \in Requests
  BY DEF Requests
<1>2. RowsOnlyFade /\ NothingNeededGoes(s)
  BY DEF RowsOnlyFade, NothingNeededGoes, gitlab, Has
<1>3. Core'
  BY <1>1, <1>2, QuietCore DEF StepOf, Holding
<1>4. ControlsFit'
  BY <1>1, ControlStays DEF StepOf, gitlab
<1>5. TypeOK'
  BY DEF IInv, TypeOK, StepOf, MoveOf, gitlab
<1>6. oauth[s].state = "absent"
  BY DEF IInv, LinksFit
<1>7. \A k \in Completions : local'[k].link = local[k].link /\ (local[k].link # None =>
        /\ local[k].link \in Links /\ local[k].link # s
        /\ oauth[local[k].link].state = "used")
  BY <1>1, <1>6 DEF IInv, LinksFit, StepOf, MoveOf, Requests
<1>8. LinkUsedOnce'
  BY <1>7 DEF IInv, LinkUsedOnce
<1>9. \A t \in Links : pc'[t] \in {"new", "create"} => oauth'[t].state = "absent"
  <2> SUFFICES ASSUME NEW t \in Links, pc'[t] \in {"new", "create"} PROVE oauth'[t].state = "absent"
    OBVIOUS
  <2>1. CASE t = s
    BY <2>1
  <2>2. CASE t # s
    <3>1. oauth[t].state = "absent"
      BY <2>2 DEF IInv, LinksFit, StepOf, MoveOf, Requests
    <3> QED BY <2>2, <3>1
  <2> QED BY <2>1, <2>2
<1>10. \A t \in Links : oauth'[t].state = "open" => oauth'[t].user \in Linking
  BY DEF IInv, LinksFit
<1>11. LinksFit'
  BY <1>7, <1>9, <1>10 DEF LinksFit
<1> QED BY <1>3, <1>4, <1>5, <1>8, <1>11 DEF IInv, Core

LEMMA LinkIInv ==
  ASSUME IInv, NEW s \in Links, Link(s)
  PROVE  IInv'
<1>1. /\ s \in Requests /\ {"create", "done"} \subseteq Steps /\ pc[s] \in {"new", "create"}
      /\ UNCHANGED <<conn, gitlab, refreshing>>
      /\ oauth[s].state = "absent" /\ local[s].row = None
  BY DEF Requests, Steps, Ends, Link, DropOldLinks, CreateLink, IInv, LinksFit, ControlsFit, ControlFits
<1>2. ASSUME NEW u \in Linking, pc[s] = "new", Keep(s, "user", u), Goto(s, "create"),
             oauth' = [t \in Links |-> IF oauth[t].user = u /\ oauth[t].state = "open"
                                         THEN [oauth[t] EXCEPT !.state = "absent"] ELSE oauth[t]]
      PROVE  IInv'
  <2>1. local[s] \in Local /\ [local[s] EXCEPT !.user = u] \in Local
    <3>1. local[s] \in Local /\ u \in Users
      BY <1>1, UsersAssumption DEF IInv, TypeOK
    <3> QED BY <3>1 DEF Local
  <2>2. /\ local' \in [Requests -> Local] /\ \A r \in Requests \ {s} : local'[r] = local[r]
        /\ local'[s] = [local[s] EXCEPT !.user = u]
    BY <1>1, <1>2, <2>1 DEF IInv, TypeOK, Keep, Local
  <2>3. local'[s].user = u /\ local'[s].row = None /\ local'[s].link = local[s].link
    BY <1>1, <2>1, <2>2 DEF Local
  <2>4. /\ pc' \in [Requests -> Steps] /\ \A r \in Requests \ {s} : pc'[r] = pc[r]
    BY <1>1, <1>2 DEF IInv, TypeOK, Goto
  <2>5. pc'[s] = "create"
    BY <1>1, <1>2 DEF IInv, TypeOK, Goto
  <2>6. StepOf(s) /\ KeepsRow(s)
    BY <1>1, <2>2, <2>3, <2>4 DEF StepOf, MoveOf, KeepsRow
  <2>7. ControlFits(s)'
    BY <2>3, <2>5 DEF ControlFits, RefreshSteps
  <2>8. /\ oauth' \in [Links -> OAuthState] /\ oauth'[s].state = "absent"
        /\ \A t \in Links : oauth'[t] = oauth[t] \/ (oauth[t].state = "open" /\ oauth'[t].state = "absent")
    BY <1>1, <1>2 DEF IInv, TypeOK, OAuthState
  <2> QED BY <1>1, <1>2, <2>5, <2>6, <2>7, <2>8, LinkStepIInv
<1>3. CASE CreateLink(s)
  <2>1. StepOf(s) /\ KeepsRow(s) /\ pc'[s] = "done" /\ pc[s] = "create"
    BY <1>1, <1>3, GotoFacts DEF CreateLink
  <2>2. ControlFits(s)'
    BY <2>1 DEF ControlFits, RefreshSteps
  <2>3. local[s].user \in Linking
    BY <1>1, <2>1 DEF IInv, ControlsFit, ControlFits
  <2>4. /\ oauth' \in [Links -> OAuthState] /\ oauth'[s].user \in Linking
        /\ \A t \in Links \ {s} : oauth'[t] = oauth[t]
    BY <1>3, <2>3 DEF IInv, TypeOK, OAuthState, CreateLink
  <2> QED BY <1>1, <2>1, <2>2, <2>4, LinkStepIInv
<1> QED BY <1>1, <1>2, <1>3 DEF Link, DropOldLinks

\* No request moves, and no pair or row changes.
LEMMA StillFacts ==
  ASSUME IInv, UNCHANGED <<conn, live, issued, lost, pc, local>>
  PROVE  TokensFit' /\ StoredOnce' /\ RowsFit' /\ ControlsFit' /\ ActiveConnectionWorks' /\ LinkUsedOnce'
<1>1. TokensFit'
  BY DEF IInv, TokensFit, Fresh, Has
<1>2. StoredOnce'
  BY DEF IInv, StoredOnce, Has
<1>3. RowsFit'
  BY DEF IInv, RowsFit, RowFits, Has
<1>4. ControlsFit'
  BY DEF IInv, ControlsFit, ControlFits
<1>5. ActiveConnectionWorks'
  BY DEF IInv, ActiveConnectionWorks
<1>6. LinkUsedOnce'
  BY DEF IInv, LinkUsedOnce
<1> QED BY <1>1, <1>2, <1>3, <1>4, <1>5, <1>6

LEMMA ExpireLinkIInv ==
  ASSUME IInv, NEW s \in Links, ExpireLink(s)
  PROVE  IInv'
<1>1. /\ oauth' \in [Links -> OAuthState] /\ oauth'[s].state = "absent" /\ oauth[s].state = "open"
      /\ \A t \in Links \ {s} : oauth'[t] = oauth[t]
      /\ UNCHANGED <<conn, gitlab, refreshing, pc, local>>
  BY DEF ExpireLink, IInv, TypeOK, OAuthState
<1>2. LinksFit'
  BY <1>1 DEF IInv, LinksFit
<1>3. TypeOK'
  BY <1>1 DEF IInv, TypeOK, gitlab
<1> QED BY <1>1, <1>2, <1>3, StillFacts DEF IInv, gitlab

LEMMA StillIInv ==
  ASSUME IInv, UNCHANGED <<conn, oauth, live, issued, lost, losses, refreshing, pc, local>>,
         due' \subseteq 1 .. issued
  PROVE  IInv'
<1>1. TypeOK'
  BY DEF IInv, TypeOK
<1>2. LinksFit'
  BY DEF IInv, LinksFit
<1> QED BY <1>1, <1>2, StillFacts DEF IInv

LEMMA CallIInv ==
  ASSUME IInv, NEW c \in Calls, Call(c)
  PROVE  IInv'
BY ReadConnectionIInv, DecideIInv, JoinedIInv, RereadIInv, SendRefreshIInv, AfterRejectionIInv,
   MarkRejectedIInv, TakeLatestIInv, WriteRefreshedIInv, RevokeUnstoredIInv, UseIInv,
   MarkNeedsReconnectIInv DEF Call, Refresh

LEMMA NextIInv == IInv /\ [Next]_vars => IInv'
<1> SUFFICES ASSUME IInv, [Next]_vars PROVE IInv'
  OBVIOUS
<1>1. ASSUME NEW p \in 1 .. issued, Age(p) PROVE IInv'
  <2>1. due' \subseteq 1 .. issued
    BY <1>1 DEF Age, IInv, TypeOK
  <2> QED BY <1>1, <2>1, StillIInv DEF Age
<1>2. CASE UNCHANGED vars
  BY <1>2, StillIInv DEF vars, IInv, TypeOK
<1> QED BY <1>1, <1>2, LinkIInv, ExpireLinkIInv, CompleteIInv, DisconnectIInv, CallIInv
        DEF Next, Finished

LEMMA Invariance == Spec => []IInv
BY InitIInv, NextIInv, PTL DEF Spec

------------------------------------------------------------------------------
(* Theorems *)

\* Every variable keeps its type.
THEOREM TypeCorrect == Spec => []TypeOK
<1>1. IInv => TypeOK
  BY DEF IInv
<1> QED BY <1>1, Invariance, PTL

\* However refreshes, relinks and disconnections interleave, an ACTIVE connection holds a pair that
\* GitLab honours, or one whose successor is about to be stored or was lost.
THEOREM ConnectionsWork == Spec => []ActiveConnectionWorks
<1>1. IInv => ActiveConnectionWorks
  BY DEF IInv
<1> QED BY <1>1, Invariance, PTL

\* However often the browser sends an authorization, one completion uses it.
THEOREM LinksAreSpent == Spec => []LinkUsedOnce
<1>1. IInv => LinkUsedOnce
  BY DEF IInv
<1> QED BY <1>1, Invariance, PTL

------------------------------------------------------------------------------
(* A pair is orphaned only by an upsert that was overtaken *)

\* The upsert of k writes over a pair that k did not see when it read the connection.
Overtaken(k) ==
  LET row == conn[local[k].user] IN row # None /\ (local[k].row = None \/ row.pair # local[k].row.pair)

\* Request q will store or revoke p.
AnswersFor(q, p) ==
  \/ q \in Calls /\ pc[q] \in {"write", "revoke"} /\ local[q].token = p
  \/ q \in Completions /\ pc[q] \in {"check", "previous", "upsert", "discard"} /\ local[q].token = p
  \/ q \in Completions \cup Disconnects /\ pc[q] = "retire" /\ local[q].row.pair = p

LEMMA HeldMeansAnswered ==
  ASSUME NEW p
  PROVE  /\ Held(p) <=> \E q \in Requests : AnswersFor(q, p)
         /\ Held(p)' <=> \E q \in Requests : AnswersFor(q, p)'
BY DEF Held, AnswersFor, Requests

\* What q answers for at each step, and where it answers for nothing.
LEMMA AnswersOf ==
  ASSUME NEW q, NEW p, AnswersFor(q, p)
  PROVE  /\ pc[q] \in Holding \cup {"retire"}
         /\ pc[q] \in Holding => local[q].token = p
         /\ pc[q] = "retire" => local[q].row.pair = p
BY DEF AnswersFor, Holding

\* Who answered for a pair still does, or somebody else does now.
LEMMA AnswerStays ==
  ASSUME NoOrphanedToken, NEW q \in Requests,
         \A r \in Requests \ {q} : pc'[r] = pc[r] /\ local'[r] = local[r],
         lost \subseteq lost', NEW p \in live, p \notin lost',
         Stored(p) => Stored(p)' \/ Held(p)',
         AnswersFor(q, p) => Stored(p)' \/ Held(p)'
  PROVE  Stored(p)' \/ Held(p)'
<1>1. CASE Stored(p)
  BY <1>1
<1>2. ASSUME NEW r \in Requests \ {q}, AnswersFor(r, p)
      PROVE  Held(p)'
  <2>1. AnswersFor(r, p)'
    BY <1>2 DEF AnswersFor
  <2> QED BY <2>1, HeldMeansAnswered
<1> QED BY <1>1, <1>2, HeldMeansAnswered DEF NoOrphanedToken

LEMMA StoredStays ==
  ASSUME \A u \in Users : Has(u) => conn'[u] # None /\ conn'[u].pair = conn[u].pair, NEW p, Stored(p)
  PROVE  Stored(p)'
BY DEF Stored, Has

\* A step that changes no pair, of a request that answers for none.
LEMMA QuietAnswer ==
  ASSUME NoOrphanedToken, NEW q \in Requests,
         \A r \in Requests \ {q} : pc'[r] = pc[r] /\ local'[r] = local[r],
         lost \subseteq lost', live' \subseteq live, pc[q] \notin Holding \cup {"retire"},
         \A u \in Users : Has(u) => conn'[u] # None /\ conn'[u].pair = conn[u].pair
  PROVE  NoOrphanedToken'
<1> SUFFICES ASSUME NEW p \in live', p \notin lost' PROVE Stored(p)' \/ Held(p)'
  BY DEF NoOrphanedToken
<1>1. ~AnswersFor(q, p)
  BY AnswersOf
<1> QED BY <1>1, AnswerStays, StoredStays

LEMMA OthersStayInCall ==
  ASSUME IInv, NEW c \in Calls, Call(c)
  PROVE  \A r \in Requests \ {c} : pc'[r] = pc[r] /\ local'[r] = local[r]
<1>1. c \in Requests
  BY DEF Requests
<1>2. CASE ReadConnection(c) \/ Decide(c) \/ Joined(c) \/ Use(c) \/ MarkNeedsReconnect(c)
  BY <1>1, <1>2 DEF IInv, TypeOK, ReadConnection, Decide, Joined, Use, MarkNeedsReconnect, Goto, Keep
<1>3. CASE Reread(c) \/ SendRefresh(c) \/ AfterRejection(c) \/ MarkRejected(c)
  BY <1>1, <1>3 DEF IInv, TypeOK, Reread, SendRefresh, AfterRejection, MarkRejected, Goto, Keep, Fail, SettleWith
<1>4. CASE TakeLatest(c) \/ WriteRefreshed(c) \/ RevokeUnstored(c) \/ AfterLostRace(c)
  BY <1>1, <1>4 DEF IInv, TypeOK, TakeLatest, WriteRefreshed, RevokeUnstored, AfterLostRace, Goto, Keep, Fail,
                    SettleWith
<1> QED BY <1>2, <1>3, <1>4 DEF Call, Refresh

LEMMA CallAnswers ==
  ASSUME IInv, NoOrphanedToken, NEW c \in Calls, Call(c)
  PROVE  NoOrphanedToken'
<1>1. c \in Requests /\ \A r \in Requests \ {c} : pc'[r] = pc[r] /\ local'[r] = local[r]
  BY OthersStayInCall DEF Requests
<1>2. CASE ReadConnection(c) \/ Decide(c) \/ Joined(c) \/ Use(c) \/ Reread(c) \/ AfterRejection(c)
           \/ TakeLatest(c) \/ AfterLostRace(c)
  <2>1. /\ UNCHANGED <<conn, live, lost>> /\ pc[c] \notin Holding \cup {"retire"}
    BY <1>2 DEF ReadConnection, Decide, Joined, Use, Reread, AfterRejection, TakeLatest, AfterLostRace, gitlab, Holding
  <2> QED BY <1>1, <2>1, QuietAnswer DEF Has
<1>3. CASE MarkRejected(c) \/ MarkNeedsReconnect(c)
  <2>1. /\ UNCHANGED <<live, lost>> /\ pc[c] \notin Holding \cup {"retire"}
        /\ \A u \in Users : Has(u) => conn'[u] # None /\ conn'[u].pair = conn[u].pair
    <3>1. \A u \in Users : Has(u) => conn[u] \in Connection /\ [conn[u] EXCEPT !.state = "NEEDS_RECONNECT"] \in Connection
      BY DEF IInv, TypeOK, Has, Connection
    <3>2. conn' = conn \/ conn' = [conn EXCEPT ![local[c].user] = [conn[local[c].user] EXCEPT !.state = "NEEDS_RECONNECT"]]
      BY <1>3 DEF MarkRejected, MarkNeedsReconnect
    <3>3. \A u \in Users : Has(u) => conn'[u] = conn[u] \/ conn'[u] = [conn[u] EXCEPT !.state = "NEEDS_RECONNECT"]
      BY <3>2 DEF IInv, TypeOK
    <3>4. \A u \in Users : Has(u) => conn'[u] # None /\ conn'[u].pair = conn[u].pair
      BY <3>1, <3>3, NoneAssumption DEF Connection, Has
    <3> QED BY <1>3, <3>4 DEF MarkRejected, MarkNeedsReconnect, gitlab, Holding
  <2> QED BY <1>1, <2>1, QuietAnswer
<1>4. CASE SendRefresh(c)
  <2>1. pc[c] = "send" /\ UNCHANGED conn
    BY <1>4 DEF SendRefresh
  <2>2. CASE UNCHANGED <<live, lost>>
    BY <1>1, <2>1, <2>2, QuietAnswer DEF Has, Holding
  <2>3. ASSUME Issue(local[c].row.pair), lost \subseteq lost',
               NEW x, x = issued + 1, x \in lost' \/ Held(x)'
        PROVE  NoOrphanedToken'
    <3> SUFFICES ASSUME NEW p \in live', p \notin lost' PROVE Stored(p)' \/ Held(p)'
      BY DEF NoOrphanedToken
    <3>1. p \in live \/ p = x
      BY <2>3 DEF Issue
    <3>2. Stored(p) => Stored(p)'
      BY <2>1 DEF Stored
    <3>3. ~AnswersFor(c, p)
      BY <2>1, AnswersOf DEF Holding
    <3> QED BY <1>1, <2>3, <3>1, <3>2, <3>3, AnswerStays
  <2>4. CASE /\ Issue(local[c].row.pair) /\ Keep(c, "token", issued + 1)
             /\ Goto(c, "write") /\ UNCHANGED <<lost, losses, refreshing>>
    <3>1. pc'[c] = "write" /\ local'[c].token = issued + 1
      BY <1>1, <2>4 DEF IInv, TypeOK, Goto, Keep, Local
    <3>2. \E y : y = issued + 1 /\ Held(y)'
      BY <3>1 DEF Held
    <3> QED BY <2>3, <2>4, <3>2
  <2>5. CASE Issue(local[c].row.pair) /\ Lose({local[c].row.pair, issued + 1})
    BY <2>3, <2>5 DEF Lose
  <2> QED BY <1>4, <2>2, <2>4, <2>5 DEF SendRefresh
<1>5. CASE WriteRefreshed(c)
  <2>1. /\ pc[c] = "write" /\ UNCHANGED <<live, lost>>
        /\ local[c].row.pair \notin live /\ local[c].user \in Users
    BY <1>1, <1>5 DEF WriteRefreshed, gitlab, IInv, ControlsFit, ControlFits, RefreshSteps
  <2> SUFFICES ASSUME NEW p \in live, p \notin lost PROVE Stored(p)' \/ Held(p)'
    BY <2>1 DEF NoOrphanedToken
  <2>2. AnswersFor(c, p) => local[c].token = p
    BY <2>1, AnswersOf DEF Holding
  <2>3. CASE SamePair(c) /\ StoreRefreshed(c)
    <3>1. conn[local[c].user] \in Connection /\ conn[local[c].user].pair \notin live
      BY <2>1, <2>3 DEF SamePair, Row, IInv, TypeOK
    <3>2. /\ conn'[local[c].user] # None /\ conn'[local[c].user].pair = local[c].token
          /\ \A u \in Users \ {local[c].user} : conn'[u] = conn[u]
      <4>1. conn'[local[c].user] = [conn[local[c].user] EXCEPT !.pair = local[c].token, !.state = "ACTIVE"]
        BY <2>1, <2>3, <3>1 DEF StoreRefreshed, IInv, TypeOK, Connection
      <4>2. local[c].token \in Pairs
        <5>1. local[c].token \in 1 .. issued /\ issued \in 0 .. MaxPairs
          BY <1>1, <2>1 DEF IInv, TokensFit, TypeOK, Fresh, Holding
        <5> QED BY <5>1, BoundsAssumption DEF Pairs
      <4>3. conn' \in [Users -> Connection \cup {None}] /\ conn'[local[c].user] \in Connection
        BY <2>1, <2>3, <3>1, <4>1, <4>2 DEF StoreRefreshed, IInv, TypeOK, Connection
      <4>4. \A u \in Users \ {local[c].user} : conn'[u] = conn[u]
        BY <2>3 DEF StoreRefreshed, IInv, TypeOK
      <4>5. conn'[local[c].user].pair = local[c].token
        BY <3>1, <4>1 DEF Connection
      <4> QED BY <4>3, <4>4, <4>5, NoneAssumption
    <3>3. Stored(p) => Stored(p)'
      BY <3>1, <3>2 DEF Stored
    <3>4. local[c].token = p => Stored(p)'
      BY <2>1, <3>2 DEF Stored
    <3> QED BY <1>1, <2>1, <2>2, <3>3, <3>4, AnswerStays
  <2>4. CASE Goto(c, "revoke") /\ UNCHANGED <<conn, local>>
    <3>1. Stored(p) => Stored(p)'
      BY <2>4 DEF Stored
    <3>2. pc'[c] = "revoke" /\ local'[c] = local[c]
      BY <1>1, <2>4 DEF IInv, TypeOK, Goto
    <3>3. local[c].token = p => Held(p)'
      BY <3>2 DEF Held
    <3> QED BY <1>1, <2>1, <2>2, <3>1, <3>3, AnswerStays
  <2> QED BY <1>5, <2>3, <2>4 DEF WriteRefreshed
<1>6. CASE RevokeUnstored(c)
  <2>1. /\ pc[c] = "revoke" /\ UNCHANGED conn /\ live' \subseteq live /\ lost \subseteq lost'
        /\ local[c].token \notin live' \ lost'
    BY <1>6 DEF RevokeUnstored, Revoke, Lose
  <2> SUFFICES ASSUME NEW p \in live', p \notin lost' PROVE Stored(p)' \/ Held(p)'
    BY DEF NoOrphanedToken
  <2>2. Stored(p) => Stored(p)'
    BY <2>1 DEF Stored
  <2>3. ~AnswersFor(c, p)
    BY <2>1, AnswersOf DEF Holding
  <2> QED BY <1>1, <2>1, <2>2, <2>3, AnswerStays
<1> QED BY <1>2, <1>3, <1>4, <1>5, <1>6 DEF Call, Refresh

\* The pair of the row that was read is revoked, or its revocation is lost.
LEMMA RetireAnswers ==
  ASSUME IInv, NoOrphanedToken, NEW q \in Requests, pc[q] = "retire",
         Revoke(local[q].row.pair), Goto(q, "done"), UNCHANGED <<conn, local>>
  PROVE  NoOrphanedToken'
<1>1. live' \subseteq live /\ lost \subseteq lost' /\ local[q].row.pair \notin live' \ lost'
  BY DEF Revoke, Lose
<1>2. \A r \in Requests \ {q} : pc'[r] = pc[r] /\ local'[r] = local[r]
  BY DEF Goto, IInv, TypeOK
<1> SUFFICES ASSUME NEW p \in live', p \notin lost' PROVE Stored(p)' \/ Held(p)'
  BY DEF NoOrphanedToken
<1>3. Stored(p) => Stored(p)'
  BY DEF Stored
<1>4. ~AnswersFor(q, p)
  BY <1>1, AnswersOf
<1> QED BY <1>1, <1>2, <1>3, <1>4, AnswerStays

LEMMA OthersStayInCompletion ==
  ASSUME IInv, NEW k \in Completions, Complete(k)
  PROVE  \A r \in Requests \ {k} : pc'[r] = pc[r] /\ local'[r] = local[r]
<1>1. k \in Requests
  BY DEF Requests
<1>2. CASE ClaimLink(k) \/ ExchangeCode(k)
  BY <1>1, <1>2 DEF IInv, TypeOK, ClaimLink, ExchangeCode, Goto, Keep
<1>3. CASE CheckOther(k) \/ ReadPrevious(k) \/ Upsert(k) \/ RetirePrevious(k) \/ Discard(k)
  BY <1>1, <1>3 DEF IInv, TypeOK, CheckOther, ReadPrevious, Upsert, RetirePrevious, Discard, Goto, Keep
<1> QED BY <1>2, <1>3 DEF Complete

\* The new pair is held by k or lost.
LEMMA ExchangeAnswers ==
  ASSUME IInv, NoOrphanedToken, NEW k \in Completions, ExchangeCode(k)
  PROVE  NoOrphanedToken'
<1>1. /\ k \in Requests /\ pc[k] = "exchange" /\ UNCHANGED conn /\ lost \subseteq lost'
      /\ \A r \in Requests \ {k} : pc'[r] = pc[r] /\ local'[r] = local[r]
  BY OthersStayInCompletion DEF Complete, ExchangeCode, Requests, Lose
<1> SUFFICES ASSUME NEW p \in live', p \notin lost' PROVE Stored(p)' \/ Held(p)'
  BY DEF NoOrphanedToken
<1>2. CASE p \in live
  <2>1. Stored(p) => Stored(p)'
    BY <1>1 DEF Stored
  <2>2. ~AnswersFor(k, p)
    BY <1>1, AnswersOf DEF Holding
  <2> QED BY <1>1, <1>2, <2>1, <2>2, AnswerStays
<1>3. CASE p \notin live
  <2>1. p = issued + 1
    BY <1>3 DEF ExchangeCode, Issue
  <2>2. pc'[k] \in {"check", "discard"} /\ local'[k].token = p
    <3>1. local[k] \in Local /\ DOMAIN local = Requests /\ DOMAIN pc = Requests
      BY <1>1 DEF IInv, TypeOK
    <3>2. ASSUME NEW i, local' = [local EXCEPT ![k].token = issued + 1, ![k].identity = i]
          PROVE  local'[k].token = p
      BY <1>1, <2>1, <3>1, <3>2 DEF Local
    <3>3. ASSUME Keep(k, "token", issued + 1)
          PROVE  local'[k].token = p
      BY <1>1, <2>1, <3>1, <3>3 DEF Local, Keep
    <3>4. ASSUME NEW step, Goto(k, step)
          PROVE  pc'[k] = step
      BY <1>1, <3>1, <3>4 DEF Goto
    <3> QED BY <1>3, <2>1, <3>2, <3>3, <3>4 DEF ExchangeCode, Lose
  <2> QED BY <2>2 DEF Held
<1> QED BY <1>2, <1>3

\* The new pair is stored, or still held; the pair it replaces, which k saw, is held to be revoked.
LEMMA UpsertAnswers ==
  ASSUME IInv, NoOrphanedToken, NEW k \in Completions, Upsert(k), ~Overtaken(k)
  PROVE  NoOrphanedToken'
<1> DEFINE u == local[k].user
           row == [id |-> IF conn[u] = None THEN local[k].token ELSE conn[u].id,
                   pair |-> local[k].token, identity |-> local[k].identity, state |-> "ACTIVE"]
<1>1. /\ k \in Requests /\ pc[k] = "upsert" /\ UNCHANGED <<live, lost, local>>
      /\ u \in Users /\ local[k].identity \in Identities
      /\ \A r \in Requests \ {k} : pc'[r] = pc[r] /\ local'[r] = local[r]
  BY OthersStayInCompletion DEF Complete, Upsert, Requests, gitlab, IInv, ControlsFit, ControlFits
<1> SUFFICES ASSUME NEW p \in live, p \notin lost PROVE Stored(p)' \/ Held(p)'
  BY <1>1 DEF NoOrphanedToken
<1>2. AnswersFor(k, p) => local[k].token = p
  BY <1>1, AnswersOf DEF Holding
<1>3. ASSUME NEW step, Goto(k, step)
      PROVE  pc'[k] = step
  BY <1>1, <1>3 DEF Goto, IInv, TypeOK
<1>4. CASE Goto(k, "discard") /\ UNCHANGED conn
  <2>1. Stored(p) => Stored(p)'
    BY <1>4 DEF Stored
  <2>2. local[k].token = p => Held(p)'
    BY <1>1, <1>3, <1>4 DEF Held
  <2> QED BY <1>1, <1>2, <2>1, <2>2, AnswerStays
<1>5. CASE /\ conn' = [conn EXCEPT ![u] = row]
           /\ Goto(k, IF local[k].row = None \/ StoresToken(local[k].row, local[k].token)
                        THEN "done" ELSE "retire")
  <2>1. /\ conn'[u] # None /\ conn'[u].pair = local[k].token
        /\ \A v \in Users \ {u} : conn'[v] = conn[v]
    <3>1. local[k].token \in Pairs
      <4>1. local[k].token \in 1 .. issued /\ issued \in 0 .. MaxPairs
        BY <1>1 DEF IInv, TokensFit, TypeOK, Fresh, Holding
      <4> QED BY <4>1, BoundsAssumption DEF Pairs
    <3>2. row \in Connection /\ row.pair = local[k].token
      BY <1>1, <3>1 DEF Connection, IInv, TypeOK
    <3>3. conn'[u] = row /\ \A v \in Users \ {u} : conn'[v] = conn[v]
      <4> HIDE DEF row
      <4> QED BY <1>1, <1>5 DEF IInv, TypeOK
    <3> HIDE DEF row
    <3> QED BY <3>2, <3>3, NoneAssumption
  <2>2. local[k].token = p => Stored(p)'
    BY <1>1, <2>1 DEF Stored
  <2>3. conn[u] # None /\ conn[u].pair = p /\ local[k].token # p => Held(p)'
    <3> SUFFICES ASSUME conn[u] # None, conn[u].pair = p, local[k].token # p PROVE Held(p)'
      OBVIOUS
    <3>1. local[k].row # None /\ local[k].row.pair = p
      BY DEF Overtaken
    <3>2. pc'[k] = "retire" /\ local'[k] = local[k]
      BY <1>1, <1>3, <1>5, <3>1 DEF StoresToken
    <3> QED BY <3>1, <3>2 DEF Held
  <2>4. Stored(p) => Stored(p)' \/ Held(p)'
    BY <2>1, <2>2, <2>3 DEF Stored
  <2> QED BY <1>1, <1>2, <2>2, <2>4, AnswerStays
<1> QED BY <1>4, <1>5 DEF Upsert

LEMMA CompletionAnswers ==
  ASSUME IInv, NoOrphanedToken, NEW k \in Completions, Complete(k), Upsert(k) => ~Overtaken(k)
  PROVE  NoOrphanedToken'
<1>1. k \in Requests /\ \A r \in Requests \ {k} : pc'[r] = pc[r] /\ local'[r] = local[r]
  BY OthersStayInCompletion DEF Requests
<1>2. CASE ClaimLink(k)
  <2>1. UNCHANGED <<conn, live, lost>> /\ pc[k] \notin Holding \cup {"retire"}
    BY <1>2 DEF ClaimLink, gitlab, Holding
  <2> QED BY <1>1, <2>1, QuietAnswer DEF Has
<1>3. CASE CheckOther(k) \/ ReadPrevious(k)
  <2>1. /\ UNCHANGED <<conn, live, lost>> /\ pc[k] \in {"check", "previous"}
        /\ pc'[k] \in {"previous", "discard", "upsert"} /\ local'[k].token = local[k].token
    <3>1. local[k] \in Local /\ DOMAIN local = Requests /\ DOMAIN pc = Requests
      BY <1>1 DEF IInv, TypeOK
    <3>2. local'[k].token = local[k].token
      BY <1>1, <1>3, <3>1 DEF CheckOther, ReadPrevious, Keep, Local
    <3> QED BY <1>1, <1>3, <3>1, <3>2 DEF CheckOther, ReadPrevious, gitlab, Goto
  <2> SUFFICES ASSUME NEW p \in live, p \notin lost PROVE Stored(p)' \/ Held(p)'
    BY <2>1 DEF NoOrphanedToken
  <2>2. Stored(p) => Stored(p)'
    BY <2>1 DEF Stored
  <2>3. AnswersFor(k, p) => Held(p)'
    BY <2>1, AnswersOf DEF Held, Holding
  <2> QED BY <1>1, <2>1, <2>2, <2>3, AnswerStays
<1>4. CASE RetirePrevious(k)
  BY <1>1, <1>4, RetireAnswers DEF RetirePrevious
<1>5. CASE Discard(k)
  <2>1. /\ pc[k] = "discard" /\ UNCHANGED conn /\ live' \subseteq live /\ lost \subseteq lost'
        /\ local[k].token \notin live' \ lost'
    BY <1>5 DEF Discard, Revoke, Lose
  <2> SUFFICES ASSUME NEW p \in live', p \notin lost' PROVE Stored(p)' \/ Held(p)'
    BY DEF NoOrphanedToken
  <2>2. Stored(p) => Stored(p)'
    BY <2>1 DEF Stored
  <2>3. ~AnswersFor(k, p)
    BY <2>1, AnswersOf DEF Holding
  <2> QED BY <1>1, <2>1, <2>2, <2>3, AnswerStays
<1> QED BY <1>2, <1>3, <1>4, <1>5, ExchangeAnswers, UpsertAnswers DEF Complete

LEMMA OthersAnswer ==
  ASSUME IInv, NoOrphanedToken, [Next]_vars,
         \A c \in Calls : ~Call(c), \A k \in Completions : ~Complete(k)
  PROVE  NoOrphanedToken'
<1>1. ASSUME UNCHANGED <<conn, live, lost, pc, local>> PROVE NoOrphanedToken'
  BY <1>1 DEF NoOrphanedToken, Stored, Held
<1>2. ASSUME NEW s \in Links, Link(s) PROVE NoOrphanedToken'
  <2>1. /\ s \in Requests /\ UNCHANGED <<conn, live, lost>> /\ pc[s] \notin Holding \cup {"retire"}
    BY <1>2 DEF Requests, Link, DropOldLinks, CreateLink, gitlab, Holding
  <2>2. \A r \in Requests \ {s} : pc'[r] = pc[r] /\ local'[r] = local[r]
    BY <1>2, <2>1 DEF Link, DropOldLinks, CreateLink, Goto, Keep, IInv, TypeOK
  <2> QED BY <2>1, <2>2, QuietAnswer DEF Has
<1>3. ASSUME NEW d \in Disconnects, DeleteConnection(d) PROVE NoOrphanedToken'
  <2>1. PICK u \in Users :
          /\ conn' = [conn EXCEPT ![u] = None]
          /\ local' = [local EXCEPT ![d].user = u, ![d].row = conn[u]]
          /\ Goto(d, IF conn[u] = None THEN "done" ELSE "retire")
    BY <1>3 DEF DeleteConnection
  <2>2. d \in Requests /\ pc[d] = "new" /\ UNCHANGED <<live, lost>>
    BY <1>3 DEF DeleteConnection, Requests, gitlab
  <2>3. \A r \in Requests \ {d} : pc'[r] = pc[r] /\ local'[r] = local[r]
    BY <2>1, <2>2 DEF Goto, IInv, TypeOK
  <2> SUFFICES ASSUME NEW p \in live, p \notin lost PROVE Stored(p)' \/ Held(p)'
    BY <2>2 DEF NoOrphanedToken
  <2>4. CASE conn[u] # None /\ conn[u].pair = p
    <3>1. pc'[d] = "retire"
      BY <2>1, <2>2, <2>4 DEF Goto, IInv, TypeOK
    <3>2. local[d] \in Local
      BY <2>2 DEF IInv, TypeOK
    <3>3. local' = [local EXCEPT ![d] = [local[d] EXCEPT !.user = u, !.row = conn[u]]]
      BY <2>1, <2>2, <3>2 DEF IInv, TypeOK, Local
    <3>4. local'[d].row = conn[u]
      BY <2>2, <3>2, <3>3 DEF IInv, TypeOK, Local
    <3>5. Held(p)'
      BY <2>4, <3>1, <3>4 DEF Held
    <3> QED BY <3>5
  <2>5. CASE ~(conn[u] # None /\ conn[u].pair = p)
    <3>1. Stored(p) => Stored(p)'
      BY <2>1, <2>5 DEF Stored, IInv, TypeOK
    <3>2. ~AnswersFor(d, p)
      BY <2>2, AnswersOf DEF Holding
    <3> QED BY <2>2, <2>3, <3>1, <3>2, AnswerStays
  <2> QED BY <2>4, <2>5
<1>4. ASSUME NEW d \in Disconnects, RevokeDeleted(d) PROVE NoOrphanedToken'
  BY <1>4, RetireAnswers DEF RevokeDeleted, Requests
<1> QED BY <1>1, <1>2, <1>3, <1>4 DEF Next, ExpireLink, Disconnect, Age, Finished, vars, gitlab

LEMMA InitAnswers == Init => NoOrphanedToken
<1> SUFFICES ASSUME Init, NEW p \in live PROVE Stored(p)
  BY DEF NoOrphanedToken
<1>1. PICK pair \in [Connected -> 1 .. issued] :
        /\ IsInjective(pair)
        /\ \A u \in Connected : conn[u] # None /\ conn[u].pair = pair[u]
  <2>1. PICK pair \in [Connected -> 1 .. issued], identity \in [Connected -> Identities] :
          /\ IsInjective(pair)
          /\ conn = [u \in Users |->
               IF u \in Connected THEN [id |-> pair[u], pair |-> pair[u],
                                        identity |-> identity[u], state |-> "ACTIVE"]
                                  ELSE None]
    BY DEF Init
  <2>2. conn \in [Users -> Connection \cup {None}] /\ issued <= MaxPairs
    BY InitIInv, BoundsAssumption DEF IInv, TypeOK
  <2>3. issued \in Nat /\ \A u \in Connected : pair[u] \in Pairs
    BY <2>2, FS_CardinalityType, BoundsAssumption DEF Pairs, Init
  <2>4. \A u \in Connected : conn[u] # None /\ conn[u].pair = pair[u]
    <3> SUFFICES ASSUME NEW u \in Connected PROVE conn[u] # None /\ conn[u].pair = pair[u]
      OBVIOUS
    <3>1. conn[u] = [id |-> pair[u], pair |-> pair[u], identity |-> identity[u], state |-> "ACTIVE"]
      BY <2>1, UsersAssumption
    <3>2. [id |-> pair[u], pair |-> pair[u], identity |-> identity[u], state |-> "ACTIVE"] \in Connection
      BY <2>3 DEF Connection
    <3> QED BY <3>1, <3>2, NoneAssumption
  <2> QED BY <2>1, <2>4
<1>2. IsFiniteSet(Connected) /\ issued = Cardinality(Connected) /\ p \in 1 .. issued /\ issued \in Nat
  BY BoundsAssumption, FS_CardinalityType DEF Init
<1>3. IsFiniteSet(1 .. issued) /\ Cardinality(1 .. issued) = issued
  BY <1>2, FS_Interval
<1>4. pair \in Surjection(Connected, 1 .. issued)
  <2>1. pair \in Injection(Connected, 1 .. issued)
    BY <1>1 DEF Injection, IsInjective
  <2> QED BY <1>2, <1>3, <2>1, FS_Injection
<1> QED BY <1>1, <1>2, <1>4, UsersAssumption DEF Stored, Surjection

\* Whatever refreshes, disconnections and relinks do to each other, only one thing leaves a token
\* behind that stays valid at GitLab: an upsert that writes over a pair which got into the row after
\* completeOAuth had read the connection to retire.  Where no upsert is overtaken, nothing is orphaned.
THEOREM OnlyOvertakenUpsertsOrphan ==
  Spec /\ [][\A k \in Completions : Upsert(k) => ~Overtaken(k)]_vars => []NoOrphanedToken
<1>1. IInv /\ NoOrphanedToken /\ [Next]_vars /\ [\A k \in Completions : Upsert(k) => ~Overtaken(k)]_vars
        => NoOrphanedToken'
  <2> SUFFICES ASSUME IInv, NoOrphanedToken, [Next]_vars,
                      [\A k \in Completions : Upsert(k) => ~Overtaken(k)]_vars
               PROVE  NoOrphanedToken'
    OBVIOUS
  <2>1. CASE UNCHANGED vars
    BY <2>1 DEF vars, NoOrphanedToken, Stored, Held
  <2>2. CASE \A k \in Completions : Upsert(k) => ~Overtaken(k)
    BY <2>2, CallAnswers, CompletionAnswers, OthersAnswer
  <2> QED BY <2>1, <2>2
<1> QED BY <1>1, InitAnswers, Invariance, PTL DEF Spec

\* In particular no refresh and no disconnection orphans a token while nobody links an account.
THEOREM NobodyOrphansWithoutRelink ==
  ASSUME Completions = {}
  PROVE  Spec => []NoOrphanedToken
<1>1. [Next]_vars => [\A k \in Completions : Upsert(k) => ~Overtaken(k)]_vars
  OBVIOUS
<1> QED BY <1>1, OnlyOvertakenUpsertsOrphan, PTL DEF Spec

------------------------------------------------------------------------------
(* A first connection *)

\* The steps of a completion up to its upsert.
Completing == {"exchange", "check", "previous", "upsert"}

\* A completion holds the link it claimed; the only way to a connection is through a completion.
ClaimsFit ==
  /\ \A k \in Completions : pc[k] = "new" => local[k].link = None
  /\ \A k \in Completions : pc[k] \in Completing => local[k].link # None /\ local[k].user \in Linking
  /\ \A u \in Linking : conn[u] # None =>
       \E k \in Completions : local[k].link # None /\ pc[k] \notin Completing

LEMMA InitClaims == Linking \cap Connected = {} /\ Init => ClaimsFit
<1> SUFFICES ASSUME Linking \cap Connected = {}, Init PROVE ClaimsFit
  OBVIOUS
<1>1. \A k \in Completions : pc[k] = "new" /\ local[k].link = None
  BY DEF Init, Requests, Blank
<1>2. \A u \in Linking : conn[u] = None
  BY UsersAssumption DEF Init
<1> QED BY <1>1, <1>2 DEF ClaimsFit, Completing

\* A step by which nobody gets a connection, and no completion claims a link.
LEMMA ClaimsStay ==
  ASSUME ClaimsFit,
         \A u \in Linking : conn'[u] # None => conn[u] # None,
         \A k \in Completions :
           /\ local'[k].link = local[k].link
           /\ pc'[k] = "new" => pc[k] = "new"
           /\ pc'[k] \in Completing => pc[k] \in Completing /\ local'[k].user = local[k].user
  PROVE  ClaimsFit'
BY DEF ClaimsFit

LEMMA ConnectionsOnlyFade ==
  ASSUME IInv, [Next]_vars, \A k \in Completions : ~Upsert(k)
  PROVE  \A u \in Users : conn'[u] # None => conn[u] # None
<1>1. ASSUME NEW x, NEW v, conn[x] # None, conn' = [conn EXCEPT ![x] = v]
      PROVE  \A u \in Users : conn'[u] # None => conn[u] # None
  BY <1>1 DEF IInv, TypeOK
<1>2. ASSUME NEW c \in Calls, Call(c)
      PROVE  \A u \in Users : conn'[u] # None => conn[u] # None
  <2>1. CASE MarkRejected(c) \/ WriteRefreshed(c)
    <3>1. CASE UNCHANGED conn
      BY <3>1
    <3>2. CASE SamePair(c) /\ ~UNCHANGED conn
      <4>1. conn[local[c].user] # None
        BY <3>2 DEF SamePair, Row
      <4>2. \E v : conn' = [conn EXCEPT ![local[c].user] = v]
        BY <2>1, <3>2 DEF MarkRejected, WriteRefreshed, StoreRefreshed
      <4> QED BY <1>1, <4>1, <4>2
    <3> QED BY <2>1, <3>1, <3>2 DEF MarkRejected, WriteRefreshed
  <2>2. CASE MarkNeedsReconnect(c)
    BY <1>1, <2>2 DEF MarkNeedsReconnect
  <2>3. CASE UNCHANGED conn
    BY <2>3
  <2> QED BY <1>2, <2>1, <2>2, <2>3
      DEF Call, Refresh, ReadConnection, Decide, Joined, Use, Reread, SendRefresh, AfterRejection, TakeLatest,
          RevokeUnstored, AfterLostRace
<1>3. ASSUME NEW d \in Disconnects, Disconnect(d)
      PROVE  \A u \in Users : conn'[u] # None => conn[u] # None
  BY <1>3 DEF Disconnect, DeleteConnection, RevokeDeleted, IInv, TypeOK
<1>4. CASE UNCHANGED conn
  BY <1>4
<1> QED BY <1>2, <1>3, <1>4
    DEF Next, Link, DropOldLinks, CreateLink, ExpireLink, Complete, ClaimLink, ExchangeCode, CheckOther,
        ReadPrevious, RetirePrevious, Discard, Age, Finished, vars

\* What a completion does to itself.
LEMMA CompletionClaims ==
  ASSUME IInv, ClaimsFit, NEW k \in Completions, Complete(k)
  PROVE  ClaimsFit'
<1>1. /\ k \in Requests /\ \A r \in Requests \ {k} : pc'[r] = pc[r] /\ local'[r] = local[r]
      /\ local[k] \in Local /\ DOMAIN local = Requests /\ DOMAIN pc = Requests
      /\ \A m \in Completions : m \in Requests
  BY OthersStayInCompletion DEF Requests, IInv, TypeOK
<1>2. ~Upsert(k) => \A u \in Linking : conn'[u] # None => conn[u] # None
  <2>1. \A m \in Completions : Upsert(m) => m = k
    <3> SUFFICES ASSUME NEW m \in Completions, Upsert(m), m # k PROVE FALSE
      OBVIOUS
    <3>1. pc[m] = "upsert" /\ pc'[m] # "upsert"
      BY <1>1 DEF Upsert, Goto
    <3> QED BY <1>1, <3>1
  <2>2. [Next]_vars
    BY DEF Next
  <2> QED BY <2>1, <2>2, ConnectionsOnlyFade, UsersAssumption
<1>3. ASSUME NEW step, Goto(k, step)
      PROVE  pc'[k] = step
  BY <1>1, <1>3 DEF Goto
<1>4. CASE ClaimLink(k)
  <2>1. CASE Goto(k, "refused") /\ UNCHANGED local
    BY <1>1, <1>2, <1>3, <1>4, <2>1, ClaimsStay DEF ClaimLink, Upsert, Completing
  <2>2. ASSUME NEW s \in Links, oauth[s].state = "open",
               local' = [local EXCEPT ![k].user = oauth[s].user, ![k].link = s],
               Goto(k, "exchange") \/ Goto(k, "refused")
        PROVE  ClaimsFit'
    <3>1. oauth[s].user \in Linking
      BY <2>2 DEF IInv, LinksFit
    <3>2. local'[k].user = oauth[s].user /\ local'[k].link = s
      BY <1>1, <2>2 DEF Local
    <3>3. pc[k] = "new" /\ pc'[k] \in {"exchange", "refused"} /\ UNCHANGED conn
      BY <1>3, <1>4, <2>2 DEF ClaimLink
    <3>4. s # None
      BY <2>2, NoneAssumption
    <3>5. \A m \in Completions \ {k} : pc'[m] = pc[m] /\ local'[m] = local[m]
      BY <1>1
    <3>6. /\ \A m \in Completions : pc'[m] = "new" => local'[m].link = None
          /\ \A m \in Completions : pc'[m] \in Completing => local'[m].link # None /\ local'[m].user \in Linking
      BY <3>1, <3>2, <3>3, <3>4, <3>5 DEF ClaimsFit, Completing
    <3>7. \A u \in Linking : conn'[u] # None =>
            \E m \in Completions : local'[m].link # None /\ pc'[m] \notin Completing
      <4> SUFFICES ASSUME NEW u \in Linking, conn[u] # None
                   PROVE  \E m \in Completions : local'[m].link # None /\ pc'[m] \notin Completing
        BY <3>3
      <4>1. PICK m \in Completions : local[m].link # None /\ pc[m] \notin Completing
        BY DEF ClaimsFit
      <4>2. m # k
        BY <3>3, <4>1 DEF ClaimsFit
      <4> QED BY <3>5, <4>1, <4>2
    <3> QED BY <3>6, <3>7 DEF ClaimsFit
  <2> QED BY <1>4, <2>1, <2>2 DEF ClaimLink
<1>5. CASE ExchangeCode(k) \/ CheckOther(k) \/ ReadPrevious(k) \/ RetirePrevious(k) \/ Discard(k)
  <2>1. pc[k] \in Completing \cup {"retire", "discard"} /\ pc'[k] \notin {"new"}
        /\ (pc[k] \in {"retire", "discard"} => pc'[k] \notin Completing)
    BY <1>3, <1>5 DEF ExchangeCode, CheckOther, ReadPrevious, RetirePrevious, Discard, Completing
  <2>2. local'[k].link = local[k].link /\ local'[k].user = local[k].user
    BY <1>1, <1>5 DEF ExchangeCode, CheckOther, ReadPrevious, RetirePrevious, Discard, Keep, Local
  <2>3. ~Upsert(k)
    BY <1>3, <1>5 DEF ExchangeCode, CheckOther, ReadPrevious, RetirePrevious, Discard, Upsert
  <2> QED BY <1>1, <1>2, <2>1, <2>2, <2>3, ClaimsStay
<1>6. CASE Upsert(k)
  <2>1. /\ pc[k] = "upsert" /\ pc'[k] \in {"discard", "done", "retire"} /\ UNCHANGED local
    BY <1>3, <1>6 DEF Upsert
  <2>2. local[k].link # None
    BY <2>1 DEF ClaimsFit, Completing
  <2> QED BY <1>1, <2>1, <2>2 DEF ClaimsFit, Completing
<1> QED BY <1>4, <1>5, <1>6 DEF Complete

\* Nobody else's step claims a link or moves a completion on.
LEMMA OthersClaim ==
  ASSUME IInv, ClaimsFit, [Next]_vars, \A k \in Completions : ~Complete(k)
  PROVE  ClaimsFit'
<1>1. \A u \in Linking : conn'[u] # None => conn[u] # None
  BY ConnectionsOnlyFade, UsersAssumption DEF Complete
<1>2. CASE UNCHANGED <<pc, local>>
  BY <1>1, <1>2, ClaimsStay
<1>3. ASSUME NEW q \in Requests, \A r \in Requests \ {q} : pc'[r] = pc[r] /\ local'[r] = local[r],
             local'[q].link = local[q].link, pc'[q] \notin Completing \cup {"new"}
      PROVE  ClaimsFit'
  <2>1. \A k \in Completions : k \in Requests
    BY DEF Requests
  <2> QED BY <1>1, <1>3, <2>1, ClaimsStay
<1>4. \A q \in Requests : local[q] \in Local /\ q \in DOMAIN local /\ q \in DOMAIN pc
  BY DEF IInv, TypeOK
<1>5. ASSUME NEW q \in Requests, NEW step, Goto(q, step)
      PROVE  pc'[q] = step
  BY <1>4, <1>5 DEF Goto
<1>6. ASSUME NEW c \in Calls, Call(c) PROVE ClaimsFit'
  <2>1. c \in Requests /\ \A r \in Requests \ {c} : pc'[r] = pc[r] /\ local'[r] = local[r]
    BY <1>6, OthersStayInCall DEF Requests
  <2>2. ASSUME NEW v, Keep(c, "token", v) \/ Keep(c, "leader", v)
        PROVE  local'[c].link = local[c].link
    BY <1>4, <2>1, <2>2 DEF Keep, Local
  <2>3. ASSUME NEW u, NEW i, NEW row,
               local' = [local EXCEPT ![c].user = u, ![c].instance = i, ![c].row = row]
        PROVE  local'[c].link = local[c].link
    BY <1>4, <2>1, <2>3 DEF Local
  <2>4. local'[c].link = local[c].link /\ pc'[c] \notin Completing \cup {"new"}
    <3>1. CASE Decide(c) \/ Joined(c) \/ Use(c) \/ MarkNeedsReconnect(c)
      BY <1>5, <2>1, <2>2, <3>1 DEF Decide, Joined, Use, MarkNeedsReconnect, Completing
    <3>2. CASE ReadConnection(c)
      <4>1. PICK u \in Users, i \in Instances :
              /\ local' = [local EXCEPT ![c].user = u, ![c].instance = i, ![c].row = conn[u]]
              /\ Goto(c, IF conn[u] # None /\ conn[u].state = "ACTIVE" THEN "read" ELSE "refused")
        BY <3>2 DEF ReadConnection
      <4>2. pc'[c] \in {"read", "refused"}
        BY <1>5, <2>1, <4>1
      <4> QED BY <2>3, <4>1, <4>2 DEF Completing
    <3>3. CASE Reread(c) \/ SendRefresh(c) \/ AfterRejection(c) \/ MarkRejected(c)
      BY <1>5, <2>1, <2>2, <3>3
         DEF Reread, SendRefresh, AfterRejection, MarkRejected, Completing, SettleWith, Fail
    <3>4. CASE TakeLatest(c) \/ WriteRefreshed(c) \/ RevokeUnstored(c) \/ AfterLostRace(c)
      BY <1>5, <2>1, <2>2, <3>4
         DEF TakeLatest, WriteRefreshed, RevokeUnstored, AfterLostRace, Completing, SettleWith, Fail
    <3> QED BY <1>6, <3>1, <3>2, <3>3, <3>4 DEF Call, Refresh
  <2> QED BY <1>3, <2>1, <2>4
<1>7. ASSUME NEW s \in Links, Link(s) PROVE ClaimsFit'
  <2>1. s \in Requests /\ \A r \in Requests \ {s} : pc'[r] = pc[r] /\ local'[r] = local[r]
    BY <1>7 DEF Link, DropOldLinks, CreateLink, Goto, Keep, Requests, IInv, TypeOK
  <2>2. local'[s].link = local[s].link
    BY <1>4, <1>7, <2>1 DEF Link, DropOldLinks, CreateLink, Keep, Local
  <2>3. pc'[s] \notin Completing \cup {"new"}
    BY <1>5, <1>7, <2>1 DEF Link, DropOldLinks, CreateLink, Completing
  <2> QED BY <1>3, <2>1, <2>2, <2>3
<1>8. ASSUME NEW d \in Disconnects, Disconnect(d) PROVE ClaimsFit'
  <2>1. d \in Requests /\ \A r \in Requests \ {d} : pc'[r] = pc[r] /\ local'[r] = local[r]
    BY <1>8 DEF Disconnect, DeleteConnection, RevokeDeleted, Goto, Requests, IInv, TypeOK
  <2>2. local'[d].link = local[d].link
    BY <1>4, <1>8, <2>1 DEF Disconnect, DeleteConnection, RevokeDeleted, Local
  <2>3. pc'[d] \notin Completing \cup {"new"}
    BY <1>5, <1>8, <2>1 DEF Disconnect, DeleteConnection, RevokeDeleted, Completing
  <2> QED BY <1>3, <2>1, <2>2, <2>3
<1> QED BY <1>2, <1>6, <1>7, <1>8 DEF Next, ExpireLink, Age, Finished, vars

\* One authorization of users who had no connection leaves no token behind, whatever is refreshed or
\* disconnected meanwhile and however often the browser sends it: its upsert finds no row to write over.
THEOREM FirstConnectionOrphansNothing ==
  ASSUME Linking \cap Connected = {}, \A s, t \in Links : s = t
  PROVE  Spec => []NoOrphanedToken
<1>1. IInv /\ ClaimsFit /\ [Next]_vars => ClaimsFit'
  BY CompletionClaims, OthersClaim
<1>2. IInv /\ ClaimsFit => \A k \in Completions : Upsert(k) => ~Overtaken(k)
  <2> SUFFICES ASSUME IInv, ClaimsFit, NEW k \in Completions, Upsert(k), conn[local[k].user] # None
               PROVE  FALSE
    BY DEF Overtaken
  <2>1. pc[k] \in Completing /\ local[k].link # None /\ local[k].user \in Linking
    BY DEF Upsert, ClaimsFit, Completing
  <2>2. PICK m \in Completions : local[m].link # None /\ pc[m] \notin Completing
    BY <2>1 DEF ClaimsFit
  <2>3. local[k].link \in Links /\ local[m].link \in Links
    BY <2>1, <2>2 DEF IInv, LinksFit
  <2>4. local[k].link = local[m].link
    BY <2>3
  <2> QED BY <2>1, <2>2, <2>4 DEF IInv, LinkUsedOnce
<1>3. Spec => [](IInv /\ ClaimsFit)
  BY <1>1, InitClaims, Invariance, PTL DEF Spec
<1>4. IInv /\ ClaimsFit /\ [Next]_vars => [\A k \in Completions : Upsert(k) => ~Overtaken(k)]_vars
  BY <1>2
<1> QED BY <1>3, <1>4, OnlyOvertakenUpsertsOrphan, PTL DEF Spec

------------------------------------------------------------------------------
(* One refresh at a time in a process *)

Leads(c) ==
  /\ local[c].instance \in Instances /\ local[c].user \in Users
  /\ refreshing[Here(c)] = c
LeadersFit == \A c \in Calls : pc[c] \in RefreshSteps => Leads(c)

\* Nobody's refresh is disturbed by another request that leaves the map alone or changes its own entry.
LEMMA LeadersStay ==
  ASSUME LeadersFit, NEW q \in Requests,
         \A r \in Requests \ {q} : pc'[r] = pc[r] /\ local'[r] = local[r],
         \A c \in Calls \ {q} : Leads(c) => refreshing'[Here(c)] = c,
         q \in Calls /\ pc'[q] \in RefreshSteps => Leads(q)'
  PROVE  LeadersFit'
<1> SUFFICES ASSUME NEW c \in Calls, c # q, pc'[c] \in RefreshSteps PROVE Leads(c)'
  BY DEF LeadersFit
<1>1. pc'[c] = pc[c] /\ local'[c] = local[c] /\ Leads(c)
  BY DEF LeadersFit, Requests
<1> QED BY <1>1 DEF Leads, Here

LEMMA CallLeads ==
  ASSUME IInv, LeadersFit, NEW c \in Calls, Call(c)
  PROVE  LeadersFit'
<1>1. c \in Requests /\ \A r \in Requests \ {c} : pc'[r] = pc[r] /\ local'[r] = local[r]
  BY OthersStayInCall DEF Requests
<1>2. pc \in [Requests -> Steps] /\ refreshing \in [Instances \X Users -> Calls \cup {None}]
  BY DEF IInv, TypeOK
<1>3. ASSUME pc'[c] \notin RefreshSteps, UNCHANGED refreshing \/ (Leads(c) /\ Leave(c))
      PROVE  LeadersFit'
  <2>1. \A d \in Calls \ {c} : Leads(d) => refreshing'[Here(d)] = d
    BY <1>2, <1>3 DEF Leads, Leave, Here
  <2> QED BY <1>1, <1>3, <2>1, LeadersStay
<1>4. ASSUME Leads(c), UNCHANGED <<refreshing, local>>
      PROVE  LeadersFit'
  <2>1. Leads(c)'
    BY <1>4 DEF Leads, Here
  <2> QED BY <1>1, <1>4, <2>1, LeadersStay DEF Leads
<1>5. CASE ReadConnection(c) \/ Joined(c) \/ Use(c) \/ MarkNeedsReconnect(c)
  <2>1. pc'[c] \notin RefreshSteps /\ UNCHANGED refreshing
    BY <1>1, <1>2, <1>5 DEF ReadConnection, Joined, Use, MarkNeedsReconnect, Goto, RefreshSteps
  <2> QED BY <1>3, <2>1
<1>6. CASE Decide(c)
  <2>1. CASE pc'[c] \notin RefreshSteps /\ UNCHANGED refreshing
    BY <1>3, <2>1
  <2>2. CASE /\ refreshing[Here(c)] = None /\ refreshing' = [refreshing EXCEPT ![Here(c)] = c]
             /\ UNCHANGED local
    <3>1. local[c].instance \in Instances /\ local[c].user \in Users
      BY <1>1, <1>6 DEF Decide, IInv, ControlsFit, ControlFits
    <3>2. Leads(c)'
      BY <1>2, <2>2, <3>1 DEF Leads, Here
    <3>3. \A d \in Calls \ {c} : Leads(d) => refreshing'[Here(d)] = d
      BY <1>2, <2>2, <3>1, NoneAssumption DEF Leads, Here
    <3> QED BY <1>1, <3>2, <3>3, LeadersStay
  <2> QED BY <1>1, <1>2, <1>6, <2>1, <2>2 DEF Decide, Goto, RefreshSteps
<1>7. ASSUME pc[c] \in RefreshSteps,
             \/ UNCHANGED <<refreshing, local>>
             \/ UNCHANGED refreshing /\ \E p : Keep(c, "token", p)
             \/ Fail(c)
             \/ \E p : SettleWith(c, p)
      PROVE  LeadersFit'
  <2>1. Leads(c) /\ c \in Requests /\ local[c] \in Local
    BY <1>1, <1>7 DEF LeadersFit, IInv, TypeOK
  <2>2. CASE UNCHANGED <<refreshing, local>>
    BY <1>4, <2>1, <2>2
  <2>3. ASSUME UNCHANGED refreshing, NEW p, Keep(c, "token", p) PROVE LeadersFit'
    <3>1. local'[c].instance = local[c].instance /\ local'[c].user = local[c].user
      BY <2>1, <2>3 DEF Keep, IInv, TypeOK, Local
    <3>2. Leads(c)'
      BY <2>1, <2>3, <3>1 DEF Leads, Here
    <3> QED BY <1>1, <2>3, <3>2, LeadersStay DEF Leads
  <2>4. CASE Fail(c) \/ \E p : SettleWith(c, p)
    <3>1. pc'[c] \notin RefreshSteps /\ Leave(c)
      BY <1>1, <1>2, <2>4 DEF Fail, SettleWith, Goto, RefreshSteps
    <3> QED BY <1>3, <2>1, <3>1
  <2> QED BY <1>7, <2>2, <2>3, <2>4
<1>8. CASE SendRefresh(c)
  BY <1>7, <1>8 DEF SendRefresh, RefreshSteps
<1>9. CASE Refresh(c) /\ ~SendRefresh(c)
  BY <1>7, <1>9 DEF Refresh, Reread, AfterRejection, MarkRejected, TakeLatest, WriteRefreshed,
                    RevokeUnstored, AfterLostRace, RefreshSteps
<1> QED BY <1>5, <1>6, <1>8, <1>9 DEF Call

LEMMA NextLeads == IInv /\ LeadersFit /\ [Next]_vars => LeadersFit'
<1> SUFFICES ASSUME IInv, LeadersFit, [Next]_vars PROVE LeadersFit'
  OBVIOUS
<1>1. ASSUME UNCHANGED <<pc, local, refreshing>> PROVE LeadersFit'
  BY <1>1 DEF LeadersFit, Leads, Here
<1>2. ASSUME NEW q \in Requests, UNCHANGED refreshing, pc'[q] \notin RefreshSteps,
             \A r \in Requests \ {q} : pc'[r] = pc[r] /\ local'[r] = local[r]
      PROVE  LeadersFit'
  BY <1>2, LeadersStay DEF Leads
<1>3. ASSUME NEW s \in Links, Link(s) PROVE LeadersFit'
  <2>1. /\ s \in Requests /\ UNCHANGED refreshing /\ pc'[s] \notin RefreshSteps
        /\ \A r \in Requests \ {s} : pc'[r] = pc[r] /\ local'[r] = local[r]
    BY <1>3 DEF Link, DropOldLinks, CreateLink, Goto, Keep, IInv, TypeOK, RefreshSteps, Requests
  <2> QED BY <1>2, <2>1
<1>4. ASSUME NEW k \in Completions, Complete(k) PROVE LeadersFit'
  <2>1. k \in Requests /\ UNCHANGED refreshing
    BY <1>4 DEF Complete, ClaimLink, ExchangeCode, CheckOther, ReadPrevious, Upsert, RetirePrevious,
                Discard, Requests
  <2>2. pc'[k] \notin RefreshSteps /\ \A r \in Requests \ {k} : pc'[r] = pc[r] /\ local'[r] = local[r]
    <3>1. CASE ClaimLink(k) \/ CheckOther(k) \/ ReadPrevious(k) \/ Upsert(k)
      BY <2>1, <3>1 DEF ClaimLink, CheckOther, ReadPrevious, Upsert, Goto, Keep, IInv, TypeOK, RefreshSteps
    <3>2. CASE ExchangeCode(k) \/ RetirePrevious(k) \/ Discard(k)
      BY <2>1, <3>2 DEF ExchangeCode, RetirePrevious, Discard, Goto, Keep, IInv, TypeOK, RefreshSteps
    <3> QED BY <1>4, <3>1, <3>2 DEF Complete
  <2> QED BY <1>2, <2>1, <2>2
<1>5. ASSUME NEW d \in Disconnects, Disconnect(d) PROVE LeadersFit'
  <2>1. /\ d \in Requests /\ UNCHANGED refreshing /\ pc'[d] \notin RefreshSteps
        /\ \A r \in Requests \ {d} : pc'[r] = pc[r] /\ local'[r] = local[r]
    BY <1>5 DEF Disconnect, DeleteConnection, RevokeDeleted, Goto, Keep, IInv, TypeOK, RefreshSteps, Requests
  <2> QED BY <1>2, <2>1
<1> QED BY <1>1, <1>3, <1>4, <1>5, CallLeads DEF Next, ExpireLink, Age, Finished, vars

LEMMA LeadersInvariance == Spec => []LeadersFit
<1>1. Init => LeadersFit
  BY DEF Init, LeadersFit, RefreshSteps, Requests
<1> QED BY <1>1, NextLeads, Invariance, PTL DEF Spec

\* In one process, a refresh never gives a connection up while another refresh is about to store the
\* successor of the token it was refused.
THEOREM NoRefreshIsOutrun ==
  ASSUME \A i, j \in Instances : i = j
  PROVE  Spec => NobodyElseRefreshed
<1>1. LeadersFit /\ [Next]_vars =>
        [\A c \in Calls :
           MarkRejected(c) /\ SamePair(c) =>
             ~\E o \in Calls \ {c} : /\ pc[o] = "write" /\ local[o].user = local[c].user
                                     /\ local[o].row.pair = local[c].row.pair]_vars
  <2> SUFFICES ASSUME LeadersFit, NEW c \in Calls, MarkRejected(c),
                      NEW o \in Calls \ {c}, pc[o] = "write", local[o].user = local[c].user
               PROVE  FALSE
    OBVIOUS
  <2>1. Leads(c) /\ Leads(o)
    BY DEF MarkRejected, LeadersFit, RefreshSteps
  <2>2. Here(c) = Here(o)
    BY <2>1 DEF Leads, Here
  <2> QED BY <2>1, <2>2 DEF Leads
<1> QED BY <1>1, LeadersInvariance, PTL DEF Spec, NobodyElseRefreshed

------------------------------------------------------------------------------
(* Why calls are answered: a joined refresh waits for nobody and its       *)
(* promise leaves the map, and every step of a call is a later one.        *)

\* A promise in the map is that of a refresh in flight, of the same process and user.
MapFits ==
  \A x \in Instances \X Users : refreshing[x] # None =>
    pc[refreshing[x]] \in RefreshSteps /\ Here(refreshing[x]) = x

\* A call waits only for a refresh, in flight or settled, never for a call that waits as well.
JoinedWaitForARefresh ==
  \A c \in Calls : pc[c] = "joined" =>
    local[c].leader \in Calls /\ pc[local[c].leader] \notin {"new", "read", "joined"}

\* What one step of a request q may do to the map.
MapMoves(q) ==
  \/ UNCHANGED refreshing /\ pc[q] \notin RefreshSteps
  \/ UNCHANGED refreshing /\ pc'[q] \in RefreshSteps /\ Here(q)' = Here(q)
  \/ pc[q] \in RefreshSteps /\ Leave(q)
  \/ /\ q \in Calls /\ pc'[q] \in RefreshSteps /\ Here(q)' = Here(q)
     /\ refreshing' = [refreshing EXCEPT ![Here(q)] = q]

LEMMA MapStays ==
  ASSUME IInv, LeadersFit, MapFits, NEW q \in Requests, MapMoves(q), pc[q] \in RefreshSteps => q \in Calls,
         \A r \in Requests \ {q} : pc'[r] = pc[r] /\ local'[r] = local[r]
  PROVE  MapFits'
<1>1. refreshing \in [Instances \X Users -> Calls \cup {None}] /\ Calls \subseteq Requests
  BY DEF IInv, TypeOK, Requests
<1> SUFFICES ASSUME NEW x \in Instances \X Users, NEW c, refreshing'[x] = c, c # None
             PROVE  pc'[c] \in RefreshSteps /\ Here(c)' = x
  BY DEF MapFits, Here
<1>2. ASSUME refreshing'[x] = refreshing[x], c # q
      PROVE  pc'[c] \in RefreshSteps /\ Here(c)' = x
  <2>1. c \in Requests \ {q}
    BY <1>1, <1>2
  <2>2. pc[c] \in RefreshSteps /\ Here(c) = x
    BY <1>2 DEF MapFits
  <2>3. pc'[c] = pc[c] /\ local'[c] = local[c]
    BY <2>1
  <2> QED BY <2>2, <2>3 DEF Here
<1>3. c = q /\ refreshing[x] = q => pc[q] \in RefreshSteps /\ Here(q) = x
  BY DEF MapFits
<1>4. CASE UNCHANGED refreshing /\ pc[q] \notin RefreshSteps
  BY <1>2, <1>3, <1>4
<1>5. CASE UNCHANGED refreshing /\ pc'[q] \in RefreshSteps /\ Here(q)' = Here(q)
  <2>1. CASE c = q
    <3>1. Here(q)' = x
      BY <1>3, <1>5, <2>1
    <3> QED BY <1>5, <2>1, <3>1
  <2> QED BY <1>2, <1>5, <2>1
<1>6. CASE pc[q] \in RefreshSteps /\ Leave(q)
  <2>1. Here(q) \in Instances \X Users
    BY <1>6 DEF LeadersFit, Leads, Here
  <2>2. x # Here(q) /\ refreshing'[x] = refreshing[x]
    BY <1>1, <1>6, <2>1 DEF Leave
  <2> QED BY <1>2, <1>3, <2>2
<1>7. CASE /\ q \in Calls /\ pc'[q] \in RefreshSteps /\ Here(q)' = Here(q)
           /\ refreshing' = [refreshing EXCEPT ![Here(q)] = q]
  <2>1. CASE x = Here(q)
    <3>1. c = q /\ Here(q)' = x
      BY <1>1, <1>7, <2>1
    <3> QED BY <1>7, <3>1
  <2>2. CASE x # Here(q)
    <3>1. refreshing'[x] = refreshing[x] /\ c # q
      BY <1>1, <1>3, <1>7, <2>2
    <3> QED BY <1>2, <3>1
  <2> QED BY <2>1, <2>2
<1> QED BY <1>4, <1>5, <1>6, <1>7 DEF MapMoves

LEMMA JoinedStay ==
  ASSUME IInv, JoinedWaitForARefresh, NEW q \in Requests,
         \A r \in Requests \ {q} : pc'[r] = pc[r] /\ local'[r] = local[r],
         pc'[q] \in {"new", "read", "joined"} => pc[q] \in {"new", "read"},
         q \in Calls /\ pc'[q] = "joined" =>
           local'[q].leader \in Calls /\ pc'[local'[q].leader] \notin {"new", "read", "joined"}
  PROVE  JoinedWaitForARefresh'
<1> SUFFICES ASSUME NEW c \in Calls, pc'[c] = "joined", c # q
             PROVE  local'[c].leader \in Calls /\ pc'[local'[c].leader] \notin {"new", "read", "joined"}
  BY DEF JoinedWaitForARefresh
<1>1. Calls \subseteq Requests
  BY DEF Requests
<1>2. pc[c] = "joined" /\ local'[c] = local[c]
  BY <1>1
<1>3. local[c].leader \in Calls /\ pc[local[c].leader] \notin {"new", "read", "joined"}
  BY <1>2 DEF JoinedWaitForARefresh
<1>4. CASE local[c].leader = q
  BY <1>2, <1>3, <1>4
<1>5. CASE local[c].leader # q
  BY <1>1, <1>2, <1>3, <1>5
<1> QED BY <1>4, <1>5

LEMMA CallMoves ==
  ASSUME IInv, LeadersFit, MapFits, NEW c \in Calls, Call(c)
  PROVE  /\ MapMoves(c)
         /\ pc'[c] \in {"new", "read", "joined"} => pc[c] \in {"new", "read"}
         /\ pc'[c] = "joined" =>
              local'[c].leader \in Calls /\ pc'[local'[c].leader] \notin {"new", "read", "joined"}
<1>1. /\ c \in Requests /\ pc \in [Requests -> Steps] /\ local[c] \in Local /\ local \in [Requests -> Local]
      /\ refreshing \in [Instances \X Users -> Calls \cup {None}] /\ Calls \subseteq Requests
  BY DEF IInv, TypeOK, Requests
<1> DEFINE Back == pc'[c] \in {"new", "read", "joined"}
<1>2. CASE ReadConnection(c)
  BY <1>1, <1>2 DEF ReadConnection, Goto, MapMoves, RefreshSteps
<1>3. CASE Joined(c) \/ Use(c) \/ MarkNeedsReconnect(c)
  <2>1. UNCHANGED refreshing /\ pc[c] \notin RefreshSteps /\ ~Back
    BY <1>1, <1>3 DEF Joined, Use, MarkNeedsReconnect, Goto, RefreshSteps
  <2> QED BY <2>1 DEF MapMoves
<1>4. CASE Decide(c)
  <2>1. pc[c] = "read" /\ Here(c) \in Instances \X Users
    BY <1>1, <1>4 DEF Decide, Here, IInv, ControlsFit, ControlFits
  <2>2. CASE UNCHANGED refreshing /\ pc'[c] = "use"
    BY <2>1, <2>2 DEF MapMoves, RefreshSteps
  <2>3. CASE /\ refreshing[Here(c)] # None /\ Keep(c, "leader", refreshing[Here(c)])
             /\ Goto(c, "joined") /\ UNCHANGED refreshing
    <3>1. PICK l \in Calls : l = refreshing[Here(c)]
      BY <1>1, <2>1, <2>3
    <3>2. pc[l] \in RefreshSteps /\ l # c
      BY <2>1, <2>3, <3>1 DEF MapFits, RefreshSteps
    <3>3. local'[c].leader = l /\ pc'[l] = pc[l]
      BY <1>1, <2>3, <3>1, <3>2 DEF Keep, Goto, Local
    <3> QED BY <2>1, <2>3, <3>1, <3>2, <3>3 DEF MapMoves, RefreshSteps
  <2>4. CASE /\ refreshing' = [refreshing EXCEPT ![Here(c)] = c] /\ Goto(c, "reread")
             /\ UNCHANGED local
    BY <1>1, <2>1, <2>4 DEF Goto, MapMoves, Here, RefreshSteps
  <2> QED BY <1>1, <1>4, <2>2, <2>3, <2>4 DEF Decide, Goto
<1>5. ASSUME pc[c] \in RefreshSteps,
             \/ UNCHANGED <<refreshing, local>> /\ \E step \in RefreshSteps : Goto(c, step)
             \/ UNCHANGED refreshing /\ (\E p : Keep(c, "token", p)) /\ Goto(c, "write")
             \/ Fail(c)
             \/ \E p : SettleWith(c, p)
      PROVE  MapMoves(c) /\ ~Back
  <2>1. CASE UNCHANGED <<refreshing, local>> /\ \E step \in RefreshSteps : Goto(c, step)
    BY <1>1, <2>1 DEF Goto, MapMoves, Here, RefreshSteps
  <2>2. ASSUME UNCHANGED refreshing, NEW p, Keep(c, "token", p), Goto(c, "write") PROVE MapMoves(c) /\ ~Back
    <3>1. local'[c].instance = local[c].instance /\ local'[c].user = local[c].user
      BY <1>1, <2>2 DEF Keep, Local
    <3> QED BY <1>1, <2>2, <3>1 DEF Goto, MapMoves, Here, RefreshSteps
  <2>3. CASE Fail(c) \/ \E p : SettleWith(c, p)
    BY <1>1, <1>5, <2>3 DEF Fail, SettleWith, Goto, MapMoves
  <2> QED BY <1>5, <2>1, <2>2, <2>3
<1>6. CASE SendRefresh(c)
  BY <1>5, <1>6 DEF SendRefresh, RefreshSteps
<1>7. CASE Refresh(c) /\ ~SendRefresh(c)
  BY <1>5, <1>7 DEF Refresh, Reread, AfterRejection, MarkRejected, TakeLatest, WriteRefreshed,
                    RevokeUnstored, AfterLostRace, RefreshSteps
<1> QED BY <1>2, <1>3, <1>4, <1>5, <1>6, <1>7 DEF Call, Refresh

\* A call that joins a refresh waits for one that runs by itself, and a settled promise is not left in
\* the map, where every later call would join it (accessToken).
THEOREM NobodyWaitsForAWaiter == Spec => [](MapFits /\ JoinedWaitForARefresh)
<1>1. Init => MapFits /\ JoinedWaitForARefresh
  BY DEF Init, MapFits, JoinedWaitForARefresh, Requests
<1>2. ASSUME IInv, LeadersFit, MapFits, JoinedWaitForARefresh, [Next]_vars
      PROVE  MapFits' /\ JoinedWaitForARefresh'
  <2>1. pc \in [Requests -> Steps] /\ local \in [Requests -> Local]
    BY <1>2 DEF IInv, TypeOK
  <2>2. ASSUME NEW c \in Calls, Call(c) PROVE MapFits' /\ JoinedWaitForARefresh'
    <3>1. c \in Requests /\ \A r \in Requests \ {c} : pc'[r] = pc[r] /\ local'[r] = local[r]
      BY <1>2, <2>2, OthersStayInCall DEF Requests
    <3> QED BY <1>2, <2>2, <3>1, CallMoves, MapStays, JoinedStay
  <2>3. ASSUME NEW q \in Requests, UNCHANGED refreshing, pc[q] \notin RefreshSteps,
               pc'[q] \notin {"new", "read", "joined"},
               \A r \in Requests \ {q} : pc'[r] = pc[r] /\ local'[r] = local[r]
        PROVE  MapFits' /\ JoinedWaitForARefresh'
    BY <1>2, <2>3, MapStays, JoinedStay DEF MapMoves
  <2>4. ASSUME NEW s \in Links, Link(s) PROVE MapFits' /\ JoinedWaitForARefresh'
    <3>1. /\ s \in Requests /\ UNCHANGED refreshing
          /\ pc[s] \notin RefreshSteps /\ pc'[s] \notin {"new", "read", "joined"}
          /\ \A r \in Requests \ {s} : pc'[r] = pc[r] /\ local'[r] = local[r]
      BY <2>1, <2>4 DEF Link, DropOldLinks, CreateLink, Goto, Keep, RefreshSteps, Requests
    <3> QED BY <2>3, <3>1
  <2>5. ASSUME NEW k \in Completions, Complete(k) PROVE MapFits' /\ JoinedWaitForARefresh'
    <3>1. k \in Requests /\ UNCHANGED refreshing
      BY <2>5 DEF Complete, ClaimLink, ExchangeCode, CheckOther, ReadPrevious, Upsert, RetirePrevious,
                  Discard, Requests
    <3>2. /\ pc[k] \notin RefreshSteps /\ pc'[k] \notin {"new", "read", "joined"}
          /\ \A r \in Requests \ {k} : pc'[r] = pc[r] /\ local'[r] = local[r]
      <4>1. CASE ClaimLink(k) \/ CheckOther(k) \/ ReadPrevious(k) \/ Upsert(k)
        BY <2>1, <3>1, <4>1 DEF ClaimLink, CheckOther, ReadPrevious, Upsert, Goto, Keep, RefreshSteps
      <4>2. CASE ExchangeCode(k) \/ RetirePrevious(k) \/ Discard(k)
        BY <2>1, <3>1, <4>2 DEF ExchangeCode, RetirePrevious, Discard, Goto, Keep, RefreshSteps
      <4> QED BY <2>5, <4>1, <4>2 DEF Complete
    <3> QED BY <2>3, <3>1, <3>2
  <2>6. ASSUME NEW d \in Disconnects, Disconnect(d) PROVE MapFits' /\ JoinedWaitForARefresh'
    <3>1. /\ d \in Requests /\ UNCHANGED refreshing
          /\ pc[d] \notin RefreshSteps /\ pc'[d] \notin {"new", "read", "joined"}
          /\ \A r \in Requests \ {d} : pc'[r] = pc[r] /\ local'[r] = local[r]
      BY <2>1, <2>6 DEF Disconnect, DeleteConnection, RevokeDeleted, Goto, Keep, RefreshSteps, Requests
    <3> QED BY <2>3, <3>1
  <2>7. CASE UNCHANGED <<pc, local, refreshing>>
    BY <1>2, <2>7 DEF MapFits, JoinedWaitForARefresh, Here
  <2> QED BY <1>2, <2>2, <2>4, <2>5, <2>6, <2>7 DEF Next, ExpireLink, Age, Finished, vars
<1> QED BY <1>1, <1>2, Invariance, LeadersInvariance, PTL DEF Spec

------------------------------------------------------------------------------
(* A pair belongs to one user *)

\* What a request holds or has read.
Knows(q, p) == local[q].token = p \/ (local[q].row # None /\ local[q].row.pair = p)

\* User u has p in the row, or one of the user's requests knows it.
Owns(u, p) ==
  \/ u \in Users /\ Has(u) /\ conn[u].pair = p
  \/ \E q \in Requests : local[q].user = u /\ Knows(q, p)

\* Nobody owns a pair that GitLab has not issued, and nobody owns another's.
OneOwner ==
  \A p \in Pairs, u, v \in Users \cup {None} :
    Owns(u, p) => p \in 1 .. issued /\ (Owns(v, p) => u = v)

NewKnowNothing == \A q \in Requests : pc[q] = "new" => local[q].token = None
JoinedAreOfOneUser == \A c \in Calls : pc[c] = "joined" => local[local[c].leader].user = local[c].user
TokensOwned == OneOwner /\ NewKnowNothing /\ JoinedAreOfOneUser

LEMMA OwnersStay ==
  ASSUME IInv, OneOwner, NEW q \in Requests,
         \A r \in Requests \ {q} : local'[r] = local[r],
         issued' = issued \/ issued' = issued + 1,
         \A p \in Pairs : Knows(q, p)' => Owns(local'[q].user, p) \/ (p = issued + 1 /\ issued' = issued + 1),
         \A u \in Users, p \in Pairs : Has(u)' /\ conn'[u].pair = p => Owns(u, p)
  PROVE  OneOwner'
<1> DEFINE w == local'[q].user
           Gets(u, p) == p = issued + 1 /\ issued' = issued + 1 /\ u = w
<1>1. ASSUME NEW p \in Pairs, NEW u \in Users \cup {None}, Owns(u, p)'
      PROVE  Owns(u, p) \/ Gets(u, p)
  <2>1. CASE u \in Users /\ Has(u)' /\ conn'[u].pair = p
    BY <2>1
  <2>2. ASSUME NEW r \in Requests, local'[r].user = u, Knows(r, p)' PROVE Owns(u, p) \/ Gets(u, p)
    <3>1. CASE r = q
      BY <2>2, <3>1
    <3>2. CASE r # q
      BY <2>2, <3>2 DEF Knows, Owns
    <3> QED BY <3>1, <3>2
  <2> QED BY <1>1, <2>1, <2>2 DEF Owns
<1>2. issued \in Nat /\ issued + 1 \notin 1 .. issued /\ 1 .. issued \subseteq 1 .. issued'
  BY BoundsAssumption DEF IInv, TypeOK
<1> HIDE DEF w
<1> SUFFICES ASSUME NEW p \in Pairs, NEW u \in Users \cup {None}, NEW v \in Users \cup {None}, Owns(u, p)'
             PROVE  p \in 1 .. issued' /\ (Owns(v, p)' => u = v)
  BY DEF OneOwner
<1>3. Owns(u, p) => p \in 1 .. issued /\ (Owns(v, p) => u = v)
  BY DEF OneOwner
<1>3a. Owns(v, p) => p \in 1 .. issued
  BY DEF OneOwner
<1>4. CASE Owns(u, p)
  BY <1>1, <1>2, <1>3, <1>4
<1>5. CASE Gets(u, p)
  <2>1. ~Owns(v, p) /\ p \in 1 .. issued'
    BY <1>2, <1>3a, <1>5
  <2> QED BY <1>1, <1>5, <2>1
<1> QED BY <1>1, <1>4, <1>5

\* The request moves on, for the user it acted for, or learns whom it acts for.
LEMMA ControlOwned ==
  ASSUME TokensOwned, JoinedWaitForARefresh, NEW q \in Requests,
         \A r \in Requests \ {q} : pc'[r] = pc[r] /\ local'[r] = local[r],
         pc'[q] # "new", pc[q] = "new" \/ local'[q].user = local[q].user,
         pc'[q] = "joined" => local'[local'[q].leader].user = local'[q].user
  PROVE  NewKnowNothing' /\ JoinedAreOfOneUser'
<1>1. NewKnowNothing'
  BY DEF TokensOwned, NewKnowNothing
<1>2. ASSUME NEW c \in Calls, pc'[c] = "joined"
      PROVE  local'[local'[c].leader].user = local'[c].user
  <2>1. CASE c = q
    BY <1>2, <2>1
  <2>2. CASE c # q
    <3>1. c \in Requests \ {q} /\ Calls \subseteq Requests
      BY <2>2 DEF Requests
    <3>2. pc[c] = "joined" /\ local'[c] = local[c]
      BY <1>2, <3>1
    <3>3. local[c].leader \in Requests /\ pc[local[c].leader] # "new"
      BY <3>1, <3>2 DEF JoinedWaitForARefresh
    <3>4. local[local[c].leader].user = local[c].user
      BY <3>2 DEF TokensOwned, JoinedAreOfOneUser
    <3>5. local'[local[c].leader].user = local[local[c].leader].user
      BY <3>3
    <3> QED BY <3>2, <3>4, <3>5
  <2> QED BY <2>1, <2>2
<1> QED BY <1>1, <1>2 DEF JoinedAreOfOneUser

\* A step after which the request knows what it knew, what its own user's row holds, or a new pair.
LEMMA OwnedMove ==
  ASSUME IInv, TokensOwned, JoinedWaitForARefresh, NEW q \in Requests,
         \A r \in Requests \ {q} : pc'[r] = pc[r] /\ local'[r] = local[r],
         pc'[q] # "new", pc[q] = "new" \/ local'[q].user = local[q].user,
         pc'[q] = "joined" => local'[local'[q].leader].user = local'[q].user,
         issued' = issued \/ issued' = issued + 1,
         \A p \in Pairs : Knows(q, p)' => Owns(local'[q].user, p) \/ (p = issued + 1 /\ issued' = issued + 1),
         \A u \in Users, p \in Pairs : Has(u)' /\ conn'[u].pair = p => Owns(u, p)
  PROVE  TokensOwned'
<1>1. OneOwner'
  BY OwnersStay DEF TokensOwned
<1> QED BY <1>1, ControlOwned DEF TokensOwned

LEMMA RowsAreOwned == \A u \in Users, p \in Pairs : Has(u) /\ conn[u].pair = p => Owns(u, p)
BY DEF Owns

LEMMA KnownIsOwned == \A q \in Requests, p \in Pairs : Knows(q, p) => Owns(local[q].user, p)
BY DEF Owns

LEMMA NewKnows ==
  ASSUME IInv, TokensOwned, NEW q \in Requests, pc[q] = "new"
  PROVE  \A p \in Pairs : ~Knows(q, p)
BY NoneAssumption DEF IInv, ControlsFit, ControlFits, TokensOwned, NewKnowNothing, Knows

\* A call that gets the token p, or none, at the end of a refresh or without one.
LEMMA TokenOwned ==
  ASSUME IInv, TokensOwned, JoinedWaitForARefresh, NEW c \in Calls, pc[c] # "new",
         \A r \in Requests \ {c} : pc'[r] = pc[r] /\ local'[r] = local[r],
         pc'[c] \notin {"new", "joined"},
         NEW p \in Pairs \cup {None}, Keep(c, "token", p),
         p # None => Owns(local[c].user, p) \/ (p = issued + 1 /\ issued' = issued + 1),
         issued' = issued \/ issued' = issued + 1,
         \A u \in Users, o \in Pairs : Has(u)' /\ conn'[u].pair = o => Owns(u, o)
  PROVE  TokensOwned'
<1>1. c \in Requests /\ local[c] \in Local /\ local \in [Requests -> Local]
  BY DEF Requests, IInv, TypeOK
<1>2. local'[c].user = local[c].user /\ local'[c].row = local[c].row /\ local'[c].token = p
  BY <1>1 DEF Keep, Local
<1>3. ASSUME NEW o \in Pairs, Knows(c, o)'
      PROVE  Owns(local'[c].user, o) \/ (o = issued + 1 /\ issued' = issued + 1)
  <2>1. CASE local'[c].token = o
    BY <1>2, <2>1, NoneAssumption
  <2>2. CASE local'[c].row # None /\ local'[c].row.pair = o
    BY <1>1, <1>2, <2>2, KnownIsOwned DEF Knows
  <2> QED BY <1>3, <2>1, <2>2 DEF Knows
<1> QED BY <1>1, <1>2, <1>3, OwnedMove

\* A step that leaves the locals alone and puts into a row at most what its user owns.
LEMMA StillOwned ==
  ASSUME IInv, TokensOwned, JoinedWaitForARefresh, NEW q \in Requests,
         \A r \in Requests \ {q} : pc'[r] = pc[r], UNCHANGED local,
         pc'[q] \notin {"new", "joined"},
         issued' = issued \/ issued' = issued + 1,
         \A u \in Users, p \in Pairs : Has(u)' /\ conn'[u].pair = p => Owns(u, p)
  PROVE  TokensOwned'
<1>1. \A p \in Pairs : Knows(q, p)' => Owns(local'[q].user, p)
  BY KnownIsOwned DEF Knows
<1>2. \A r \in Requests \ {q} : pc'[r] = pc[r] /\ local'[r] = local[r]
  OBVIOUS
<1>3. local'[q].user = local[q].user
  OBVIOUS
<1> QED BY <1>1, <1>2, <1>3, OwnedMove

\* A step in which the request learns its user and, at most, reads that user's row.
LEMMA FirstOwned ==
  ASSUME IInv, TokensOwned, JoinedWaitForARefresh, NEW q \in Requests, pc[q] = "new",
         \A r \in Requests \ {q} : pc'[r] = pc[r] /\ local'[r] = local[r],
         pc'[q] \notin {"new", "joined"},
         local'[q].token = local[q].token,
         \/ local'[q].row = local[q].row
         \/ local'[q].user \in Users /\ local'[q].row = conn[local'[q].user],
         UNCHANGED issued, \A u \in Users : Has(u)' => Has(u) /\ conn'[u] = conn[u]
  PROVE  TokensOwned'
<1>1. \A u \in Users, p \in Pairs : Has(u)' /\ conn'[u].pair = p => Owns(u, p)
  BY RowsAreOwned
<1>2. ASSUME NEW p \in Pairs, Knows(q, p)' PROVE Owns(local'[q].user, p)
  <2>1. ~Knows(q, p)
    BY NewKnows
  <2>2. local'[q].user \in Users /\ Has(local'[q].user) /\ conn[local'[q].user].pair = p
    BY <1>2, <2>1 DEF Knows, Has
  <2> QED BY <2>2, RowsAreOwned
<1> QED BY <1>1, <1>2, OwnedMove

LEMMA CallOwned ==
  ASSUME IInv, TokensOwned, JoinedWaitForARefresh, MapFits, NEW c \in Calls, Call(c)
  PROVE  TokensOwned'
<1>1. /\ c \in Requests /\ pc \in [Requests -> Steps] /\ local \in [Requests -> Local] /\ local[c] \in Local
      /\ Calls \subseteq Requests /\ conn \in [Users -> Connection \cup {None}]
      /\ \A r \in Requests \ {c} : pc'[r] = pc[r] /\ local'[r] = local[r]
  BY OthersStayInCall DEF IInv, TypeOK, Requests
<1>2. ASSUME UNCHANGED conn PROVE \A u \in Users, o \in Pairs : Has(u)' /\ conn'[u].pair = o => Owns(u, o)
  BY <1>2, RowsAreOwned DEF Has
<1>3. ASSUME pc[c] \in RefreshSteps, UNCHANGED <<conn, gitlab>>,
             Fail(c) \/ (Row(c) # None /\ SettleWith(c, Row(c).pair))
      PROVE  TokensOwned'
  <2>1. pc'[c] \in {"refused", "use"} /\ pc[c] # "new"
    BY <1>1, <1>3 DEF Fail, SettleWith, Goto, RefreshSteps
  <2>2. CASE Fail(c)
    BY <1>1, <1>2, <1>3, <2>1, <2>2, TokenOwned DEF Fail, gitlab
  <2>3. CASE Row(c) # None /\ SettleWith(c, Row(c).pair)
    <3>1. Row(c).pair \in Pairs /\ Row(c) = conn[local[c].user]
      BY <1>3, <2>3, RowOfCall
    <3>2. local[c].user \in Users
      BY <1>1, <1>3 DEF IInv, ControlsFit, ControlFits
    <3>3. Owns(local[c].user, Row(c).pair)
      BY <2>3, <3>1, <3>2, RowsAreOwned DEF Has
    <3> QED BY <1>1, <1>2, <1>3, <2>1, <2>3, <3>1, <3>3, TokenOwned DEF SettleWith, gitlab
  <2> QED BY <1>3, <2>2, <2>3
<1>4. CASE ReadConnection(c)
  <2>1. PICK u \in Users, i \in Instances :
          /\ local' = [local EXCEPT ![c].user = u, ![c].instance = i, ![c].row = conn[u]]
          /\ Goto(c, IF conn[u] # None /\ conn[u].state = "ACTIVE" THEN "read" ELSE "refused")
          /\ pc[c] = "new" /\ UNCHANGED <<conn, gitlab>>
    BY <1>4 DEF ReadConnection
  <2>2. local'[c].user = u /\ local'[c].row = conn[u] /\ local'[c].token = local[c].token
    BY <1>1, <2>1 DEF Local
  <2>3. pc'[c] \in {"read", "refused"}
    BY <1>1, <2>1 DEF Goto
  <2>4. \A v \in Users : Has(v)' => Has(v) /\ conn'[v] = conn[v]
    BY <2>1 DEF Has
  <2> QED BY <1>1, <2>1, <2>2, <2>3, <2>4, FirstOwned DEF gitlab
<1>5. CASE Decide(c)
  <2>1. pc[c] = "read" /\ UNCHANGED <<conn, gitlab>> /\ local[c].row # None
    BY <1>1, <1>5 DEF Decide, IInv, ControlsFit, ControlFits
  <2>2. CASE Keep(c, "token", local[c].row.pair) /\ Goto(c, "use")
    <3>1. local[c].row.pair \in Pairs
      BY <1>1, <2>1 DEF Local, Connection
    <3>2. Owns(local[c].user, local[c].row.pair)
      BY <1>1, <2>1, <3>1, KnownIsOwned DEF Knows
    <3>3. pc'[c] \notin {"new", "joined"}
      BY <1>1, <2>2 DEF Goto
    <3> QED BY <1>1, <1>2, <2>1, <2>2, <3>1, <3>2, <3>3, TokenOwned DEF gitlab
  <2>3. CASE /\ refreshing[Here(c)] # None /\ Keep(c, "leader", refreshing[Here(c)])
             /\ Goto(c, "joined") /\ UNCHANGED refreshing
    <3>1. Here(c) \in Instances \X Users
      BY <1>1, <2>1 DEF Here, IInv, ControlsFit, ControlFits
    <3>2. PICK l \in Calls : l = refreshing[Here(c)]
      BY <2>3, <3>1 DEF IInv, TypeOK
    <3>3. pc[l] \in RefreshSteps /\ Here(l) = Here(c) /\ l # c
      BY <2>1, <2>3, <3>1, <3>2 DEF MapFits, RefreshSteps
    <3>4. local[l].user = local[c].user /\ local'[l] = local[l]
      BY <1>1, <3>3 DEF Here
    <3>5. /\ local'[c].leader = l /\ local'[c].user = local[c].user
          /\ local'[c].row = local[c].row /\ local'[c].token = local[c].token
      BY <1>1, <2>3, <3>2 DEF Keep, Local
    <3>6. \A p \in Pairs : Knows(c, p)' => Owns(local'[c].user, p)
      BY <1>1, <3>5, KnownIsOwned DEF Knows
    <3>7. pc'[c] # "new"
      BY <1>1, <2>3 DEF Goto
    <3> QED BY <1>1, <1>2, <2>1, <3>4, <3>5, <3>6, <3>7, OwnedMove DEF gitlab
  <2>4. CASE Goto(c, "reread") /\ UNCHANGED local
    <3>1. pc'[c] \notin {"new", "joined"}
      BY <1>1, <2>4 DEF Goto
    <3> QED BY <1>1, <1>2, <2>1, <2>4, <3>1, StillOwned DEF gitlab
  <2> QED BY <1>5, <2>2, <2>3, <2>4 DEF Decide
<1>6. CASE Joined(c)
  <2> DEFINE l == local[c].leader
  <2>1. pc[c] = "joined" /\ UNCHANGED <<conn, gitlab>> /\ l \in Requests /\ local[l].user = local[c].user
    BY <1>1, <1>6 DEF Joined, JoinedWaitForARefresh, TokensOwned, JoinedAreOfOneUser
  <2>2. CASE local[l].token # None /\ Keep(c, "token", local[l].token) /\ Goto(c, "use")
    <3>1. local[l].token \in Pairs
      BY <1>1, <2>1, <2>2 DEF Local
    <3>2. Owns(local[c].user, local[l].token)
      BY <2>1, <3>1, KnownIsOwned DEF Knows
    <3>3. pc'[c] \notin {"new", "joined"}
      BY <1>1, <2>2 DEF Goto
    <3> QED BY <1>1, <1>2, <2>1, <2>2, <3>1, <3>2, <3>3, TokenOwned DEF gitlab
  <2>3. CASE Goto(c, "refused") /\ UNCHANGED local
    <3>1. pc'[c] \notin {"new", "joined"}
      BY <1>1, <2>3 DEF Goto
    <3> QED BY <1>1, <1>2, <2>1, <2>3, <3>1, StillOwned DEF gitlab
  <2> QED BY <1>6, <2>2, <2>3 DEF Joined
<1>7. CASE Reread(c) \/ AfterRejection(c) \/ TakeLatest(c) \/ AfterLostRace(c)
  <2>1. pc[c] \in RefreshSteps /\ UNCHANGED <<conn, gitlab>>
    BY <1>7 DEF Reread, AfterRejection, TakeLatest, AfterLostRace, RefreshSteps
  <2>2. CASE UNCHANGED local /\ \E step \in {"send", "mark"} : Goto(c, step)
    <3>1. pc'[c] \notin {"new", "joined"}
      BY <1>1, <2>2 DEF Goto
    <3> QED BY <1>1, <1>2, <2>1, <2>2, <3>1, StillOwned DEF gitlab
  <2> QED BY <1>3, <1>7, <2>1, <2>2 DEF Reread, AfterRejection, TakeLatest, AfterLostRace
<1>8. CASE SendRefresh(c)
  <2>1. pc[c] = "send" /\ UNCHANGED <<conn, due>> /\ pc[c] # "new"
    BY <1>8 DEF SendRefresh
  <2>2. ASSUME Issue(local[c].row.pair), Keep(c, "token", issued + 1), Goto(c, "write")
        PROVE  TokensOwned'
    <3>1. issued + 1 \in Pairs /\ issued' = issued + 1
      BY <2>2, BoundsAssumption DEF Issue, Pairs, IInv, TypeOK
    <3>2. pc'[c] \notin {"new", "joined"}
      BY <1>1, <2>2 DEF Goto
    <3> QED BY <1>1, <1>2, <2>1, <2>2, <3>1, <3>2, TokenOwned
  <2>3. ASSUME issued' = issued \/ issued' = issued + 1, Fail(c) PROVE TokensOwned'
    <3>1. pc'[c] \notin {"new", "joined"}
      BY <1>1, <2>3 DEF Fail, Goto
    <3> QED BY <1>1, <1>2, <2>1, <2>3, <3>1, TokenOwned DEF Fail
  <2>4. CASE Goto(c, "rejected") /\ UNCHANGED <<issued, local>>
    <3>1. pc'[c] \notin {"new", "joined"}
      BY <1>1, <2>4 DEF Goto
    <3> QED BY <1>1, <1>2, <2>1, <2>4, <3>1, StillOwned
  <2> QED BY <1>8, <2>2, <2>3, <2>4 DEF SendRefresh, Issue
<1>9. CASE MarkRejected(c)
  <2>1. pc[c] = "mark" /\ pc[c] \in RefreshSteps /\ UNCHANGED gitlab
    BY <1>9 DEF MarkRejected, RefreshSteps
  <2>2. CASE /\ SamePair(c) /\ Fail(c)
             /\ conn' = [conn EXCEPT ![local[c].user].state = "NEEDS_RECONNECT"]
    <3>1. conn[local[c].user] \in Connection /\ local[c].user \in Users
      BY <1>1, <2>1, <2>2 DEF SamePair, Row, IInv, ControlsFit, ControlFits
    <3>2. \A u \in Users : Has(u)' => Has(u) /\ conn'[u].pair = conn[u].pair
      BY <1>1, <2>2, <3>1, NoneAssumption DEF Has, Connection
    <3>3. \A u \in Users, o \in Pairs : Has(u)' /\ conn'[u].pair = o => Owns(u, o)
      BY <3>2, RowsAreOwned
    <3>4. pc'[c] \notin {"new", "joined"} /\ pc[c] # "new"
      BY <1>1, <2>1, <2>2 DEF Fail, Goto
    <3> QED BY <1>1, <2>1, <2>2, <3>3, <3>4, TokenOwned DEF Fail, gitlab
  <2>3. CASE Goto(c, "latest") /\ UNCHANGED <<conn, local>>
    <3>1. pc'[c] \notin {"new", "joined"}
      BY <1>1, <2>3 DEF Goto
    <3> QED BY <1>1, <1>2, <2>1, <2>3, <3>1, StillOwned DEF gitlab
  <2> QED BY <1>9, <2>2, <2>3 DEF MarkRejected
<1>10. CASE WriteRefreshed(c)
  <2>1. pc[c] = "write" /\ UNCHANGED gitlab /\ local[c].user \in Users
    BY <1>1, <1>10 DEF WriteRefreshed, IInv, ControlsFit, ControlFits, RefreshSteps
  <2>2. CASE SamePair(c) /\ StoreRefreshed(c) /\ SettleWith(c, local[c].token)
    <3>1. conn[local[c].user] \in Connection
      BY <1>1, <2>1, <2>2 DEF SamePair, Row
    <3>2. local[c].token \in Pairs
      <4>1. Fresh(c)
        BY <2>1 DEF Fresh, Holding
      <4>2. local[c].token \in 1 .. issued /\ issued \in 0 .. MaxPairs
        BY <1>1, <4>1 DEF IInv, TokensFit, TypeOK
      <4> QED BY <4>2, BoundsAssumption DEF Pairs
    <3>3. Owns(local[c].user, local[c].token)
      BY <1>1, <3>2, KnownIsOwned DEF Knows
    <3>4. ASSUME NEW u \in Users, NEW o \in Pairs, Has(u)', conn'[u].pair = o PROVE Owns(u, o)
      <4>1. CASE u = local[c].user
        <5>1. conn'[u].pair = local[c].token
          BY <1>1, <2>2, <3>1, <4>1 DEF StoreRefreshed, Connection
        <5> QED BY <3>3, <3>4, <4>1, <5>1
      <4>2. CASE u # local[c].user
        <5>1. conn'[u] = conn[u]
          BY <1>1, <2>2, <4>2 DEF StoreRefreshed
        <5> QED BY <3>4, <5>1, RowsAreOwned DEF Has
      <4> QED BY <4>1, <4>2
    <3>5. pc'[c] \notin {"new", "joined"} /\ pc[c] # "new"
      BY <1>1, <2>1, <2>2 DEF SettleWith, Goto
    <3> QED BY <1>1, <2>1, <2>2, <3>2, <3>3, <3>4, <3>5, TokenOwned DEF SettleWith, gitlab
  <2>3. CASE Goto(c, "revoke") /\ UNCHANGED <<conn, local>>
    <3>1. pc'[c] \notin {"new", "joined"}
      BY <1>1, <2>3 DEF Goto
    <3> QED BY <1>1, <1>2, <2>1, <2>3, <3>1, StillOwned DEF gitlab
  <2> QED BY <1>10, <2>2, <2>3 DEF WriteRefreshed
<1>11. CASE RevokeUnstored(c) \/ Use(c)
  <2>1. UNCHANGED <<conn, local, issued>> /\ pc'[c] \notin {"new", "joined"}
    BY <1>1, <1>11 DEF RevokeUnstored, Use, Revoke, Goto, gitlab
  <2> QED BY <1>1, <1>2, <2>1, StillOwned
<1>12. CASE MarkNeedsReconnect(c)
  <2>1. UNCHANGED <<local, issued>> /\ pc'[c] \notin {"new", "joined"}
    BY <1>1, <1>12 DEF MarkNeedsReconnect, Goto, gitlab
  <2>1a. conn' = conn \/ (conn[local[c].user] # None
                         /\ conn' = [conn EXCEPT ![local[c].user].state = "NEEDS_RECONNECT"])
    BY <1>12, Zenon DEF MarkNeedsReconnect
  <2>2. \A u \in Users : Has(u)' => Has(u) /\ conn'[u].pair = conn[u].pair
    BY <1>1, <2>1a, NoneAssumption DEF Has, Connection
  <2>3. \A u \in Users, o \in Pairs : Has(u)' /\ conn'[u].pair = o => Owns(u, o)
    BY <2>2, RowsAreOwned
  <2> QED BY <1>1, <2>1, <2>3, StillOwned
<1> QED BY <1>4, <1>5, <1>6, <1>7, <1>8, <1>9, <1>10, <1>11, <1>12 DEF Call, Refresh

LEMMA CompletionOwned ==
  ASSUME IInv, TokensOwned, JoinedWaitForARefresh, NEW k \in Completions, Complete(k)
  PROVE  TokensOwned'
<1>1. /\ k \in Requests /\ pc \in [Requests -> Steps] /\ local \in [Requests -> Local] /\ local[k] \in Local
      /\ conn \in [Users -> Connection \cup {None}]
      /\ \A r \in Requests \ {k} : pc'[r] = pc[r] /\ local'[r] = local[r]
  BY OthersStayInCompletion DEF IInv, TypeOK, Requests
<1>2. ASSUME UNCHANGED conn
      PROVE  /\ \A u \in Users, o \in Pairs : Has(u)' /\ conn'[u].pair = o => Owns(u, o)
             /\ \A u \in Users : Has(u)' => Has(u) /\ conn'[u] = conn[u]
  BY <1>2, RowsAreOwned DEF Has
<1>3. CASE ClaimLink(k)
  <2>1. pc[k] = "new" /\ UNCHANGED <<conn, gitlab>> /\ pc'[k] \in {"exchange", "refused"}
    BY <1>1, <1>3 DEF ClaimLink, Goto
  <2>2. local'[k].token = local[k].token /\ local'[k].row = local[k].row
    BY <1>1, <1>3 DEF ClaimLink, Local
  <2> QED BY <1>1, <1>2, <2>1, <2>2, FirstOwned DEF gitlab
<1>4. CASE ExchangeCode(k)
  <2>1. pc[k] = "exchange" /\ UNCHANGED conn /\ local[k].row = None
    BY <1>1, <1>4 DEF ExchangeCode, IInv, ControlsFit, ControlFits
  <2>2. pc'[k] \in {"check", "discard", "refused"} /\ (issued' = issued \/ issued' = issued + 1)
    BY <1>1, <1>4 DEF ExchangeCode, Goto, Issue
  <2>3. CASE UNCHANGED local
    BY <1>1, <1>2, <2>1, <2>2, <2>3, StillOwned
  <2>4. CASE Issue(None) /\ (\/ \E i \in Identities : local' = [local EXCEPT ![k].token = issued + 1, ![k].identity = i]
                            \/ Keep(k, "token", issued + 1))
    <3>1. local'[k].user = local[k].user /\ local'[k].row = None /\ local'[k].token = issued + 1
      BY <1>1, <2>1, <2>4 DEF Keep, Local
    <3>2. issued' = issued + 1 /\ \A p \in Pairs : Knows(k, p)' => p = issued + 1
      BY <2>4, <3>1 DEF Issue, Knows
    <3> QED BY <1>1, <1>2, <2>1, <2>2, <3>1, <3>2, OwnedMove
  <2> QED BY <1>4, <2>3, <2>4 DEF ExchangeCode
<1>5. CASE CheckOther(k) \/ RetirePrevious(k) \/ Discard(k)
  <2>1. UNCHANGED <<conn, local, issued>> /\ pc'[k] \notin {"new", "joined"}
    BY <1>1, <1>5 DEF CheckOther, RetirePrevious, Discard, Revoke, Goto, gitlab
  <2> QED BY <1>1, <1>2, <2>1, StillOwned
<1>6. CASE ReadPrevious(k)
  <2>1. /\ pc[k] = "previous" /\ UNCHANGED <<conn, gitlab>> /\ pc'[k] = "upsert"
        /\ local[k].user \in Users
    BY <1>1, <1>6 DEF ReadPrevious, Goto, IInv, ControlsFit, ControlFits
  <2>2. /\ local'[k].user = local[k].user /\ local'[k].row = conn[local[k].user]
        /\ local'[k].token = local[k].token
    BY <1>1, <1>6 DEF ReadPrevious, Keep, Local
  <2>3. ASSUME NEW p \in Pairs, Knows(k, p)' PROVE Owns(local[k].user, p)
    <3>1. CASE local[k].token = p
      BY <1>1, <3>1, KnownIsOwned DEF Knows
    <3>2. CASE conn[local[k].user] # None /\ conn[local[k].user].pair = p
      BY <2>1, <3>2, RowsAreOwned DEF Has
    <3> QED BY <2>2, <2>3, <3>1, <3>2 DEF Knows
  <2> QED BY <1>1, <1>2, <2>1, <2>2, <2>3, OwnedMove DEF gitlab
<1>7. CASE Upsert(k)
  <2>1. pc[k] = "upsert" /\ UNCHANGED <<gitlab, local>> /\ pc'[k] \notin {"new", "joined"}
    BY <1>1, <1>7 DEF Upsert, Goto
  <2>2. ASSUME NEW u \in Users, NEW o \in Pairs, Has(u)', conn'[u].pair = o PROVE Owns(u, o)
    <3>1. CASE conn'[u] = conn[u]
      BY <2>2, <3>1, RowsAreOwned DEF Has
    <3>2. CASE u = local[k].user /\ conn'[u].pair = local[k].token
      BY <1>1, <2>2, <3>2, KnownIsOwned DEF Knows
    <3> QED BY <1>1, <1>7, <3>1, <3>2 DEF Upsert
  <2> QED BY <1>1, <2>1, <2>2, StillOwned DEF gitlab
<1> QED BY <1>3, <1>4, <1>5, <1>6, <1>7 DEF Complete

LEMMA NextOwned ==
  IInv /\ TokensOwned /\ JoinedWaitForARefresh /\ MapFits /\ [Next]_vars => TokensOwned'
<1> SUFFICES ASSUME IInv, TokensOwned, JoinedWaitForARefresh, MapFits, [Next]_vars PROVE TokensOwned'
  OBVIOUS
<1>1. /\ pc \in [Requests -> Steps] /\ local \in [Requests -> Local]
      /\ conn \in [Users -> Connection \cup {None}]
  BY DEF IInv, TypeOK
<1>2. ASSUME NEW s \in Links, Link(s) PROVE TokensOwned'
  <2>1. /\ s \in Requests /\ UNCHANGED <<conn, gitlab>> /\ pc'[s] \notin {"new", "joined"}
        /\ \A r \in Requests \ {s} : pc'[r] = pc[r] /\ local'[r] = local[r]
    BY <1>1, <1>2 DEF Link, DropOldLinks, CreateLink, Goto, Keep, Requests
  <2>2. \A u \in Users : Has(u)' => Has(u) /\ conn'[u] = conn[u]
    BY <2>1 DEF Has
  <2>3. CASE DropOldLinks(s)
    <3>1. pc[s] = "new" /\ local'[s].token = local[s].token /\ local'[s].row = local[s].row
      BY <1>1, <2>1, <2>3 DEF DropOldLinks, Keep, Local
    <3> QED BY <2>1, <2>2, <3>1, FirstOwned DEF gitlab
  <2>4. CASE CreateLink(s)
    <3>1. \A u \in Users, p \in Pairs : Has(u)' /\ conn'[u].pair = p => Owns(u, p)
      BY <2>2, RowsAreOwned
    <3> QED BY <2>1, <2>4, <3>1, StillOwned DEF CreateLink, gitlab
  <2> QED BY <1>2, <2>3, <2>4 DEF Link
<1>3. ASSUME NEW d \in Disconnects, Disconnect(d) PROVE TokensOwned'
  <2>1. /\ d \in Requests /\ UNCHANGED issued /\ pc'[d] \notin {"new", "joined"}
        /\ \A r \in Requests \ {d} : pc'[r] = pc[r] /\ local'[r] = local[r]
    BY <1>1, <1>3 DEF Disconnect, DeleteConnection, RevokeDeleted, Revoke, Goto, Requests, gitlab
  <2>2. \A u \in Users : Has(u)' => Has(u) /\ conn'[u] = conn[u]
    BY <1>1, <1>3 DEF Disconnect, DeleteConnection, RevokeDeleted, Has
  <2>3. CASE DeleteConnection(d)
    <3>1. PICK u \in Users : local' = [local EXCEPT ![d].user = u, ![d].row = conn[u]]
      BY <2>3 DEF DeleteConnection
    <3>2. local'[d].user = u /\ local'[d].row = conn[u] /\ local'[d].token = local[d].token
      BY <1>1, <2>1, <3>1 DEF Local
    <3> QED BY <2>1, <2>2, <2>3, <3>2, FirstOwned DEF DeleteConnection
  <2>4. CASE RevokeDeleted(d)
    <3>1. \A u \in Users, p \in Pairs : Has(u)' /\ conn'[u].pair = p => Owns(u, p)
      BY <2>2, RowsAreOwned
    <3> QED BY <2>1, <2>4, <3>1, StillOwned DEF RevokeDeleted
  <2> QED BY <1>3, <2>3, <2>4 DEF Disconnect
<1>4. ASSUME UNCHANGED <<conn, issued, pc, local>> PROVE TokensOwned'
  BY <1>4 DEF TokensOwned, OneOwner, NewKnowNothing, JoinedAreOfOneUser, Owns, Knows, Has
<1> QED BY <1>2, <1>3, <1>4, CallOwned, CompletionOwned DEF Next, ExpireLink, Age, Finished, vars, gitlab

LEMMA InitOwned == Init => TokensOwned
<1> SUFFICES ASSUME Init PROVE TokensOwned
  OBVIOUS
<1>1. \A q \in Requests : pc[q] = "new" /\ local[q].token = None /\ local[q].row = None
  BY DEF Init, Blank
<1>2. StoredOnce
  BY InitIInv DEF IInv
<1>3. \A u \in Users \cup {None}, p \in Pairs : Owns(u, p) => u \in Users /\ Has(u) /\ conn[u].pair = p
  BY <1>1, NoneAssumption DEF Owns, Knows
<1>4. OneOwner
  BY <1>2, <1>3 DEF OneOwner, StoredOnce
<1> QED BY <1>1, <1>4 DEF TokensOwned, NewKnowNothing, JoinedAreOfOneUser, Requests

\* Two users never come to hold one pair: what a call receives from a refresh it joined, re-reads, or
\* reads again after losing a race belongs to the user it acts for, for any number of users, processes
\* and requests.
THEOREM TokensAreOfOneUser == Spec => []TokensStayWithTheirUser
<1>1. Spec => []TokensOwned
  BY InitOwned, NextOwned, Invariance, NobodyWaitsForAWaiter, PTL DEF Spec
<1>2. ASSUME IInv, TokensOwned PROVE TokensStayWithTheirUser
  <2> SUFFICES ASSUME NEW q \in Requests, local[q].token # None
               PROVE  /\ \A r \in Requests : local[r].token = local[q].token => local[r].user = local[q].user
                      /\ \A u \in Users : conn[u] # None /\ conn[u].pair = local[q].token => u = local[q].user
    BY DEF TokensStayWithTheirUser
  <2> DEFINE p == local[q].token
  <2>1. p \in Pairs /\ \A r \in Requests : local[r].user \in Users \cup {None}
    BY <1>2 DEF IInv, TypeOK, Local
  <2>2. Owns(local[q].user, p)
    BY <2>1, KnownIsOwned DEF Knows
  <2>3. ASSUME NEW r \in Requests, local[r].token = p PROVE local[r].user = local[q].user
    <3>1. Owns(local[r].user, p)
      BY <2>1, <2>3, KnownIsOwned DEF Knows
    <3> QED BY <1>2, <2>1, <2>2, <3>1 DEF TokensOwned, OneOwner
  <2>4. ASSUME NEW u \in Users, conn[u] # None, conn[u].pair = p PROVE u = local[q].user
    <3>1. Owns(u, p)
      BY <2>1, <2>4, RowsAreOwned DEF Has
    <3> QED BY <1>2, <2>1, <2>2, <3>1 DEF TokensOwned, OneOwner
  <2> QED BY <2>3, <2>4
<1> QED BY <1>1, <1>2, Invariance, PTL

------------------------------------------------------------------------------
(* Requests end *)

Rank ==
  [step \in Steps |->
    CASE step = "new" -> 0
      [] step \in {"create", "exchange", "read"} -> 1
      [] step \in {"check", "joined", "reread"} -> 2
      [] step \in {"previous", "send"} -> 3
      [] step \in {"upsert", "rejected", "write"} -> 4
      [] step \in {"retire", "discard", "mark", "revoke"} -> 5
      [] step \in {"latest", "after"} -> 6
      [] step = "use" -> 7
      [] step = "mark user" -> 8
      [] step \in Ends -> 9]

\* A request only ever moves to a later step, and each step of a call moves it.
StepsGoForward ==
  [][/\ \A q \in Requests : pc'[q] # pc[q] => Rank[pc[q]] < Rank[pc'[q]]
     /\ \A c \in Calls : Call(c) => pc'[c] # pc[c]]_vars

LEMMA RanksOfLinks ==
  /\ Rank["new"] = 0 /\ Rank["create"] = 1 /\ Rank["exchange"] = 1 /\ Rank["check"] = 2
  /\ Rank["previous"] = 3 /\ Rank["upsert"] = 4 /\ Rank["retire"] = 5 /\ Rank["discard"] = 5
  /\ Rank["done"] = 9 /\ Rank["refused"] = 9
BY DEF Rank, Steps, RefreshSteps, Ends

LEMMA RanksOfCalls ==
  /\ Rank["read"] = 1 /\ Rank["joined"] = 2 /\ Rank["reread"] = 2 /\ Rank["send"] = 3
  /\ Rank["rejected"] = 4 /\ Rank["write"] = 4 /\ Rank["mark"] = 5 /\ Rank["revoke"] = 5
  /\ Rank["latest"] = 6 /\ Rank["after"] = 6 /\ Rank["use"] = 7
BY DEF Rank, Steps, RefreshSteps, Ends

\* Apart from the others, because the SMT backend takes no string with a blank.
LEMMA RankOfMarkUser == Rank["mark user"] = 8
BY DEF Rank, Steps, RefreshSteps, Ends

LEMMA RankType == Rank \in [Steps -> 0 .. 9]
BY DEF Rank, Steps, RefreshSteps, Ends

LEMMA CallGoesForward ==
  ASSUME pc \in [Requests -> Steps], NEW c \in Calls, Call(c)
  PROVE  Rank[pc[c]] < Rank[pc'[c]]
<1>1. c \in Requests
  BY DEF Requests
<1>2. CASE ReadConnection(c) \/ Decide(c) \/ Joined(c)
  <2>1. \/ pc[c] = "new" /\ pc'[c] \in {"read", "refused"}
        \/ pc[c] = "read" /\ pc'[c] \in {"use", "joined", "reread"}
        \/ pc[c] = "joined" /\ pc'[c] \in {"use", "refused"}
    BY <1>1, <1>2 DEF ReadConnection, Decide, Joined, Goto
  <2> QED BY <2>1, RanksOfCalls, RanksOfLinks
<1>3. CASE Reread(c) \/ SendRefresh(c) \/ AfterRejection(c) \/ MarkRejected(c)
  <2>1. \/ pc[c] = "reread" /\ pc'[c] \in {"use", "refused", "send"}
        \/ pc[c] = "send" /\ pc'[c] \in {"write", "refused", "rejected"}
        \/ pc[c] = "rejected" /\ pc'[c] \in {"use", "mark"}
        \/ pc[c] = "mark" /\ pc'[c] \in {"latest", "refused"}
    BY <1>1, <1>3 DEF Reread, SendRefresh, AfterRejection, MarkRejected, Goto, Fail, SettleWith
  <2> QED BY <2>1, RanksOfCalls, RanksOfLinks
<1>4. CASE TakeLatest(c) \/ WriteRefreshed(c) \/ RevokeUnstored(c) \/ AfterLostRace(c)
  <2>1. \/ pc[c] \in {"latest", "after"} /\ pc'[c] \in {"use", "refused"}
        \/ pc[c] = "write" /\ pc'[c] \in {"use", "revoke"}
        \/ pc[c] = "revoke" /\ pc'[c] = "after"
    BY <1>1, <1>4 DEF TakeLatest, WriteRefreshed, RevokeUnstored, AfterLostRace, Goto, Fail, SettleWith
  <2> QED BY <2>1, RanksOfCalls, RanksOfLinks
<1>5. CASE Use(c)
  <2>1. pc[c] = "use" /\ pc'[c] \in {"done", "mark user"}
    BY <1>1, <1>5 DEF Use, Goto
  <2>2. Rank[pc[c]] = 7 /\ Rank[pc'[c]] \in {8, 9}
    BY <2>1, RanksOfCalls, RanksOfLinks, RankOfMarkUser, Zenon
  <2> QED BY <2>2
<1>6. CASE MarkNeedsReconnect(c)
  <2>1. pc[c] = "mark user" /\ pc'[c] = "refused"
    BY <1>1, <1>6 DEF MarkNeedsReconnect, Goto
  <2>2. Rank[pc[c]] = 8 /\ Rank[pc'[c]] = 9
    BY <2>1, RanksOfLinks, RankOfMarkUser, Zenon
  <2> QED BY <2>2
<1> QED BY <1>2, <1>3, <1>4, <1>5, <1>6 DEF Call, Refresh

LEMMA LinkGoesForward ==
  ASSUME pc \in [Requests -> Steps], NEW q \in Requests,
         Link(q) \/ Complete(q) \/ Disconnect(q)
  PROVE  Rank[pc[q]] < Rank[pc'[q]] /\ \A r \in Requests \ {q} : pc'[r] = pc[r]
<1>1. CASE Link(q) \/ Disconnect(q)
  <2>1. /\ \/ pc[q] = "new" /\ pc'[q] \in {"create", "retire", "done"}
           \/ pc[q] \in {"create", "retire"} /\ pc'[q] = "done"
        /\ \A r \in Requests \ {q} : pc'[r] = pc[r]
    BY <1>1 DEF Link, DropOldLinks, CreateLink, Disconnect, DeleteConnection, RevokeDeleted, Goto
  <2> QED BY <2>1, RanksOfLinks
<1>2. CASE ClaimLink(q) \/ ExchangeCode(q) \/ CheckOther(q)
  <2>1. /\ \/ pc[q] = "new" /\ pc'[q] \in {"exchange", "refused"}
           \/ pc[q] = "exchange" /\ pc'[q] \in {"check", "discard", "refused"}
           \/ pc[q] = "check" /\ pc'[q] \in {"discard", "previous"}
        /\ \A r \in Requests \ {q} : pc'[r] = pc[r]
    BY <1>2 DEF ClaimLink, ExchangeCode, CheckOther, Goto
  <2> QED BY <2>1, RanksOfLinks
<1>3. CASE ReadPrevious(q) \/ Upsert(q) \/ RetirePrevious(q) \/ Discard(q)
  <2>1. /\ \/ pc[q] = "previous" /\ pc'[q] = "upsert"
           \/ pc[q] = "upsert" /\ pc'[q] \in {"discard", "done", "retire"}
           \/ pc[q] \in {"retire", "discard"} /\ pc'[q] \in {"done", "refused"}
        /\ \A r \in Requests \ {q} : pc'[r] = pc[r]
    BY <1>3 DEF ReadPrevious, Upsert, RetirePrevious, Discard, Goto
  <2> QED BY <2>1, RanksOfLinks
<1> QED BY <1>1, <1>2, <1>3 DEF Complete

\* A call of a handler consists of finitely many steps: a refresh that lost a race reads the row once
\* more but never calls GitLab again, and no handler returns to a statement it has behind it
\* (accessToken, refresh, completeOAuth).
THEOREM RequestsAreFinite == Spec => StepsGoForward
<1>1. ASSUME IInv, [Next]_vars
      PROVE  /\ \A q \in Requests : pc'[q] # pc[q] => Rank[pc[q]] < Rank[pc'[q]]
             /\ \A c \in Calls : Call(c) => pc'[c] # pc[c]
  <2>1. pc \in [Requests -> Steps]
    BY <1>1 DEF IInv, TypeOK
  <2>2. ASSUME NEW c \in Calls, Call(c)
        PROVE  Rank[pc[c]] < Rank[pc'[c]] /\ \A r \in Requests \ {c} : pc'[r] = pc[r]
    BY <1>1, <2>1, <2>2, CallGoesForward, OthersStayInCall
  <2>3. ASSUME NEW c \in Calls, Call(c) PROVE pc'[c] # pc[c]
    <3>1. PICK step \in Steps : step = pc[c]
      BY <2>1 DEF Requests
    <3>2. Rank[step] < Rank[pc'[c]] /\ Rank[step] \in 0 .. 9
      BY <2>2, <2>3, <3>1, RankType
    <3> QED BY <3>1, <3>2
  <2>4. ASSUME NEW q \in Requests, Link(q) \/ Complete(q) \/ Disconnect(q) \/ (q \in Calls /\ Call(q))
        PROVE  \A r \in Requests : pc'[r] # pc[r] => Rank[pc[r]] < Rank[pc'[r]]
    BY <2>1, <2>2, <2>4, LinkGoesForward
  <2>5. \/ UNCHANGED pc
        \/ \E q \in Requests : Link(q) \/ Complete(q) \/ Disconnect(q) \/ (q \in Calls /\ Call(q))
    BY <1>1 DEF Next, ExpireLink, Age, Finished, vars, Requests
  <2> QED BY <2>3, <2>4, <2>5
<1>2. IInv /\ [Next]_vars =>
        [/\ \A q \in Requests : pc'[q] # pc[q] => Rank[pc[q]] < Rank[pc'[q]]
         /\ \A c \in Calls : Call(c) => pc'[c] # pc[c]]_vars
  BY <1>1
<1> QED BY <1>2, Invariance, PTL DEF Spec, StepsGoForward
==============================================================================
