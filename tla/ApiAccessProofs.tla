--------------------------- MODULE ApiAccessProofs ---------------------------
(***************************************************************************)
(* ApiAccess, proved for every number of accounts, requests and tokens:    *)
(* who may take the last administrator away, and what the rate limiter     *)
(* promises.                                                               *)
(*                                                                         *)
(* A PATCH /users/:id is checked and written in two steps; UpdatesFit says *)
(* what the checks leave behind for the write.  Of the limiter, Running    *)
(* relates the bucket of a token to the times at which its requests were   *)
(* let through, and Quiet says what is known when it has none.             *)
(***************************************************************************)
EXTENDS ApiAccess, FiniteSetTheorems, TLAPS

UserRows == [Users -> [role : Roles, active : BOOLEAN]]
UpdateRow == [pc : {"new", "write", "done"}, actor : Users \cup {None}, target : Users \cup {None},
              change : Changes]

\* A request that is about to write passed the check on the actor's own account.
UpdatesFit ==
  \A a \in Updates : update[a].pc = "write" =>
    /\ update[a].actor \in Users /\ update[a].target \in Users
    /\ ~OwnAccountRefused(update[a].actor, update[a].target, update[a].change)

IInv == user \in UserRows /\ update \in [Updates -> UpdateRow] /\ UpdatesFit

LEMMA InitIInv == Init => IInv
<1> SUFFICES ASSUME Init PROVE IInv
  OBVIOUS
<1>1. user \in UserRows
  <2>1. user \in [Users -> [role : Roles, active : {TRUE}]]
    BY DEF Init
  <2>2. [role : Roles, active : {TRUE}] \subseteq [role : Roles, active : BOOLEAN]
    OBVIOUS
  <2> QED BY <2>1, <2>2 DEF UserRows
<1>2. update = [a \in Updates |-> Untouched("new")] /\ Untouched("new") \in UpdateRow
  BY DEF Init, Untouched, UpdateRow, Changes
<1> QED BY <1>1, <1>2 DEF IInv, UpdatesFit, Untouched

\* The write touches no account but its target's.
LEMMA WriteIInv ==
  ASSUME IInv, NEW a \in Updates, UpdateWrite(a)
  PROVE  IInv' /\ update[a].pc = "write" /\ \A u \in Users \ {update[a].target} : user'[u] = user[u]
<1> DEFINE target == update[a].target
           change == update[a].change
           active == (user[target].active \/ change = "activate") /\ change # "deactivate"
           role == CASE change = "demote" -> "TESTER" [] change = "promote" -> "ADMIN"
                     [] OTHER -> user[target].role
<1>1. /\ update[a].pc = "write" /\ target \in Users /\ user \in UserRows
      /\ user' = [user EXCEPT ![target].active = active, ![target].role = role]
      /\ update' = [update EXCEPT ![a] = Untouched("done")]
  BY DEF UpdateWrite, IInv, UpdatesFit
<1>2. role \in Roles /\ active \in BOOLEAN
  BY <1>1 DEF UserRows, Roles
<1> HIDE DEF active, role
<1>3. user' \in UserRows /\ \A u \in Users \ {target} : user'[u] = user[u]
  BY <1>1, <1>2 DEF UserRows
<1>4. Untouched("done") \in UpdateRow /\ Untouched("done").pc = "done"
  BY DEF Untouched, UpdateRow, Changes
<1>5. update' \in [Updates -> UpdateRow] /\ UpdatesFit'
  BY <1>1, <1>4 DEF IInv, UpdatesFit
<1> QED BY <1>1, <1>3, <1>5 DEF IInv

LEMMA UpdateIInv ==
  ASSUME IInv, NEW a \in Updates, NEW actor \in Users, NEW target \in Users, NEW change \in Changes,
         UpdateUser(a, actor, target, change)
  PROVE  IInv' /\ UNCHANGED user
<1> DEFINE request == [pc |-> "write", actor |-> actor, target |-> target, change |-> change]
<1>1. /\ update' = [update EXCEPT ![a] = request] /\ UNCHANGED user
      /\ ~OwnAccountRefused(actor, target, change)
  BY DEF UpdateUser
<1>2. request \in UpdateRow
  BY DEF UpdateRow
<1> QED BY <1>1, <1>2 DEF IInv, UpdatesFit, OwnAccountRefused

LEMMA RestartIInv == IInv /\ Restart => IInv' /\ UNCHANGED user
<1> SUFFICES ASSUME IInv, Restart PROVE IInv' /\ UNCHANGED user
  OBVIOUS
<1>1. /\ update' = [a \in Updates |-> IF update[a].pc = "write" THEN Untouched("done") ELSE update[a]]
      /\ UNCHANGED user
  BY DEF Restart
<1>2. Untouched("done") \in UpdateRow /\ Untouched("done").pc = "done"
  BY DEF Untouched, UpdateRow, Changes
<1> QED BY <1>1, <1>2 DEF IInv, UpdatesFit, OwnAccountRefused

\* Accounts are written by nobody else.
LEMMA OthersStay ==
  ASSUME [Next]_vars
  PROVE  \/ UNCHANGED <<user, update>>
         \/ Restart
         \/ \E a \in Updates : UpdateWrite(a)
         \/ \E a \in Updates, actor, target \in Users, change \in Changes :
              UpdateUser(a, actor, target, change)
BY DEF Next, Request, Progress, Tick, Login, Refresh, Logout, CreateToken, RevokeToken, Verify,
       Hit, Touch, vars

LEMMA NextIInv == IInv /\ [Next]_vars => IInv'
BY OthersStay, WriteIInv, UpdateIInv, RestartIInv DEF IInv, UpdatesFit, OwnAccountRefused

LEMMA Invariance == Spec => []IInv
BY InitIInv, NextIInv, PTL DEF Spec

\* A write that takes the last administrator away is that of somebody who is no administrator any more.
LEMMA LastAdminFalls ==
  ASSUME IInv, NEW a \in Updates, UpdateWrite(a), NEW u \in Users, IsAdmin(u),
         ~\E v \in Users : IsAdmin(v)', IsAdmin(update[a].actor)
  PROVE  FALSE
<1> DEFINE actor == update[a].actor
           target == update[a].target
           change == update[a].change
<1>1. /\ update[a].pc = "write" /\ actor \in Users /\ target \in Users /\ change \in Changes
      /\ user \in UserRows /\ user[target] \in [role : Roles, active : BOOLEAN]
  BY WriteIInv DEF IInv, UpdatesFit, UpdateRow, UserRows
<1>2. \A v \in Users \ {target} : ~IsAdmin(v)
  BY WriteIInv DEF IsAdmin
<1>3. u = target /\ actor = target
  BY <1>1, <1>2
<1>4. change \notin {"deactivate", "demote"}
  BY <1>1, <1>3 DEF IInv, UpdatesFit, OwnAccountRefused
<1>5. user'[target].active /\ user'[target].role = "ADMIN"
  <2>1. user[target].active /\ user[target].role = "ADMIN"
    BY <1>3 DEF IsAdmin
  <2>2. change \in {"activate", "promote"}
    BY <1>1, <1>4 DEF Changes
  <2>3. user' = [user EXCEPT
          ![target].active = (@ \/ change = "activate") /\ change # "deactivate",
          ![target].role = CASE change = "demote" -> "TESTER" [] change = "promote" -> "ADMIN" [] OTHER -> @]
    BY DEF UpdateWrite
  <2> QED BY <1>1, <2>1, <2>2, <2>3 DEF UserRows
<1> QED BY <1>1, <1>5 DEF IsAdmin

\* Administrators cannot lock everybody out one by one, however many requests interleave: the last
\* one falls only to a request whose actor lost his own role since the guards let him through
\* (RolesGuard, UsersService.update).
THEOREM LastAdminIsGuarded == Spec => LastAdminFallsOnlyToStaleRequest
<1>1. ASSUME IInv, [Next]_vars, NEW a \in Updates, update[a].pc = "write", update'[a].pc = "done",
             \E u \in Users : IsAdmin(u), ~\E u \in Users : IsAdmin(u)', IsAdmin(update[a].actor)
      PROVE  FALSE
  <2>1. user' # user
    BY <1>1 DEF IsAdmin
  <2>2. PICK b \in Updates : UpdateWrite(b)
    BY <1>1, <2>1, OthersStay, UpdateIInv, RestartIInv
  <2>3. b = a
    <3>1. update' = [update EXCEPT ![b] = Untouched("done")]
      BY <2>2 DEF UpdateWrite
    <3> QED BY <1>1, <3>1 DEF IInv
  <2> QED BY <1>1, <2>2, <2>3, LastAdminFalls
<1>2. IInv /\ [Next]_vars =>
        [\A a \in Updates :
           /\ update[a].pc = "write" /\ update'[a].pc = "done"
           /\ \E u \in Users : IsAdmin(u)
           /\ ~\E u \in Users : IsAdmin(u)'
           => ~IsAdmin(update[a].actor)]_vars
  BY <1>1
<1> QED BY <1>2, Invariance, PTL DEF Spec, LastAdminFallsOnlyToStaleRequest

-------------------------------------------------------------------------------
(***************************************************************************)
(* Types.  The one that is more than a type is the bound on the buckets:   *)
(* what is pruned must leave room for the bucket that is added.            *)
(***************************************************************************)

SessionRow == [access : Nat, refresh : Nat]
TokenRow == [state : {"absent", "live", "revoked"}, owner : Users \cup {None},
             expiresAt : Nat, lastUsedAt : Time \cup {Never}]
Bucket == [windowStart : Time, count : 1 .. Limit]
CallRow == [pc : {"new", "limit", "touch"}, token : Tokens \cup {None}, lastUsedAt : Time \cup {Never}]

BucketsFit ==
  /\ DOMAIN buckets \subseteq Tokens /\ IsFiniteSet(DOMAIN buckets)
  /\ Cardinality(DOMAIN buckets) <= MaxKeys
  /\ \A t \in DOMAIN buckets : buckets[t] \in Bucket

\* A request that passed verify has a token.
CallsFit == \A c \in McpCalls : call[c].pc # "new" => call[c].token \in Tokens

HistoryFits == allowed \in [Tokens -> Seq(Time)] /\ refused \subseteq Tokens \X Time /\ forgiven \subseteq Time

TypeInv ==
  /\ requests \in 0 .. MaxRequests /\ now \in Time
  /\ session \in [Users -> SessionRow] /\ token \in [Tokens -> TokenRow]
  /\ BucketsFit /\ call \in [McpCalls -> CallRow] /\ CallsFit /\ HistoryFits

LEMMA Numbers ==
  /\ MaxTime \in Nat /\ MaxRequests \in Nat /\ Limit \in Nat \ {0} /\ Window \in Nat \ {0} /\ MaxKeys \in Nat \ {0}
  /\ Time \subseteq Nat /\ 0 \in Time
BY ApiAccessAssumption DEF Time

LEMMA IssuedType == now \in Time => Issued \in SessionRow
BY ApiAccessAssumption DEF Issued, SessionRow, Time

LEMMA NewTokenType ==
  ASSUME now \in Time, NEW u \in Users, NEW life \in TokenLives
  PROVE  NewToken(u, life) \in TokenRow
BY ApiAccessAssumption DEF NewToken, TokenRow, Time

LEMMA NoCallType == NoCall \in CallRow /\ NoCall.pc = "new"
BY DEF NoCall, CallRow

LEMMA InitTypeInv == Init => TypeInv
<1> SUFFICES ASSUME Init PROVE TypeInv
  OBVIOUS
<1>1. now = 0 /\ now \in Time /\ requests \in 0 .. MaxRequests
  BY Numbers DEF Init
<1>2. session \in [Users -> SessionRow]
  BY <1>1, IssuedType DEF Init
<1>3. token \in [Tokens -> TokenRow]
  <2>1. NoToken \in TokenRow
    BY DEF NoToken, TokenRow
  <2>2. {NoToken} \cup UNION {{NewToken(u, life) : u \in Users} : life \in TokenLives} \subseteq TokenRow
    BY <1>1, <2>1, NewTokenType
  <2> QED BY <2>2 DEF Init
<1>4. BucketsFit
  <2>1. DOMAIN buckets = {}
    BY DEF Init
  <2> QED BY <2>1, FS_EmptySet, Numbers DEF BucketsFit
<1>5. call \in [McpCalls -> CallRow] /\ CallsFit
  BY NoCallType DEF Init, CallsFit
<1>6. HistoryFits
  BY DEF Init, HistoryFits
<1> QED BY <1>1, <1>2, <1>3, <1>4, <1>5, <1>6 DEF TypeInv

LEMMA PrunedType ==
  ASSUME BucketsFit, now \in Time
  PROVE  /\ DOMAIN Pruned \subseteq DOMAIN buckets /\ IsFiniteSet(DOMAIN Pruned)
         /\ Cardinality(DOMAIN Pruned) \in Nat /\ Cardinality(DOMAIN Pruned) < MaxKeys
         /\ \A s \in DOMAIN Pruned : Pruned[s] = buckets[s]
<1>1. Cardinality(DOMAIN buckets) \in Nat /\ IsFiniteSet(Kept) /\ Cardinality(Kept) \in Nat
  BY FS_CardinalityType, FS_Subset DEF BucketsFit, Kept
<1>2. CASE ~Full
  BY <1>1, <1>2, Numbers DEF Pruned, Full, BucketsFit
<1>3. CASE Full /\ StartsOver
  <2>1. DOMAIN Pruned = {}
    BY <1>3 DEF Pruned, Restrict
  <2> QED BY <2>1, FS_EmptySet, Numbers
<1>4. CASE Full /\ ~StartsOver
  <2>1. Pruned = [s \in Kept |-> buckets[s]]
    BY <1>4 DEF Pruned, Restrict
  <2>2. Cardinality(Kept) < MaxKeys
    BY <1>1, <1>4, Numbers DEF StartsOver
  <2> QED BY <1>1, <2>1, <2>2 DEF Kept
<1> QED BY <1>2, <1>3, <1>4

LEMMA HitTypes ==
  ASSUME TypeInv, NEW c \in McpCalls, Hit(c)
  PROVE  BucketsFit' /\ call' \in [McpCalls -> CallRow] /\ CallsFit' /\ HistoryFits'
<1> PICK t : t = call[c].token
  OBVIOUS
<1>1. t \in Tokens /\ now \in Time /\ call \in [McpCalls -> CallRow] /\ UNCHANGED now
  BY DEF Hit, TypeInv, CallsFit
<1>2. call' = [call EXCEPT ![c].pc = "touch"] \/ call' = [call EXCEPT ![c] = NoCall]
  BY DEF Hit, Allow
<1>3. call' \in [McpCalls -> CallRow]
  BY <1>1, <1>2, NoCallType DEF CallRow
<1>4. CallsFit'
  BY <1>1, <1>2, NoCallType DEF CallsFit, TypeInv, CallRow
<1>5. HistoryFits'
  <2>1. \/ UNCHANGED <<allowed, forgiven>> /\ refused' = refused \cup {<<t, now>>}
        \/ /\ allowed' = [allowed EXCEPT ![t] = Append(@, now)] /\ UNCHANGED refused
           /\ forgiven' \in {forgiven, forgiven \cup {now}}
    BY DEF Hit, Allow
  <2>2. allowed \in [Tokens -> Seq(Time)] /\ refused \subseteq Tokens \X Time /\ forgiven \subseteq Time
    BY DEF TypeInv, HistoryFits
  <2>3. [allowed EXCEPT ![t] = Append(@, now)] \in [Tokens -> Seq(Time)]
    <3>1. Append(allowed[t], now) \in Seq(Time)
      BY <1>1, <2>2
    <3> QED BY <2>2, <3>1
  <2>4. <<t, now>> \in Tokens \X Time
    BY <1>1
  <2> QED BY <1>1, <2>1, <2>2, <2>3, <2>4 DEF HistoryFits
<1>6. BucketsFit'
  <2>1. CASE UNCHANGED buckets
    BY <2>1 DEF BucketsFit, TypeInv
  <2>2. CASE buckets' = Renewed(t)
    <3>1. /\ DOMAIN Renewed(t) = DOMAIN Pruned \cup {t}
          /\ \A s \in DOMAIN Renewed(t) :
               Renewed(t)[s] = IF s = t THEN [windowStart |-> now, count |-> 1] ELSE Pruned[s]
      BY DEF Renewed
    <3>2. [windowStart |-> now, count |-> 1] \in Bucket
      BY <1>1, Numbers DEF Bucket
    <3>3. BucketsFit
      BY DEF TypeInv
    <3>4. IsFiniteSet(DOMAIN Renewed(t)) /\ Cardinality(DOMAIN Renewed(t)) <= MaxKeys
      <4>1. /\ IsFiniteSet(DOMAIN Pruned) /\ Cardinality(DOMAIN Pruned) \in Nat
            /\ Cardinality(DOMAIN Pruned) < MaxKeys
        BY <1>1, <3>3, PrunedType
      <4>2. /\ IsFiniteSet(DOMAIN Pruned \cup {t})
            /\ Cardinality(DOMAIN Pruned \cup {t}) <= Cardinality(DOMAIN Pruned) + 1
        BY <4>1, FS_AddElement
      <4>3. Cardinality(DOMAIN Pruned \cup {t}) \in Nat
        BY <4>2, FS_CardinalityType
      <4> QED BY <3>1, <4>1, <4>2, <4>3, Numbers
    <3>5. \A s \in DOMAIN Renewed(t) : Renewed(t)[s] \in Bucket
      BY <1>1, <3>1, <3>2, <3>3, PrunedType DEF BucketsFit
    <3>6. DOMAIN Renewed(t) \subseteq Tokens
      BY <1>1, <3>1, <3>3, PrunedType DEF BucketsFit
    <3> QED BY <2>2, <3>4, <3>5, <3>6 DEF BucketsFit
  <2>3. CASE t \in DOMAIN buckets /\ ~OverLimit(t) /\ buckets' = [buckets EXCEPT ![t].count = @ + 1]
    <3>1. buckets[t] \in Bucket /\ buckets[t].count < Limit
      BY <2>3, Numbers DEF TypeInv, BucketsFit, OverLimit, Bucket
    <3>2. [buckets[t] EXCEPT !.count = @ + 1] \in Bucket
      BY <3>1, Numbers DEF Bucket
    <3> QED BY <2>3, <3>2 DEF TypeInv, BucketsFit
  <2>4. \/ Fresh(t) /\ buckets' = Renewed(t)
        \/ UNCHANGED buckets
        \/ ~Fresh(t) /\ ~OverLimit(t) /\ buckets' = [buckets EXCEPT ![t].count = @ + 1]
    BY DEF Hit
  <2>5. ~Fresh(t) => t \in DOMAIN buckets
    BY DEF Fresh
  <2> QED BY <2>1, <2>2, <2>3, <2>4, <2>5
<1> QED BY <1>3, <1>4, <1>5, <1>6

\* Everything else: one row of one table, or the clock.
LEMMA OtherTypes ==
  ASSUME TypeInv, UNCHANGED <<buckets, allowed, refused>>, requests' \in 0 .. MaxRequests,
         now' \in Time, session' \in [Users -> SessionRow], token' \in [Tokens -> TokenRow],
         call' \in [McpCalls -> CallRow], CallsFit', forgiven' \subseteq Time
  PROVE  TypeInv'
BY DEF TypeInv, BucketsFit, HistoryFits

LEMMA NextTypeInv == TypeInv /\ [Next]_vars => TypeInv'
<1> SUFFICES ASSUME TypeInv, [Next]_vars PROVE TypeInv'
  OBVIOUS
<1>1. requests' \in 0 .. MaxRequests
  BY Numbers DEF TypeInv, Next, vars
<1>2. now' \in Time
  <2>1. now' = now \/ (now < MaxTime /\ now' = now + 1)
    BY DEF Next, Request, Progress, Tick, Restart, Login, Refresh, Logout, UpdateUser, UpdateWrite,
           CreateToken, RevokeToken, Verify, Hit, Touch, vars
  <2> QED BY <2>1, Numbers DEF TypeInv, Time
<1> USE <1>1, <1>2
<1>3. TypeInv /\ forgiven \subseteq Time /\ CallsFit /\ call \in [McpCalls -> CallRow]
      /\ session \in [Users -> SessionRow] /\ token \in [Tokens -> TokenRow]
  BY DEF TypeInv, HistoryFits
<1>4. CASE UNCHANGED <<session, token, buckets, call, history>>
  BY <1>3, <1>4, OtherTypes DEF CallsFit, history
<1>5. ASSUME NEW u \in Users, Login(u) \/ Refresh(u) \/ Logout(u) PROVE TypeInv'
  <2>1. [session[u] EXCEPT !.refresh = 0] \in SessionRow
    BY <1>3 DEF SessionRow
  <2>2. Issued \in SessionRow
    BY IssuedType DEF TypeInv
  <2>3. session' = [session EXCEPT ![u] = Issued] \/ session' = [session EXCEPT ![u].refresh = 0]
    BY <1>5 DEF Login, Refresh, Logout
  <2>4. session' \in [Users -> SessionRow]
    BY <1>3, <2>1, <2>2, <2>3
  <2>5. UNCHANGED <<token, buckets, call, allowed, refused, forgiven>>
    BY <1>5 DEF Login, Refresh, Logout, history
  <2> QED BY <1>3, <2>4, <2>5, OtherTypes DEF CallsFit
<1>6. ASSUME NEW t \in Tokens, NEW row \in TokenRow, token' = [token EXCEPT ![t] = row],
             UNCHANGED <<session, buckets, call, history>>
      PROVE  TypeInv'
  <2>1. token' \in [Tokens -> TokenRow]
    BY <1>3, <1>6
  <2> QED BY <1>3, <1>6, <2>1, OtherTypes DEF CallsFit, history
<1>7. ASSUME NEW t \in Tokens, NEW u \in Users, NEW life \in TokenLives, CreateToken(t, u, life)
      PROVE  TypeInv'
  BY <1>6, <1>7, NewTokenType DEF CreateToken, TypeInv
<1>8. ASSUME NEW t \in Tokens, RevokeToken(t) PROVE TypeInv'
  <2>1. [token[t] EXCEPT !.state = "revoked"] \in TokenRow
    BY <1>3 DEF TokenRow
  <2>2. token' = [token EXCEPT ![t] = [token[t] EXCEPT !.state = "revoked"]]
    BY <1>8 DEF RevokeToken
  <2> QED BY <1>6, <1>8, <2>1, <2>2 DEF RevokeToken
<1>9. ASSUME NEW c \in McpCalls, NEW t \in Tokens, Verify(c, t) PROVE TypeInv'
  <2> DEFINE row == [pc |-> "limit", token |-> t, lastUsedAt |-> token[t].lastUsedAt]
  <2>1. row \in CallRow /\ row.token \in Tokens
    BY <1>3 DEF CallRow, TokenRow
  <2>2. call' = [call EXCEPT ![c] = row] /\ UNCHANGED <<session, token, buckets, history>>
    BY <1>9 DEF Verify
  <2> HIDE DEF row
  <2>3. call' \in [McpCalls -> CallRow] /\ CallsFit'
    BY <1>3, <2>1, <2>2 DEF CallsFit
  <2> QED BY <1>3, <2>2, <2>3, OtherTypes DEF history
<1>10. ASSUME NEW c \in McpCalls, Hit(c) PROVE TypeInv'
  BY <1>3, <1>10, HitTypes DEF Hit, TypeInv
<1>11. ASSUME NEW c \in McpCalls, Touch(c) PROVE TypeInv'
  <2>1. call' = [call EXCEPT ![c] = NoCall] /\ UNCHANGED <<session, buckets, history>>
    BY <1>11 DEF Touch
  <2>2. call' \in [McpCalls -> CallRow] /\ CallsFit'
    BY <1>3, <2>1, NoCallType DEF CallsFit
  <2>3. call[c].token \in Tokens
    BY <1>3, <1>11 DEF Touch, CallsFit
  <2>4. [token[call[c].token] EXCEPT !.lastUsedAt = now] \in TokenRow
    BY <1>3, <2>3 DEF TokenRow, TypeInv
  <2>5. token' \in [Tokens -> TokenRow]
    BY <1>3, <1>11, <2>3, <2>4 DEF Touch
  <2> QED BY <1>3, <2>1, <2>2, <2>5, OtherTypes DEF history
<1>12. CASE Restart
  <2>1. /\ call' = [c \in McpCalls |-> NoCall] /\ UNCHANGED <<now, session, token, allowed, refused>>
        /\ DOMAIN buckets' = {} /\ forgiven' = forgiven \cup {now}
    BY <1>12 DEF Restart, Restrict
  <2>2. call' \in [McpCalls -> CallRow] /\ CallsFit'
    BY <2>1, NoCallType DEF CallsFit
  <2>3. BucketsFit'
    BY <2>1, FS_EmptySet, Numbers DEF BucketsFit
  <2>4. HistoryFits'
    BY <1>3, <2>1 DEF HistoryFits, TypeInv
  <2> QED BY <1>3, <2>1, <2>2, <2>3, <2>4 DEF TypeInv
<1> QED BY <1>4, <1>5, <1>7, <1>8, <1>9, <1>10, <1>11, <1>12
    DEF Next, Request, Progress, Tick, UpdateUser, UpdateWrite, vars, history

LEMMA TypeInvariance == Spec => []TypeInv
BY InitTypeInv, NextTypeInv, PTL DEF Spec

\* Every variable keeps its type; in particular there are never more buckets than maxKeys, however
\* many tokens call in one window (TokenRateLimiter).
THEOREM TypeCorrect == Spec => []TypeOK
<1>1. IInv /\ TypeInv => TypeOK
  BY DEF IInv, UserRows, UpdateRow, TypeInv, SessionRow, TokenRow, BucketsFit, Bucket, CallRow,
         HistoryFits, TypeOK
<1> QED BY <1>1, Invariance, TypeInvariance, PTL

-------------------------------------------------------------------------------
(***************************************************************************)
(* The rate.  A log is the sequence of the times at which the requests of  *)
(* one token were let through; gone is the set of times at which all the   *)
(* buckets were dropped.  The lemmas say what one hit does to one log.     *)
(***************************************************************************)

\* The requests of a log from m on, and before n.
In(log, m, n) == {k \in DOMAIN log : m <= log[k] /\ log[k] < n}
Count(log, m, n) == Cardinality(In(log, m, n))
KeptWhole(m, gone) == (m .. m + Window - 1) \cap gone = {}
UpTo(log, at) == \A k \in DOMAIN log : log[k] <= at

\* No live window: nothing was let through at this moment, and over a stretch that reaches it less
\* than the limit, because the first request of the last window was too early for that stretch.
Quiet(log, at, gone) ==
  /\ at \notin gone => \A k \in DOMAIN log : log[k] < at
  /\ \A m \in Time : m <= at /\ at < m + Window /\ KeptWhole(m, gone) => Count(log, m, m + Window) <= Limit - 1

\* A bucket counts the requests let through since its window began, the first of them at its
\* beginning; what came before it left room for the whole limit.
Running(log, b, at, gone) ==
  LET s == b.windowStart IN
  /\ s <= at
  /\ \A k \in DOMAIN log : log[k] < s + Window
  /\ b.count <= Count(log, s, s + Window)
  /\ Count(log, s + 1, s + Window) <= b.count - 1
  /\ s \notin gone => Count(log, s, s + Window) <= b.count
  /\ \A m \in Time : m <= s /\ s < m + Window /\ KeptWhole(m, gone) => Count(log, m, s) <= Limit - 1

AtMost(log, gone) == \A m \in Time : KeptWhole(m, gone) => Count(log, m, m + Window) <= 2 * Limit - 1

\* The requests within the last window before r, r included.
Recent(log, r) == {k \in DOMAIN log : log[k] <= r /\ r < log[k] + Window}

LEMMA LogFinite ==
  ASSUME NEW log \in Seq(Time), NEW S \in SUBSET (DOMAIN log)
  PROVE  IsFiniteSet(S) /\ Cardinality(S) \in Nat
<1>1. IsFiniteSet(DOMAIN log)
  BY FS_Interval
<1> QED BY <1>1, FS_Subset, FS_CardinalityType

LEMMA LogNumbers ==
  ASSUME NEW log \in Seq(Time)
  PROVE  \A k \in DOMAIN log : log[k] \in Time /\ log[k] \in Nat
<1>1. \A k \in DOMAIN log : log[k] \in Time
  OBVIOUS
<1> QED BY <1>1, Numbers

LEMMA CountType ==
  ASSUME NEW log \in Seq(Time), NEW m, NEW n
  PROVE  IsFiniteSet(In(log, m, n)) /\ Count(log, m, n) \in Nat
BY LogFinite DEF In, Count

LEMMA CountWithin ==
  ASSUME NEW log \in Seq(Time), NEW m, NEW n, NEW i, NEW j, In(log, m, n) \subseteq In(log, i, j)
  PROVE  Count(log, m, n) <= Count(log, i, j)
BY CountType, FS_Subset DEF Count

\* A span that starts later and outlasts the log holds no more of it.
LEMMA InShrinks ==
  ASSUME NEW log \in Seq(Time), NEW m \in Nat, NEW n, NEW i \in Nat, NEW j,
         i <= m, \A k \in DOMAIN log : log[k] < j
  PROVE  In(log, m, n) \subseteq In(log, i, j)
<1>1. \A k \in DOMAIN log : m <= log[k] => i <= log[k]
  <2>1. \A k \in DOMAIN log : log[k] \in Nat
    BY LogNumbers
  <2> QED BY <2>1
<1> QED BY <1>1 DEF In

LEMMA CountNone ==
  ASSUME NEW log \in Seq(Time), NEW m \in Nat, NEW n \in Nat, \A k \in DOMAIN log : log[k] < m
  PROVE  Count(log, m, n) = 0
<1>1. \A k \in DOMAIN log : log[k] \in Nat
  BY LogNumbers
<1>2. In(log, m, n) = {}
  BY <1>1 DEF In
<1> QED BY <1>2, FS_EmptySet DEF Count

LEMMA CountSplit ==
  ASSUME NEW log \in Seq(Time), NEW m \in Nat, NEW s \in Nat, NEW n \in Nat
  PROVE  Count(log, m, n) <= Count(log, m, s) + Count(log, s, n)
<1> DEFINE A == In(log, m, s)
           B == In(log, s, n)
<1>1. \A k \in DOMAIN log : log[k] \in Nat
  BY LogNumbers
<1>2. In(log, m, n) \subseteq A \cup B
  BY <1>1 DEF In
<1>3. IsFiniteSet(A) /\ IsFiniteSet(B) /\ A \cap B \in SUBSET (DOMAIN log)
  BY CountType DEF In
<1> HIDE DEF A, B
<1>4. /\ IsFiniteSet(A \cup B)
      /\ Cardinality(A \cup B) = Cardinality(A) + Cardinality(B) - Cardinality(A \cap B)
  BY <1>3, FS_Union
<1>5. Cardinality(A \cap B) \in Nat /\ Cardinality(A) \in Nat /\ Cardinality(B) \in Nat /\ Cardinality(A \cup B) \in Nat
  BY <1>3, <1>4, LogFinite, FS_CardinalityType
<1>6. Cardinality(In(log, m, n)) <= Cardinality(A \cup B) /\ Cardinality(In(log, m, n)) \in Nat
  BY <1>2, <1>4, FS_Subset, CountType DEF Count
<1>7. Cardinality(In(log, m, n)) <= Cardinality(A) + Cardinality(B)
  BY <1>4, <1>5, <1>6
<1> QED BY <1>7 DEF Count, A, B

LEMMA CountAppend ==
  ASSUME NEW log \in Seq(Time), NEW at \in Time, NEW m \in Nat, NEW n \in Nat
  PROVE  Count(Append(log, at), m, n) = IF m <= at /\ at < n THEN Count(log, m, n) + 1 ELSE Count(log, m, n)
<1> DEFINE longer == Append(log, at)
           k == Len(log) + 1
<1>1. /\ DOMAIN longer = DOMAIN log \cup {k} /\ k \notin DOMAIN log
      /\ longer[k] = at /\ \A i \in DOMAIN log : longer[i] = log[i]
  OBVIOUS
<1>2. In(longer, m, n) = IF m <= at /\ at < n THEN In(log, m, n) \cup {k} ELSE In(log, m, n)
  BY <1>1 DEF In
<1>3. IsFiniteSet(In(log, m, n)) /\ k \notin In(log, m, n)
  BY <1>1, CountType DEF In
<1> HIDE DEF longer, k
<1>4. Cardinality(In(log, m, n) \cup {k}) = Cardinality(In(log, m, n)) + 1
  BY <1>3, FS_AddElement
<1> QED BY <1>2, <1>4 DEF Count, longer

\* A window that is over.
LEMMA OverIsQuiet ==
  ASSUME NEW log \in Seq(Time), NEW b \in Bucket, NEW at \in Time, NEW gone,
         Running(log, b, at, gone), at - b.windowStart >= Window
  PROVE  Quiet(log, at, gone)
<1> DEFINE s == b.windowStart
<1>1. /\ s \in Nat /\ at \in Nat /\ Window \in Nat /\ Limit \in Nat /\ b.count \in 1 .. Limit /\ s + Window <= at
      /\ \A k \in DOMAIN log : log[k] \in Nat
  <2>1. s \in Time /\ b.count \in 1 .. Limit
    BY DEF Bucket
  <2> HIDE DEF s
  <2>2. at - s >= Window
    BY DEF s
  <2>3. s \in Nat /\ at \in Nat /\ Window \in Nat /\ Limit \in Nat
    BY <2>1, Numbers
  <2> QED BY <2>1, <2>2, <2>3, LogNumbers
<1>2. \A k \in DOMAIN log : log[k] < s + Window
  BY DEF Running
<1>3. \A k \in DOMAIN log : log[k] < at
  BY <1>1, <1>2
<1>4. ASSUME NEW m \in Time, m <= at, at < m + Window
      PROVE  Count(log, m, m + Window) <= Limit - 1
  <2>1. m \in Nat /\ s + 1 <= m
    BY <1>1, <1>4, Numbers
  <2>2. In(log, m, m + Window) \subseteq In(log, s + 1, s + Window)
    BY <1>1, <1>2, <2>1 DEF In
  <2>3. Count(log, m, m + Window) <= Count(log, s + 1, s + Window)
    BY <2>2, CountWithin
  <2>4. Count(log, s + 1, s + Window) <= b.count - 1
    BY DEF Running
  <2>5. Count(log, m, m + Window) \in Nat /\ Count(log, s + 1, s + Window) \in Nat
    BY CountType
  <2> QED BY <1>1, <2>3, <2>4, <2>5
<1> QED BY <1>3, <1>4 DEF Quiet

\* The buckets were dropped at this moment.
LEMMA DroppedIsQuiet ==
  ASSUME NEW log, NEW at \in Time, NEW gone, at \in gone
  PROVE  Quiet(log, at, gone)
<1>1. ASSUME NEW m \in Time, m <= at, at < m + Window PROVE at \in m .. m + Window - 1
  BY <1>1, Numbers
<1> QED BY <1>1 DEF Quiet, KeptWhole

LEMMA QuietLater ==
  ASSUME NEW log \in Seq(Time), NEW at \in Time, NEW gone, Quiet(log, at, gone), UpTo(log, at)
  PROVE  Quiet(log, at + 1, gone)
<1>1. at \in Nat /\ Window \in Nat \ {0} /\ Limit \in Nat \ {0} /\ \A k \in DOMAIN log : log[k] \in Nat
  BY Numbers, LogNumbers
<1>2. \A k \in DOMAIN log : log[k] < at + 1
  BY <1>1 DEF UpTo
<1>3. ASSUME NEW m \in Time, m <= at + 1, at + 1 < m + Window, KeptWhole(m, gone)
      PROVE  Count(log, m, m + Window) <= Limit - 1
  <2>1. m \in Nat
    BY Numbers
  <2>2. CASE m <= at
    BY <1>1, <1>3, <2>1, <2>2 DEF Quiet
  <2>3. CASE m = at + 1
    <3>1. Count(log, m, m + Window) = 0
      BY <1>1, <1>2, <2>1, <2>3, CountNone
    <3> QED BY <1>1, <3>1
  <2> QED BY <1>1, <1>3, <2>1, <2>2, <2>3
<1> QED BY <1>2, <1>3 DEF Quiet

\* Dropping the buckets once more takes nothing away from what is known.
LEMMA MoreGone ==
  ASSUME NEW log, NEW b, NEW at, NEW gone, NEW more, gone \subseteq more
  PROVE  /\ Quiet(log, at, gone) => Quiet(log, at, more)
         /\ Running(log, b, at, gone) => Running(log, b, at, more)
         /\ AtMost(log, gone) => AtMost(log, more)
<1>1. \A m : KeptWhole(m, more) => KeptWhole(m, gone)
  BY DEF KeptWhole
<1> QED BY <1>1 DEF Quiet, Running, AtMost

\* The first hit of a window.
LEMMA FirstHit ==
  ASSUME NEW log \in Seq(Time), NEW at \in Time, NEW gone, NEW b \in Bucket,
         b.windowStart = at, b.count = 1, UpTo(log, at), Quiet(log, at, gone), AtMost(log, gone)
  PROVE  Running(Append(log, at), b, at, gone) /\ AtMost(Append(log, at), gone)
<1> DEFINE longer == Append(log, at)
<1>1. /\ at \in Nat /\ Window \in Nat \ {0} /\ Limit \in Nat \ {0} /\ \A k \in DOMAIN log : log[k] \in Nat
      /\ longer \in Seq(Time)
  BY Numbers, LogNumbers
<1>2. \A k \in DOMAIN longer : longer[k] < at + Window
  <2>1. \A k \in DOMAIN longer : longer[k] = at \/ (k \in DOMAIN log /\ longer[k] = log[k])
    OBVIOUS
  <2> QED BY <1>1, <2>1 DEF UpTo
<1>3. Count(longer, at, at + Window) = Count(log, at, at + Window) + 1
  BY <1>1, CountAppend
<1>4. Count(longer, at + 1, at + Window) = 0
  <2>1. Count(log, at + 1, at + Window) = 0
    <3>1. \A k \in DOMAIN log : log[k] < at + 1
      BY <1>1 DEF UpTo
    <3> QED BY <1>1, <3>1, CountNone
  <2>2. Count(longer, at + 1, at + Window) = Count(log, at + 1, at + Window)
    BY <1>1, CountAppend
  <2> QED BY <2>1, <2>2
<1>5. at \notin gone => Count(log, at, at + Window) = 0
  BY <1>1, CountNone DEF Quiet
<1>6. ASSUME NEW m \in Time, m <= at, at < m + Window, KeptWhole(m, gone)
      PROVE  Count(longer, m, at) <= Limit - 1 /\ Count(longer, m, m + Window) <= Limit
  <2>1. m \in Nat
    BY Numbers
  <2>2. Count(log, m, m + Window) <= Limit - 1 /\ Count(log, m, m + Window) \in Nat
    BY <1>6, CountType DEF Quiet
  <2>3. Count(longer, m, m + Window) = Count(log, m, m + Window) + 1
    BY <1>1, <1>6, <2>1, CountAppend
  <2>4. Count(longer, m, at) = Count(log, m, at)
    BY <1>1, <2>1, CountAppend
  <2>5. In(log, m, at) \subseteq In(log, m, m + Window)
    BY <1>1, <1>6, <2>1 DEF In
  <2>6. Count(log, m, at) <= Count(log, m, m + Window) /\ Count(log, m, at) \in Nat
    BY <2>5, CountWithin, CountType
  <2> QED BY <1>1, <2>2, <2>3, <2>4, <2>6
<1>7. AtMost(longer, gone)
  <2> SUFFICES ASSUME NEW m \in Time, KeptWhole(m, gone)
               PROVE  Count(longer, m, m + Window) <= 2 * Limit - 1
    BY DEF AtMost
  <2>1. m \in Nat /\ Count(longer, m, m + Window) \in Nat
    BY <1>1, Numbers, CountType
  <2>2. CASE m <= at /\ at < m + Window
    <3>1. Count(longer, m, m + Window) <= Limit
      BY <1>6, <2>2
    <3> QED BY <1>1, <2>1, <3>1
  <2>3. CASE ~(m <= at /\ at < m + Window)
    <3>1. Count(longer, m, m + Window) = Count(log, m, m + Window)
      BY <1>1, <2>1, <2>3, CountAppend
    <3> QED BY <3>1 DEF AtMost
  <2> QED BY <2>2, <2>3
<1>8. Count(log, at, at + Window) \in Nat
  BY CountType
<1> HIDE DEF longer
<1>9. Running(longer, b, at, gone)
  BY <1>1, <1>2, <1>3, <1>4, <1>5, <1>6, <1>8 DEF Running
<1> QED BY <1>7, <1>9 DEF longer

\* A further hit of a window.
LEMMA FurtherHit ==
  ASSUME NEW log \in Seq(Time), NEW at \in Time, NEW gone, NEW b \in Bucket, NEW more \in Bucket,
         more.windowStart = b.windowStart, more.count = b.count + 1, at - b.windowStart < Window,
         Running(log, b, at, gone), AtMost(log, gone)
  PROVE  Running(Append(log, at), more, at, gone) /\ AtMost(Append(log, at), gone)
<1> DEFINE longer == Append(log, at)
<1> PICK s : s = b.windowStart
  OBVIOUS
<1> PICK n : n = b.count
  OBVIOUS
<1>1. /\ s \in Nat /\ at \in Nat /\ Window \in Nat \ {0} /\ Limit \in Nat \ {0} /\ n \in 1 .. Limit
      /\ s \in Time /\ n + 1 <= Limit /\ longer \in Seq(Time) /\ \A k \in DOMAIN log : log[k] \in Nat
  BY Numbers, LogNumbers DEF Bucket
<1>2. s <= at /\ at < s + Window
  BY <1>1 DEF Running
<1>3. \A k \in DOMAIN longer : longer[k] < s + Window
  <2>1. \A k \in DOMAIN longer : longer[k] = at \/ (k \in DOMAIN log /\ longer[k] = log[k])
    OBVIOUS
  <2> QED BY <1>2, <2>1 DEF Running
<1>4. Count(longer, s, s + Window) = Count(log, s, s + Window) + 1 /\ Count(log, s, s + Window) \in Nat
  <2>1. s + Window \in Nat
    BY <1>1
  <2>2. Count(log, s, s + Window) \in Nat
    BY CountType
  <2>3. Count(longer, s, s + Window) =
          IF s <= at /\ at < s + Window THEN Count(log, s, s + Window) + 1 ELSE Count(log, s, s + Window)
    BY <1>1, <2>1, CountAppend
  <2> QED BY <1>2, <2>2, <2>3
<1>5. Count(longer, s + 1, s + Window) <= n /\ Count(longer, s + 1, s + Window) \in Nat
  <2>1. Count(longer, s + 1, s + Window) <= Count(log, s + 1, s + Window) + 1
    <3>1. s + 1 \in Nat /\ s + Window \in Nat
      BY <1>1
    <3>2. Count(log, s + 1, s + Window) \in Nat
      BY CountType
    <3>3. Count(longer, s + 1, s + Window) \in {Count(log, s + 1, s + Window), Count(log, s + 1, s + Window) + 1}
      BY <1>1, <3>1, CountAppend
    <3> QED BY <3>2, <3>3
  <2>2. Count(log, s + 1, s + Window) <= n - 1
    BY DEF Running
  <2>3. Count(log, s + 1, s + Window) \in Nat /\ Count(longer, s + 1, s + Window) \in Nat
    BY <1>1, CountType
  <2> QED BY <1>1, <2>1, <2>2, <2>3
<1>6. s \notin gone => Count(longer, s, s + Window) <= n + 1
  BY <1>1, <1>4 DEF Running
<1>7. ASSUME NEW m \in Time, m <= s, s < m + Window, KeptWhole(m, gone)
      PROVE  Count(longer, m, s) <= Limit - 1
  <2>1. Count(longer, m, s) = Count(log, m, s)
    BY <1>1, <1>2, Numbers, CountAppend
  <2> QED BY <1>7, <2>1 DEF Running
<1>8. AtMost(longer, gone)
  <2> SUFFICES ASSUME NEW m \in Time, KeptWhole(m, gone)
               PROVE  Count(longer, m, m + Window) <= 2 * Limit - 1
    BY DEF AtMost
  <2>1. m \in Nat /\ Count(longer, m, m + Window) \in Nat
    BY <1>1, Numbers, CountType
  <2>2. CASE ~(m <= at /\ at < m + Window)
    <3>1. Count(longer, m, m + Window) = Count(log, m, m + Window)
      BY <1>1, <2>1, <2>2, CountAppend
    <3> QED BY <3>1 DEF AtMost
  <2>3. CASE s < m
    <3>1. In(longer, m, m + Window) \subseteq In(longer, s + 1, s + Window)
      <4>1. longer \in Seq(Time) /\ s + 1 \in Nat /\ s + 1 <= m
        BY <1>1, <2>1, <2>3
      <4> HIDE DEF longer
      <4> QED BY <1>3, <2>1, <4>1, InShrinks
    <3>2. Count(longer, m, m + Window) <= Count(longer, s + 1, s + Window)
      BY <1>1, <3>1, CountWithin
    <3> QED BY <1>1, <1>5, <2>1, <3>2
  <2>4. CASE m <= s /\ m <= at /\ at < m + Window
    <3>1. s \in m .. m + Window - 1
      BY <1>1, <1>2, <2>1, <2>4
    <3>2. s \notin gone
      BY <3>1 DEF KeptWhole
    <3>3. Count(longer, m, s) <= Limit - 1 /\ Count(longer, m, s) \in Nat
      <4>1. s < m + Window
        BY <1>1, <1>2, <2>1, <2>4
      <4>2. Count(longer, m, s) \in Nat
        BY <1>1, CountType
      <4> QED BY <1>7, <2>4, <4>1, <4>2
    <3>4. Count(longer, m, m + Window) <= Count(longer, m, s) + Count(longer, s, m + Window)
      <4>1. m + Window \in Nat
        BY <1>1, <2>1
      <4> QED BY <1>1, <2>1, <4>1, CountSplit
    <3>5. In(longer, s, m + Window) \subseteq In(longer, s, s + Window)
      BY <1>3 DEF In
    <3>6. Count(longer, s, m + Window) <= Count(longer, s, s + Window) /\ Count(longer, s, m + Window) \in Nat
          /\ Count(longer, s, s + Window) \in Nat
      BY <1>1, <3>5, CountWithin, CountType
    <3>7. Count(longer, s, m + Window) <= Limit
      BY <1>1, <1>6, <3>2, <3>6
    <3> QED BY <1>1, <2>1, <3>3, <3>4, <3>6, <3>7
  <2> QED BY <1>1, <2>1, <2>2, <2>3, <2>4
<1> HIDE DEF longer
<1>9. Running(longer, more, at, gone)
  <2>1. n <= Count(log, s, s + Window)
    BY DEF Running
  <2> QED BY <1>1, <1>2, <1>3, <1>4, <1>5, <1>6, <1>7, <2>1 DEF Running
<1> QED BY <1>8, <1>9 DEF longer

\* A token over its limit had the whole of it within the last window.
LEMMA OverLimitIsRecent ==
  ASSUME NEW log \in Seq(Time), NEW at \in Time, NEW gone, NEW b \in Bucket, Running(log, b, at, gone),
         UpTo(log, at), at - b.windowStart < Window, b.count >= Limit
  PROVE  Cardinality(Recent(log, at)) >= Limit
<1> PICK s : s = b.windowStart
  OBVIOUS
<1>1. /\ s \in Nat /\ at \in Nat /\ Window \in Nat \ {0} /\ Limit \in Nat \ {0} /\ b.count \in Nat
      /\ \A k \in DOMAIN log : log[k] \in Nat
  BY Numbers, LogNumbers DEF Bucket
<1>2. In(log, s, s + Window) \subseteq Recent(log, at)
  BY <1>1 DEF In, Recent, UpTo
<1>3. Recent(log, at) \in SUBSET (DOMAIN log)
  BY DEF Recent
<1>4. IsFiniteSet(Recent(log, at)) /\ Cardinality(Recent(log, at)) \in Nat
  BY <1>3, LogFinite
<1>5. Count(log, s, s + Window) <= Cardinality(Recent(log, at))
  BY <1>2, <1>4, FS_Subset DEF Count
<1>6. b.count <= Count(log, s, s + Window) /\ Count(log, s, s + Window) \in Nat
  BY CountType DEF Running
<1> QED BY <1>1, <1>4, <1>5, <1>6

LEMMA RecentStays ==
  ASSUME NEW log \in Seq(Time), NEW at \in Time, NEW r
  PROVE  Cardinality(Recent(log, r)) <= Cardinality(Recent(Append(log, at), r))
<1>1. Recent(log, r) \subseteq Recent(Append(log, at), r) /\ Append(log, at) \in Seq(Time)
  BY DEF Recent
<1>2. IsFiniteSet(Recent(Append(log, at), r))
  <2>1. Recent(Append(log, at), r) \in SUBSET (DOMAIN Append(log, at))
    BY DEF Recent
  <2> QED BY <1>1, <2>1, LogFinite
<1> QED BY <1>1, <1>2, FS_Subset

-------------------------------------------------------------------------------
(* What every step leaves behind of the buckets and the logs. *)

LogFits(t) ==
  /\ UpTo(allowed[t], now) /\ AtMost(allowed[t], forgiven)
  /\ t \in DOMAIN buckets => Running(allowed[t], buckets[t], now, forgiven)
  /\ t \notin DOMAIN buckets => Quiet(allowed[t], now, forgiven)

RefusedRightly ==
  \A tm \in refused : tm[2] <= now /\ Cardinality(Recent(allowed[tm[1]], tm[2])) >= Limit

RateFits == (\A t \in Tokens : LogFits(t)) /\ RefusedRightly

LEMMA InitRateFits == Init => RateFits
<1> SUFFICES ASSUME Init PROVE RateFits
  OBVIOUS
<1>1. ASSUME NEW t \in Tokens PROVE LogFits(t)
  <2>1. allowed[t] = <<>> /\ DOMAIN buckets = {} /\ << >> \in Seq(Time) /\ now = 0
    BY DEF Init
  <2>2. \A m \in Time : Count(<<>>, m, m + Window) = 0
    <3> SUFFICES ASSUME NEW m \in Time PROVE Count(<<>>, m, m + Window) = 0
      OBVIOUS
    <3>1. m \in Nat /\ m + Window \in Nat /\ \A k \in DOMAIN << >> : << >>[k] < m
      BY Numbers
    <3> QED BY <2>1, <3>1, CountNone
  <2> QED BY <2>1, <2>2, Numbers DEF LogFits, UpTo, AtMost, Quiet
<1> QED BY <1>1 DEF RateFits, RefusedRightly, Init

LEMMA TickRateFits ==
  ASSUME TypeInv, RateFits, Tick
  PROVE  RateFits'
<1>1. /\ now \in Time /\ now \in Nat /\ now' = now + 1
      /\ UNCHANGED <<buckets, allowed, refused, forgiven>>
  BY Numbers DEF Tick, TypeInv, history
<1>2. ASSUME NEW t \in Tokens PROVE LogFits(t)'
  <2>1. allowed[t] \in Seq(Time) /\ LogFits(t)
    BY DEF TypeInv, HistoryFits, RateFits
  <2>2. UpTo(allowed[t], now + 1)
    BY <1>1, <2>1, LogNumbers DEF LogFits, UpTo
  <2>3. t \in DOMAIN buckets => Running(allowed[t], buckets[t], now + 1, forgiven)
    <3>1. ASSUME t \in DOMAIN buckets PROVE buckets[t].windowStart \in Nat
      BY <3>1, Numbers DEF TypeInv, BucketsFit, Bucket
    <3> QED BY <1>1, <2>1, <3>1 DEF LogFits, Running
  <2>4. t \notin DOMAIN buckets => Quiet(allowed[t], now + 1, forgiven)
    BY <1>1, <2>1, QuietLater DEF LogFits
  <2> QED BY <1>1, <2>1, <2>2, <2>3, <2>4 DEF LogFits
<1>3. RefusedRightly'
  <2>1. \A tm \in refused : tm[2] \in Nat
    BY Numbers DEF TypeInv, HistoryFits
  <2> QED BY <1>1, <2>1 DEF RateFits, RefusedRightly
<1> QED BY <1>2, <1>3 DEF RateFits

LEMMA RestartRateFits ==
  ASSUME TypeInv, RateFits, Restart
  PROVE  RateFits'
<1>1. /\ now \in Time /\ DOMAIN buckets' = {} /\ forgiven' = forgiven \cup {now}
      /\ UNCHANGED <<now, allowed, refused>>
  BY DEF Restart, Restrict, TypeInv
<1>2. ASSUME NEW t \in Tokens PROVE LogFits(t)'
  <2>1. LogFits(t)
    BY DEF RateFits
  <2>2. AtMost(allowed[t], forgiven \cup {now})
    BY <2>1, MoreGone DEF LogFits
  <2>3. Quiet(allowed[t], now, forgiven \cup {now})
    BY <1>1, DroppedIsQuiet
  <2> QED BY <1>1, <2>1, <2>2, <2>3 DEF LogFits
<1> QED BY <1>1, <1>2 DEF RateFits, RefusedRightly

\* A token is quiet when it has no bucket and when its window is over.
LEMMA FreshIsQuiet ==
  ASSUME TypeInv, RateFits, NEW t \in Tokens, Fresh(t)
  PROVE  Quiet(allowed[t], now, forgiven)
<1>1. LogFits(t) /\ allowed[t] \in Seq(Time) /\ now \in Time
  BY DEF RateFits, TypeInv, HistoryFits
<1>2. CASE t \in DOMAIN buckets
  <2>1. buckets[t] \in Bucket /\ Running(allowed[t], buckets[t], now, forgiven)
    BY <1>1, <1>2 DEF LogFits, TypeInv, BucketsFit
  <2>2. now - buckets[t].windowStart >= Window
    BY <1>2 DEF Fresh, Spent
  <2> QED BY <1>1, <2>1, <2>2, OverIsQuiet
<1> QED BY <1>1, <1>2 DEF LogFits

\* What pruning makes of the other buckets: kept as they are, over, or all dropped at this moment.
LEMMA PrunedFits ==
  ASSUME TypeInv, RateFits, NEW s \in Tokens, NEW gone, forgiven \subseteq gone, StartsOver => now \in gone
  PROVE  /\ s \in DOMAIN Pruned => s \in DOMAIN buckets /\ Running(allowed[s], Pruned[s], now, gone)
         /\ s \notin DOMAIN Pruned => Quiet(allowed[s], now, gone)
<1>1. LogFits(s) /\ now \in Time /\ BucketsFit
  BY DEF RateFits, TypeInv
<1>2. ASSUME s \in DOMAIN Pruned
      PROVE  s \in DOMAIN buckets /\ Running(allowed[s], Pruned[s], now, gone)
  <2>1. s \in DOMAIN buckets /\ Pruned[s] = buckets[s]
    BY <1>1, <1>2, PrunedType
  <2> QED BY <1>1, <2>1, MoreGone DEF LogFits
<1>3. ASSUME s \notin DOMAIN Pruned PROVE Quiet(allowed[s], now, gone)
  <2>1. CASE StartsOver
    BY <1>1, <2>1, DroppedIsQuiet
  <2>2. CASE ~StartsOver
    <3>1. Fresh(s)
      BY <1>3, <2>2 DEF Pruned, Restrict, Kept, Fresh
    <3> QED BY <3>1, FreshIsQuiet, MoreGone
  <2> QED BY <2>1, <2>2
<1> QED BY <1>2, <1>3

\* A hit of t lets it through: what was refused before was refused rightly.
LEMMA AllowKeepsRefused ==
  ASSUME TypeInv, RateFits, NEW t \in Tokens, allowed' = [allowed EXCEPT ![t] = Append(@, now)],
         UNCHANGED <<now, refused>>
  PROVE  RefusedRightly'
<1> SUFFICES ASSUME NEW tm \in refused PROVE Cardinality(Recent(allowed'[tm[1]], tm[2])) >= Limit
  BY DEF RateFits, RefusedRightly
<1>1. tm[1] \in Tokens /\ now \in Time /\ allowed \in [Tokens -> Seq(Time)]
  BY DEF TypeInv, HistoryFits
<1>2. Cardinality(Recent(allowed[tm[1]], tm[2])) >= Limit
  BY DEF RateFits, RefusedRightly
<1>3. allowed'[tm[1]] \in {allowed[tm[1]], Append(allowed[tm[1]], now)}
  BY <1>1
<1>4. CASE allowed'[tm[1]] = Append(allowed[tm[1]], now)
  <2>1. Cardinality(Recent(allowed[tm[1]], tm[2])) <= Cardinality(Recent(Append(allowed[tm[1]], now), tm[2]))
    BY <1>1, RecentStays
  <2>2. Cardinality(Recent(allowed[tm[1]], tm[2])) \in Nat /\ Limit \in Nat
        /\ Cardinality(Recent(Append(allowed[tm[1]], now), tm[2])) \in Nat
    <3>1. \A log : Recent(log, tm[2]) \in SUBSET (DOMAIN log)
      BY DEF Recent
    <3>2. allowed[tm[1]] \in Seq(Time) /\ Append(allowed[tm[1]], now) \in Seq(Time)
      BY <1>1
    <3> QED BY <3>1, <3>2, LogFinite, Numbers
  <2> QED BY <1>2, <1>4, <2>1, <2>2
<1> QED BY <1>2, <1>3, <1>4

LEMMA UpToAppend ==
  ASSUME NEW log \in Seq(Time), NEW at \in Time, UpTo(log, at)
  PROVE  UpTo(Append(log, at), at) /\ Append(log, at) \in Seq(Time)
<1>1. \A k \in DOMAIN Append(log, at) : Append(log, at)[k] = at \/ (k \in DOMAIN log /\ Append(log, at)[k] = log[k])
  OBVIOUS
<1> QED BY <1>1, Numbers DEF UpTo

LEMMA HitRateFits ==
  ASSUME TypeInv, RateFits, NEW c \in McpCalls, Hit(c)
  PROVE  RateFits'
<1> PICK t : t = call[c].token
  OBVIOUS
<1>1. t \in Tokens /\ now \in Time /\ UNCHANGED now /\ allowed \in [Tokens -> Seq(Time)] /\ BucketsFit
  BY DEF Hit, TypeInv, CallsFit, HistoryFits
<1>2. LogFits(t) /\ allowed[t] \in Seq(Time) /\ RefusedRightly
  BY <1>1 DEF RateFits
<1>3. CASE Fresh(t) /\ buckets' = Renewed(t) /\ allowed' = [allowed EXCEPT ![t] = Append(@, now)]
           /\ UNCHANGED refused /\ forgiven' = IF StartsOver THEN forgiven \cup {now} ELSE forgiven
  <2> PICK gone : gone = forgiven'
    OBVIOUS
  <2> PICK log : log = allowed[t]
    OBVIOUS
  <2> PICK at : at = now
    OBVIOUS
  <2> DEFINE b == [windowStart |-> at, count |-> 1]
  <2>1. forgiven \subseteq gone /\ (StartsOver => now \in gone) /\ b \in Bucket
    BY <1>1, <1>3, Numbers DEF Bucket
  <2>2. /\ DOMAIN buckets' = DOMAIN Pruned \cup {t} /\ buckets'[t] = b
        /\ \A s \in DOMAIN Pruned \ {t} : buckets'[s] = Pruned[s]
    BY <1>3 DEF Renewed
  <2>3. Quiet(log, at, gone) /\ AtMost(log, gone) /\ UpTo(log, at)
    BY <1>1, <1>2, <1>3, <2>1, FreshIsQuiet, MoreGone DEF LogFits
  <2>4. Running(Append(log, at), b, at, gone) /\ AtMost(Append(log, at), gone) /\ UpTo(Append(log, at), at)
    BY <1>1, <1>2, <2>1, <2>3, FirstHit, UpToAppend
  <2>5. LogFits(t)'
    BY <1>1, <1>3, <2>2, <2>4 DEF LogFits
  <2>6. ASSUME NEW s \in Tokens \ {t} PROVE LogFits(s)'
    <3>1. allowed'[s] = allowed[s] /\ LogFits(s)
      BY <1>1, <1>3 DEF RateFits
    <3>2. AtMost(allowed[s], gone)
      BY <2>1, <3>1, MoreGone DEF LogFits
    <3>3. s \in DOMAIN buckets' <=> s \in DOMAIN Pruned
      BY <2>2
    <3> QED BY <1>1, <2>1, <2>2, <3>1, <3>2, <3>3, PrunedFits DEF LogFits
  <2>7. RefusedRightly'
    BY <1>1, <1>3, AllowKeepsRefused
  <2> QED BY <2>5, <2>6, <2>7 DEF RateFits
<1>4. CASE ~Fresh(t) /\ OverLimit(t) /\ refused' = refused \cup {<<t, now>>}
           /\ UNCHANGED <<buckets, allowed, forgiven>>
  <2>1. t \in DOMAIN buckets /\ ~(now - buckets[t].windowStart >= Window)
    BY <1>4 DEF Fresh, Spent
  <2>2. buckets[t] \in Bucket /\ Running(allowed[t], buckets[t], now, forgiven) /\ UpTo(allowed[t], now)
    BY <1>1, <1>2, <2>1 DEF LogFits, BucketsFit
  <2>3. now - buckets[t].windowStart < Window /\ buckets[t].count >= Limit
    <3>1. now \in Nat /\ buckets[t].windowStart \in Nat /\ Window \in Nat
      BY <1>1, <2>2, Numbers DEF Bucket
    <3> QED BY <1>4, <2>1, <3>1 DEF OverLimit
  <2>4. Cardinality(Recent(allowed[t], now)) >= Limit
    BY <1>1, <1>2, <2>2, <2>3, OverLimitIsRecent
  <2>5. \A s \in Tokens : LogFits(s)'
    BY <1>1, <1>4 DEF RateFits, LogFits
  <2>6. RefusedRightly'
    BY <1>1, <1>2, <1>4, <2>4, Numbers DEF RefusedRightly
  <2> QED BY <2>5, <2>6 DEF RateFits
<1>5. CASE ~Fresh(t) /\ ~OverLimit(t) /\ buckets' = [buckets EXCEPT ![t].count = @ + 1]
           /\ allowed' = [allowed EXCEPT ![t] = Append(@, now)] /\ UNCHANGED <<refused, forgiven>>
  <2> PICK gone : gone = forgiven
    OBVIOUS
  <2> PICK log : log = allowed[t]
    OBVIOUS
  <2> PICK at : at = now
    OBVIOUS
  <2> PICK b : b = buckets[t]
    OBVIOUS
  <2> DEFINE more == [b EXCEPT !.count = @ + 1]
  <2>1. t \in DOMAIN buckets /\ ~(at - b.windowStart >= Window)
    BY <1>5 DEF Fresh, Spent
  <2>2. b \in Bucket /\ Running(log, b, at, gone) /\ AtMost(log, gone) /\ UpTo(log, at)
    BY <1>1, <1>2, <2>1 DEF LogFits, BucketsFit
  <2>3. at - b.windowStart < Window /\ b.count + 1 <= Limit /\ b.count \in Nat
    <3>1. at \in Nat /\ b.windowStart \in Nat /\ Window \in Nat /\ b.count \in Nat /\ Limit \in Nat
      BY <1>1, <2>2, Numbers DEF Bucket
    <3> QED BY <1>5, <2>1, <3>1 DEF OverLimit
  <2>4. more \in Bucket /\ more.windowStart = b.windowStart /\ more.count = b.count + 1
    BY <2>2, <2>3, Numbers DEF Bucket
  <2>5. buckets' = [buckets EXCEPT ![t] = more]
    BY <1>5
  <2> HIDE DEF more
  <2>6. Running(Append(log, at), more, at, gone) /\ AtMost(Append(log, at), gone) /\ UpTo(Append(log, at), at)
    BY <1>1, <1>2, <2>2, <2>3, <2>4, FurtherHit, UpToAppend
  <2>7. LogFits(t)'
    BY <1>1, <1>5, <2>1, <2>5, <2>6 DEF LogFits
  <2>8. ASSUME NEW s \in Tokens \ {t} PROVE LogFits(s)'
    BY <1>1, <1>5, <2>5 DEF RateFits, LogFits
  <2>9. RefusedRightly'
    BY <1>1, <1>5, AllowKeepsRefused
  <2> QED BY <2>7, <2>8, <2>9 DEF RateFits
<1> QED BY <1>3, <1>4, <1>5 DEF Hit, Allow

LEMMA NextRateFits == TypeInv /\ RateFits /\ [Next]_vars => RateFits'
<1> SUFFICES ASSUME TypeInv, RateFits, [Next]_vars PROVE RateFits'
  OBVIOUS
<1>1. CASE UNCHANGED <<now, buckets, allowed, refused, forgiven>>
  BY <1>1 DEF RateFits, LogFits, RefusedRightly
<1> QED BY <1>1, TickRateFits, RestartRateFits, HitRateFits
    DEF Next, Request, Progress, Login, Refresh, Logout, UpdateUser, UpdateWrite, CreateToken,
        RevokeToken, Verify, Touch, vars, history

LEMMA RateInvariance == Spec => []RateFits
BY InitRateFits, NextRateFits, TypeInvariance, PTL DEF Spec

\* Over any stretch of one window's length a token gets less than twice its limit, unless all buckets
\* were dropped in it, and it is refused only after its whole limit within the last window, for every
\* limit, window, number of tokens and number of buckets (TokenRateLimiter).
THEOREM RateKept == Spec => []RateIsKept
<1>1. TypeInv /\ RateFits => RateIsKept
  <2> SUFFICES ASSUME TypeInv, RateFits PROVE RateIsKept
    OBVIOUS
  <2>1. ASSUME NEW t \in Tokens, NEW m \in Time, (m .. m + Window - 1) \cap forgiven = {}
        PROVE  AllowedIn(t, m, m + Window - 1) <= 2 * Limit - 1
    <3>1. allowed[t] \in Seq(Time) /\ m \in Nat /\ Window \in Nat \ {0}
      BY Numbers DEF TypeInv, HistoryFits
    <3>2. \A k \in DOMAIN allowed[t] : allowed[t][k] \in Nat
      BY <3>1, LogNumbers
    <3>3. {k \in DOMAIN allowed[t] : allowed[t][k] \in m .. m + Window - 1} = In(allowed[t], m, m + Window)
      BY <3>1, <3>2 DEF In
    <3> QED BY <2>1, <3>3 DEF AllowedIn, Count, RateFits, LogFits, AtMost, KeptWhole
  <2>2. ASSUME NEW tm \in refused
        PROVE  AllowedIn(tm[1], IF tm[2] < Window THEN 0 ELSE tm[2] - Window + 1, tm[2]) >= Limit
    <3> DEFINE from == IF tm[2] < Window THEN 0 ELSE tm[2] - Window + 1
    <3>1. tm[1] \in Tokens /\ tm[2] \in Time /\ tm[2] \in Nat /\ Window \in Nat \ {0}
      BY Numbers DEF TypeInv, HistoryFits
    <3>2. \A k \in DOMAIN allowed[tm[1]] : allowed[tm[1]][k] \in Nat
      BY <3>1, LogNumbers DEF TypeInv, HistoryFits
    <3>3. {k \in DOMAIN allowed[tm[1]] : allowed[tm[1]][k] \in from .. tm[2]} = Recent(allowed[tm[1]], tm[2])
      BY <3>1, <3>2 DEF Recent
    <3> QED BY <3>3 DEF AllowedIn, RateFits, RefusedRightly
  <2> QED BY <2>1, <2>2 DEF RateIsKept
<1> QED BY <1>1, RateInvariance, TypeInvariance, PTL
==============================================================================
