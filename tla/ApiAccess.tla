------------------------------- MODULE ApiAccess -------------------------------
(***************************************************************************)
(* Who may call the API: user accounts and their browser sessions, the     *)
(* personal access tokens of MCP clients, and the in-memory rate limiter   *)
(* of the MCP endpoint.  Requests interleave at their database calls; time *)
(* passes between any two of them.                                         *)
(***************************************************************************)
EXTENDS Naturals, Sequences, FiniteSets, Functions

CONSTANTS
  Users, Tokens,          \* accounts; ApiToken rows that may be created
  McpCalls,               \* MCP requests in flight
  Updates,                \* PATCH /users/:id requests
  Limit, Window,          \* MCP_RATE_LIMIT, MCP_RATE_WINDOW_MS
  MaxKeys,                \* maxKeys of TokenRateLimiter
  AccessTtl, RefreshTtl,  \* lifetimes of the two JWTs
  TokenLives,             \* expiresInDays
  None,
  MaxTime, MaxRequests    \* bounds: the clock, and the requests made in all

ASSUME ApiAccessAssumption ==
  /\ Limit \in Nat \ {0} /\ Window \in Nat \ {0} /\ MaxKeys \in Nat \ {0}
  /\ AccessTtl \in Nat \ {0} /\ RefreshTtl \in Nat \ {0} /\ TokenLives \subseteq Nat \ {0}
  /\ MaxTime \in Nat /\ MaxRequests \in Nat

Time == 0 .. MaxTime
Never == MaxTime + 1
Roles == {"ADMIN", "TESTER"}
Changes == {"deactivate", "activate", "demote", "promote"}

VARIABLES
  requests,    \* how many requests were made, for the bound
  now,
  user,        \* the User rows
  session,     \* session[u]: when the browser's access and refresh JWT expire
  token,       \* the ApiToken rows
  buckets,     \* TokenRateLimiter.buckets
  call,        \* call[c]: where an MCP request is
  update,      \* update[a]: where a PATCH /users/:id is
  allowed,     \* history: when the requests of each token were let through
  refused,     \* history: the <<t, m>> at which a request of t was told to slow down
  forgiven     \* history: the times at which all buckets were dropped

vars == <<requests, now, user, session, token, buckets, call, update, allowed, refused, forgiven>>
history == <<allowed, refused, forgiven>>

Issued == [access |-> now + AccessTtl, refresh |-> now + RefreshTtl]
NoToken == [state |-> "absent", owner |-> None, expiresAt |-> 0, lastUsedAt |-> Never]
NewToken(u, life) == [state |-> "live", owner |-> u, expiresAt |-> now + life, lastUsedAt |-> Never]
NoCall == [pc |-> "new", token |-> None, lastUsedAt |-> Never]
Untouched(pc) == [pc |-> pc, actor |-> None, target |-> None, change |-> "activate"]

Init ==
  /\ requests = 0
  /\ now = 0
  /\ user \in [Users -> [role : Roles, active : {TRUE}]]
  /\ session = [u \in Users |-> Issued]
  /\ token \in [Tokens -> {NoToken} \cup UNION {{NewToken(u, life) : u \in Users} : life \in TokenLives}]
  /\ buckets = [t \in {} |-> [windowStart |-> 0, count |-> 0]]
  /\ call = [c \in McpCalls |-> NoCall]
  /\ update = [a \in Updates |-> Untouched("new")]
  /\ allowed = [t \in Tokens |-> <<>>]
  /\ refused = {}
  /\ forgiven = {}

TypeOK ==
  /\ requests \in 0 .. MaxRequests
  /\ now \in Time
  /\ user \in [Users -> [role : Roles, active : BOOLEAN]]
  /\ session \in [Users -> [access : Nat, refresh : Nat]]
  /\ token \in [Tokens -> [state : {"absent", "live", "revoked"}, owner : Users \cup {None},
                           expiresAt : Nat, lastUsedAt : Time \cup {Never}]]
  /\ DOMAIN buckets \subseteq Tokens /\ Cardinality(DOMAIN buckets) <= MaxKeys
  /\ \A t \in DOMAIN buckets : buckets[t] \in [windowStart : Time, count : 1 .. Limit]
  /\ call \in [McpCalls -> [pc : {"new", "limit", "touch"}, token : Tokens \cup {None}, lastUsedAt : Time \cup {Never}]]
  /\ update \in [Updates -> [pc : {"new", "write", "done"}, actor : Users \cup {None},
                         target : Users \cup {None}, change : Changes]]
  /\ allowed \in [Tokens -> Seq(Time)]
  /\ refused \subseteq Tokens \X Time /\ forgiven \subseteq Time

Tick == now < MaxTime /\ now' = now + 1
        /\ UNCHANGED <<user, session, token, buckets, call, update, history>>

-------------------------------------------------------------------------------
(* Browser sessions and user accounts *)

Login(u) ==
  /\ user[u].active
  /\ session' = [session EXCEPT ![u] = Issued]
  /\ UNCHANGED <<now, user, token, buckets, call, update, history>>

Refresh(u) ==
  /\ session[u].refresh > now
  /\ user[u].active
  /\ session' = [session EXCEPT ![u] = Issued]
  /\ UNCHANGED <<now, user, token, buckets, call, update, history>>

\* Only the cookie goes; the access token stays good until it expires.
Logout(u) ==
  /\ session' = [session EXCEPT ![u].refresh = 0]
  /\ UNCHANGED <<now, user, token, buckets, call, update, history>>

\* JwtAuthGuard reads the account on every request, whatever role the token was issued for.
SignedIn(u) == session[u].access > now /\ user[u].active
IsAdmin(u) == user[u].active /\ user[u].role = "ADMIN"

\* Mutant of OwnAccountRefused: administrators may demote themselves.
OwnDemotionAllowed(actor, target, change) == target = actor /\ change = "deactivate"
OwnAccountRefused(actor, target, change) == target = actor /\ change \in {"deactivate", "demote"}

\* JwtAuthGuard, RolesGuard and the check on the actor's own account.
UpdateUser(a, actor, target, change) ==
  /\ update[a].pc = "new"
  /\ SignedIn(actor) /\ IsAdmin(actor)
  /\ ~OwnAccountRefused(actor, target, change)
  /\ update' = [update EXCEPT ![a] = [pc |-> "write", actor |-> actor, target |-> target, change |-> change]]
  /\ UNCHANGED <<now, user, session, token, buckets, call, history>>

UpdateWrite(a) ==
  LET target == update[a].target
      change == update[a].change
  IN /\ update[a].pc = "write"
     /\ user' = [user EXCEPT
          ![target].active = (@ \/ change = "activate") /\ change # "deactivate",
          ![target].role = CASE change = "demote" -> "TESTER" [] change = "promote" -> "ADMIN" [] OTHER -> @]
     /\ update' = [update EXCEPT ![a] = Untouched("done")]
     /\ UNCHANGED <<now, session, token, buckets, call, history>>

-------------------------------------------------------------------------------
(* Personal access tokens *)

CreateToken(t, u, life) ==
  /\ token[t].state = "absent"
  /\ SignedIn(u)
  /\ token' = [token EXCEPT ![t] = NewToken(u, life)]
  /\ UNCHANGED <<now, user, session, buckets, call, update, history>>

RevokeToken(t) ==
  /\ token[t].state = "live" /\ SignedIn(token[t].owner)
  /\ token' = [token EXCEPT ![t].state = "revoked"]
  /\ UNCHANGED <<now, user, session, buckets, call, update, history>>

Good(t) == token[t].state = "live" /\ token[t].expiresAt > now /\ user[token[t].owner].active

\* A call with any other token ends with 401 and changes nothing.
Verify(c, t) ==
  /\ call[c].pc = "new"
  /\ Good(t)
  /\ call' = [call EXCEPT ![c] = [pc |-> "limit", token |-> t, lastUsedAt |-> token[t].lastUsedAt]]
  /\ UNCHANGED <<now, user, session, token, buckets, update, history>>

-------------------------------------------------------------------------------
(* TokenRateLimiter: one bucket per token, made at its first request and renewed in place. *)

\* Mutant of Spent: a window lasts one moment longer.
SpentLate(t) == now - buckets[t].windowStart > Window
Spent(t) == now - buckets[t].windowStart >= Window
Fresh(t) == t \in DOMAIN buckets => Spent(t)
Kept == {t \in DOMAIN buckets : ~Spent(t)}

\* prune drops the windows that are over and, when every one is live, all of them.
Full == Cardinality(DOMAIN buckets) >= MaxKeys
\* Mutant of StartsOver: live windows are never dropped.
NeverStartsOver == FALSE
StartsOver == Full /\ Cardinality(Kept) >= MaxKeys
Pruned == IF ~Full THEN buckets ELSE IF StartsOver THEN Restrict(buckets, {}) ELSE Restrict(buckets, Kept)

Renewed(t) ==
  [s \in DOMAIN Pruned \cup {t} |-> IF s = t THEN [windowStart |-> now, count |-> 1] ELSE Pruned[s]]

OverLimit(t) == buckets[t].count >= Limit

Allow(c, t) ==
  /\ allowed' = [allowed EXCEPT ![t] = Append(@, now)]
  /\ call' = [call EXCEPT ![c].pc = "touch"]
  /\ UNCHANGED refused

Hit(c) ==
  LET t == call[c].token
  IN /\ call[c].pc = "limit"
     /\ \/ /\ Fresh(t)
           /\ buckets' = Renewed(t)
           /\ forgiven' = IF StartsOver THEN forgiven \cup {now} ELSE forgiven
           /\ Allow(c, t)
        \/ /\ ~Fresh(t) /\ OverLimit(t)
           /\ refused' = refused \cup {<<t, now>>}
           /\ call' = [call EXCEPT ![c] = NoCall]
           /\ UNCHANGED <<buckets, allowed, forgiven>>
        \/ /\ ~Fresh(t) /\ ~OverLimit(t)
           /\ buckets' = [buckets EXCEPT ![t].count = @ + 1]
           /\ Allow(c, t)
           /\ UNCHANGED forgiven
     /\ UNCHANGED <<now, user, session, token, update>>

\* The request goes on; lastUsedAt is stamped when the value read by verify is old enough.
Touch(c) ==
  LET t == call[c].token
      seen == call[c].lastUsedAt
  IN /\ call[c].pc = "touch"
     /\ token' = IF seen # Never /\ now - seen < Window THEN token ELSE [token EXCEPT ![t].lastUsedAt = now]
     /\ call' = [call EXCEPT ![c] = NoCall]
     /\ UNCHANGED <<now, user, session, buckets, update, history>>

\* The process restarts: the buckets are forgotten and the requests in flight with them.
Restart ==
  /\ buckets' = Restrict(buckets, {})
  /\ call' = [c \in McpCalls |-> NoCall]
  /\ update' = [a \in Updates |-> IF update[a].pc = "write" THEN Untouched("done") ELSE update[a]]
  /\ forgiven' = forgiven \cup {now}
  /\ UNCHANGED <<now, user, session, token, allowed, refused>>

-------------------------------------------------------------------------------
Request ==
  \/ \E u \in Users : Login(u) \/ Refresh(u) \/ Logout(u)
  \/ \E a \in Updates, actor, target \in Users, change \in Changes : UpdateUser(a, actor, target, change)
  \/ \E t \in Tokens, u \in Users, life \in TokenLives : CreateToken(t, u, life)
  \/ \E t \in Tokens : RevokeToken(t)
  \/ \E c \in McpCalls, t \in Tokens : Verify(c, t)

Progress ==
  \/ \E a \in Updates : UpdateWrite(a)
  \/ \E c \in McpCalls : Hit(c) \/ Touch(c)

Next ==
  \/ requests < MaxRequests /\ requests' = requests + 1 /\ Request
  \/ UNCHANGED requests /\ (Progress \/ Tick \/ Restart)

Spec == Init /\ [][Next]_vars

AllowedIn(t, from, to) == Cardinality({k \in DOMAIN allowed[t] : allowed[t][k] \in from .. to})

\* The fixed windows keep a token below twice the limit over any stretch of one window's length,
\* unless the buckets were all dropped in it, and they are never stricter than the limit: a token is
\* told to slow down only after it had its whole limit within the last window (hit, prune).
RateIsKept ==
  /\ \A t \in Tokens, m \in Time :
       (m .. m + Window - 1) \cap forgiven = {} => AllowedIn(t, m, m + Window - 1) <= 2 * Limit - 1
  /\ \A tm \in refused :
       AllowedIn(tm[1], IF tm[2] < Window THEN 0 ELSE tm[2] - Window + 1, tm[2]) >= Limit

\* Administrators cannot lock everybody out one by one: only a request whose actor has itself been
\* deactivated or demoted since the guards checked it can take the last active administrator away
\* (JwtAuthGuard, RolesGuard, UsersService.update).
LastAdminFallsOnlyToStaleRequest ==
  [][\A a \in Updates :
       /\ update[a].pc = "write" /\ update'[a].pc = "done"
       /\ \E u \in Users : IsAdmin(u)
       /\ ~\E u \in Users : IsAdmin(u)'
       => ~IsAdmin(update[a].actor)]_vars
================================================================================
