-------------------------- MODULE GitlabConnections --------------------------
(***************************************************************************)
(* GitlabConnectionService: the OAuth tokens of the tool's users, kept in  *)
(* Postgres, and the tokens that GitLab honours.                           *)
(*                                                                         *)
(*   Links        POST /gitlab/oauth/start       (startOAuth)              *)
(*   Completions  POST /gitlab/oauth/complete    (completeOAuth)           *)
(*   Disconnects  DELETE /gitlab/connection      (disconnect)              *)
(*   Calls        every handler that calls GitLab (withToken, accessToken) *)
(*                                                                         *)
(* One step is one database statement or one call of GitLab; between two   *)
(* awaits of a handler everybody else may move.  A pair is an access token *)
(* with its refresh token: GitLab numbers them, honours a refresh token    *)
(* once, and a new pair replaces the one it was bought with.               *)
(***************************************************************************)
EXTENDS Naturals, FiniteSets, Functions

CONSTANTS
  Users, Identities,          \* tool users and GitLab accounts
  Connected,                  \* users with a connection at the start
  Linking,                    \* users who go through OAuth
  Instances,                  \* API processes
  Links, Completions, Disconnects, Calls,    \* request ids
  MaxPairs,                   \* bound on the pairs GitLab issues
  MaxLosses,                  \* bound on lost answers and lost revocations
  None

ASSUME UsersAssumption == Connected \subseteq Users /\ Linking \subseteq Users
ASSUME BoundsAssumption ==
  /\ MaxPairs \in Nat /\ MaxLosses \in Nat
  /\ IsFiniteSet(Connected) /\ Cardinality(Connected) <= MaxPairs

VARIABLES
  conn,         \* conn[u]: the GitlabConnection row of u, or None
  oauth,        \* oauth[s]: the GitlabOAuthState row created by link s
  live,         \* the pairs GitLab honours
  issued,       \* how many pairs GitLab has issued
  due,          \* pairs that expire within REFRESH_MARGIN_MS, or have expired
  lost,         \* pairs an unanswered or failed call of GitLab left behind
  losses,       \* how many such calls there were
  refreshing,   \* refreshing[i, u]: the call whose refresh is in flight in process i
  pc, local     \* per request: its next step and what it read or received

vars == <<conn, oauth, live, issued, due, lost, losses, refreshing, pc, local>>
gitlab == <<live, issued, due, lost, losses>>

Requests == Links \cup Completions \cup Disconnects \cup Calls
Pairs == 1 .. MaxPairs
\* id names the row: the pair it was inserted with.  A relink keeps the row, a
\* reconnection after a disconnection inserts a new one.
Connection == [id : Pairs, pair : Pairs, identity : Identities,
               state : {"ACTIVE", "NEEDS_RECONNECT"}]
ASSUME NoneAssumption == None \notin Calls \cup Links /\ None \notin Pairs /\ None \notin Connection
OAuthState == [user : Linking \cup {None}, state : {"absent", "open", "used"}]
\* row: the connection as last read; token: the pair the request holds.
Local == [user : Users \cup {None}, instance : Instances \cup {None}, link : Links \cup {None},
          identity : Identities \cup {None}, row : Connection \cup {None},
          token : Pairs \cup {None}, leader : Calls \cup {None}]
Blank == [user |-> None, instance |-> None, link |-> None, identity |-> None, row |-> None,
          token |-> None, leader |-> None]

RefreshSteps == {"reread", "send", "rejected", "mark", "latest", "write", "revoke", "after"}
Ends == {"done", "refused"}
Steps == {"new", "read", "joined", "use", "mark user", "create", "exchange", "check", "previous",
          "upsert", "retire", "discard"} \cup RefreshSteps \cup Ends

TypeOK ==
  /\ conn \in [Users -> Connection \cup {None}]
  /\ oauth \in [Links -> OAuthState]
  /\ issued \in 0 .. MaxPairs
  /\ live \subseteq 1 .. issued
  /\ due \subseteq 1 .. issued
  /\ lost \subseteq 1 .. issued
  /\ losses \in 0 .. MaxLosses
  /\ refreshing \in [Instances \X Users -> Calls \cup {None}]
  /\ pc \in [Requests -> Steps]
  /\ local \in [Requests -> Local]

\* Every connected user has a GitLab account of their own and a live pair.
Init ==
  /\ issued = Cardinality(Connected)
  /\ \E pair \in [Connected -> 1 .. issued], identity \in [Connected -> Identities] :
       /\ IsInjective(pair) /\ IsInjective(identity)
       /\ conn = [u \in Users |->
            IF u \in Connected THEN [id |-> pair[u], pair |-> pair[u],
                                     identity |-> identity[u], state |-> "ACTIVE"]
                               ELSE None]
  /\ live = 1 .. issued
  /\ oauth = [s \in Links |-> [user |-> None, state |-> "absent"]]
  /\ due = {} /\ lost = {} /\ losses = 0
  /\ refreshing = [x \in Instances \X Users |-> None]
  /\ pc = [q \in Requests |-> "new"]
  /\ local = [q \in Requests |-> Blank]

Goto(q, step) == pc' = [pc EXCEPT ![q] = step]
Keep(q, field, value) == local' = [local EXCEPT ![q][field] = value]

------------------------------------------------------------------------------
(* GitLab's side: what its OAuth endpoints do *)

\* The pair that an answer of POST /oauth/token brings.
NewPair == issued + 1

\* A new pair; old, when it is a pair, stops being honoured.
Issue(old) ==
  /\ issued < MaxPairs          \* bound
  /\ issued' = NewPair
  /\ live' = (live \ {old}) \cup {NewPair}

\* The answer to a call is lost: nobody knows the pairs it was about.
Lose(pairs) ==
  /\ losses < MaxLosses         \* bound
  /\ losses' = losses + 1
  /\ lost' = lost \cup pairs

\* A best-effort revocation: it may fail, and then the pair stays valid.
Revoke(p) ==
  /\ \/ live' = live \ {p} /\ UNCHANGED <<lost, losses>>
     \/ Lose({p}) /\ UNCHANGED live
  /\ UNCHANGED <<issued, due>>

\* Two hours pass for a pair.
Age(p) ==
  /\ p \notin due
  /\ due' = due \cup {p}
  /\ UNCHANGED <<conn, oauth, live, issued, lost, losses, refreshing, pc, local>>

------------------------------------------------------------------------------
(* startOAuth *)

\* Drops this user's unused states.
DropOldLinks(s) ==
  /\ pc[s] = "new"
  /\ \E u \in Linking :
       /\ oauth' = [t \in Links |-> IF oauth[t].user = u /\ oauth[t].state = "open"
                                      THEN [oauth[t] EXCEPT !.state = "absent"]
                                      ELSE oauth[t]]
       /\ Keep(s, "user", u)
  /\ Goto(s, "create")
  /\ UNCHANGED <<conn, gitlab, refreshing>>

CreateLink(s) ==
  /\ pc[s] = "create"
  /\ oauth' = [oauth EXCEPT ![s] = [user |-> local[s].user, state |-> "open"]]
  /\ Goto(s, "done")
  /\ UNCHANGED <<conn, gitlab, refreshing, local>>

\* Ten minutes pass: an expired state can no longer be claimed.
ExpireLink(s) ==
  /\ oauth[s].state = "open"
  /\ oauth' = [oauth EXCEPT ![s].state = "absent"]
  /\ UNCHANGED <<conn, gitlab, refreshing, pc, local>>

------------------------------------------------------------------------------
(* completeOAuth *)

\* Mutant of ClaimLink: a used state is claimed again.
ClaimLinkAgain(k) ==
  /\ pc[k] = "new"
  /\ \E s \in Links :
       /\ oauth[s].state # "absent"
       /\ oauth' = [oauth EXCEPT ![s].state = "used"]
       /\ local' = [local EXCEPT ![k].user = oauth[s].user, ![k].link = s]
  /\ Goto(k, "exchange")
  /\ UNCHANGED <<conn, gitlab, refreshing>>

\* The state is looked up for its owner and claimed: UPDATE ... WHERE usedAt IS NULL.  The user may
\* have denied the authorization.
ClaimLink(k) ==
  /\ pc[k] = "new"
  /\ \E s \in Links :
       IF oauth[s].state = "open"
         THEN /\ oauth' = [oauth EXCEPT ![s].state = "used"]
              /\ local' = [local EXCEPT ![k].user = oauth[s].user, ![k].link = s]
              /\ Goto(k, "exchange") \/ Goto(k, "refused")
         ELSE Goto(k, "refused") /\ UNCHANGED <<oauth, local>>
  /\ UNCHANGED <<conn, gitlab, refreshing>>

\* exchangeCode and getCurrentUser: GitLab issues a pair for the account of whoever authorized.
ExchangeCode(k) ==
  /\ pc[k] = "exchange"
  /\ \/ /\ Issue(None) /\ UNCHANGED <<lost, losses>>
        /\ \/ \E i \in Identities :
                local' = [local EXCEPT ![k].token = NewPair, ![k].identity = i] /\ Goto(k, "check")
           \/ Keep(k, "token", NewPair) /\ Goto(k, "discard")
     \/ Issue(None) /\ Lose({NewPair}) /\ Goto(k, "refused") /\ UNCHANGED local
     \/ Goto(k, "refused") /\ UNCHANGED <<live, issued, lost, losses, local>>
  /\ UNCHANGED <<conn, oauth, due, refreshing>>

LinkedToOther(k) ==
  \E u \in Users \ {local[k].user} : conn[u] # None /\ conn[u].identity = local[k].identity

\* Mutant of CheckOther: the new token is not revoked.
CheckOtherForgets(k) ==
  /\ pc[k] = "check"
  /\ Goto(k, IF LinkedToOther(k) THEN "refused" ELSE "previous")
  /\ UNCHANGED <<conn, oauth, gitlab, refreshing, local>>

CheckOther(k) ==
  /\ pc[k] = "check"
  /\ Goto(k, IF LinkedToOther(k) THEN "discard" ELSE "previous")
  /\ UNCHANGED <<conn, oauth, gitlab, refreshing, local>>

ReadPrevious(k) ==
  /\ pc[k] = "previous"
  /\ Keep(k, "row", conn[local[k].user])
  /\ Goto(k, "upsert")
  /\ UNCHANGED <<conn, oauth, gitlab, refreshing>>

\* The unique index on gitlabUserId: another user's row holds the account the upsert would write.
ViolatesGitlabUserId(k) == LinkedToOther(k)

\* Whether a row holds a token.
StoresToken(row, p) == row.pair = p

\* The upsert; the unique index may reject it.  The token the user had before is revoked next,
\* unless it is the one just stored.
Upsert(k) ==
  LET u == local[k].user IN
  /\ pc[k] = "upsert"
  /\ IF ViolatesGitlabUserId(k)
       THEN Goto(k, "discard") /\ UNCHANGED conn
       ELSE /\ conn' = [conn EXCEPT ![u] =
                 [id |-> IF conn[u] = None THEN local[k].token ELSE conn[u].id,
                  pair |-> local[k].token, identity |-> local[k].identity, state |-> "ACTIVE"]]
            /\ Goto(k, IF local[k].row = None \/ StoresToken(local[k].row, local[k].token)
                        THEN "done" ELSE "retire")
  /\ UNCHANGED <<oauth, gitlab, refreshing, local>>

\* Revokes the token the user had before, as read by ReadPrevious.
RetirePrevious(k) ==
  /\ pc[k] = "retire"
  /\ Revoke(local[k].row.pair)
  /\ Goto(k, "done")
  /\ UNCHANGED <<conn, oauth, refreshing, local>>

\* Revokes the token just issued.
Discard(k) ==
  /\ pc[k] = "discard"
  /\ Revoke(local[k].token)
  /\ Goto(k, "refused")
  /\ UNCHANGED <<conn, oauth, refreshing, local>>

------------------------------------------------------------------------------
(* disconnect *)

\* Mutant of DeleteConnection: the token is revoked while the row is still there.
DeleteConnectionAfterRevoking(d) ==
  /\ pc[d] = "new"
  /\ \E u \in Users :
       /\ conn[u] # None
       /\ live' = live \ {conn[u].pair}
       /\ local' = [local EXCEPT ![d].user = u, ![d].row = conn[u]]
  /\ Goto(d, "done")
  /\ UNCHANGED <<conn, oauth, issued, due, lost, losses, refreshing>>

DeleteConnection(d) ==
  /\ pc[d] = "new"
  /\ \E u \in Users :
       /\ conn' = [conn EXCEPT ![u] = None]
       /\ local' = [local EXCEPT ![d].user = u, ![d].row = conn[u]]
       /\ Goto(d, IF conn[u] = None THEN "done" ELSE "retire")
  /\ UNCHANGED <<oauth, gitlab, refreshing>>

RevokeDeleted(d) ==
  /\ pc[d] = "retire"
  /\ Revoke(local[d].row.pair)
  /\ Goto(d, "done")
  /\ UNCHANGED <<conn, oauth, refreshing, local>>

------------------------------------------------------------------------------
(* accessToken and refresh *)

\* requireConnection: the row as it is when Postgres reads it.
ReadConnection(c) ==
  /\ pc[c] = "new"
  /\ \E u \in Users, i \in Instances :
       /\ local' = [local EXCEPT ![c].user = u, ![c].instance = i, ![c].row = conn[u]]
       /\ Goto(c, IF conn[u] # None /\ conn[u].state = "ACTIVE" THEN "read" ELSE "refused")
  /\ UNCHANGED <<conn, oauth, gitlab, refreshing>>

Here(c) == <<local[c].instance, local[c].user>>

\* Mutant of Decide: a refresh in flight is not joined.
DecideAlone(c) ==
  /\ pc[c] = "read"
  /\ IF local[c].row.pair \notin due
       THEN Keep(c, "token", local[c].row.pair) /\ Goto(c, "use") /\ UNCHANGED refreshing
       ELSE /\ refreshing' = [refreshing EXCEPT ![Here(c)] = c]
            /\ Goto(c, "reread") /\ UNCHANGED local
  /\ UNCHANGED <<conn, oauth, gitlab>>

\* Mutant of Decide: the map is not keyed by the user, so anybody's refresh is joined.
DecideJoinsAnybody(c) ==
  /\ pc[c] = "read"
  /\ \/ /\ local[c].row.pair \notin due
        /\ Keep(c, "token", local[c].row.pair)
        /\ Goto(c, "use")
        /\ UNCHANGED refreshing
     \/ /\ local[c].row.pair \in due
        /\ \E u \in Users :
             /\ refreshing[local[c].instance, u] # None
             /\ Keep(c, "leader", refreshing[local[c].instance, u])
        /\ Goto(c, "joined")
        /\ UNCHANGED refreshing
     \/ /\ local[c].row.pair \in due
        /\ \A u \in Users : refreshing[local[c].instance, u] = None
        /\ refreshing' = [refreshing EXCEPT ![Here(c)] = c]
        /\ Goto(c, "reread")
        /\ UNCHANGED local
  /\ UNCHANGED <<conn, oauth, gitlab>>

\* A token with more than a minute left is used; otherwise the refresh in flight in this process is
\* joined, or a new one started.
Decide(c) ==
  /\ pc[c] = "read"
  /\ \/ /\ local[c].row.pair \notin due
        /\ Keep(c, "token", local[c].row.pair)
        /\ Goto(c, "use")
        /\ UNCHANGED refreshing
     \/ /\ local[c].row.pair \in due /\ refreshing[Here(c)] # None
        /\ Keep(c, "leader", refreshing[Here(c)])
        /\ Goto(c, "joined")
        /\ UNCHANGED refreshing
     \/ /\ local[c].row.pair \in due /\ refreshing[Here(c)] = None
        /\ refreshing' = [refreshing EXCEPT ![Here(c)] = c]
        /\ Goto(c, "reread")
        /\ UNCHANGED local
  /\ UNCHANGED <<conn, oauth, gitlab>>

\* The promise of the joined refresh settles: with its token, or with its error.
Joined(c) ==
  LET l == local[c].leader IN
  /\ pc[c] = "joined"
  /\ pc[l] \notin RefreshSteps
  /\ IF local[l].token # None THEN Keep(c, "token", local[l].token) /\ Goto(c, "use")
                              ELSE Goto(c, "refused") /\ UNCHANGED local
  /\ UNCHANGED <<conn, oauth, gitlab, refreshing>>

\* refresh ends: its promise settles and leaves the map.
Leave(c) == refreshing' = [refreshing EXCEPT ![Here(c)] = None]
SettleWith(c, p) == Keep(c, "token", p) /\ Goto(c, "use") /\ Leave(c)
Fail(c) == Keep(c, "token", None) /\ Goto(c, "refused") /\ Leave(c)

\* The row c read, if it is still there, and whether it still holds the pair c saw.
Row(c) == LET row == conn[local[c].user]
          IN IF row # None /\ row.id = local[c].row.id THEN row ELSE None
SamePair(c) == Row(c) # None /\ Row(c).pair = local[c].row.pair

\* Somebody else may have refreshed, relinked or disconnected since c read the row.
Reread(c) ==
  /\ pc[c] = "reread"
  /\ \/ Row(c) = None /\ Fail(c)
     \/ /\ Row(c) # None
        /\ ~SamePair(c) \/ Row(c).pair \notin due
        /\ SettleWith(c, Row(c).pair)
     \/ SamePair(c) /\ Row(c).pair \in due /\ Goto(c, "send") /\ UNCHANGED <<local, refreshing>>
  /\ UNCHANGED <<conn, oauth, gitlab>>

\* refreshTokens: GitLab rotates a pair it honours.  It answers 400 or 401 to any other, and to one it
\* honours when it refuses the client (isRefreshRejected tells them apart no more than this does).
\* Its answer may be lost, and it may be down; neither marks the connection.
SendRefresh(c) ==
  LET p == local[c].row.pair IN
  /\ pc[c] = "send"
  /\ \/ /\ p \in live
        /\ Issue(p)
        /\ Keep(c, "token", NewPair)
        /\ Goto(c, "write")
        /\ UNCHANGED <<lost, losses, refreshing>>
     \/ p \in live /\ Issue(p) /\ Lose({p, NewPair}) /\ Fail(c)
     \/ Goto(c, "rejected") /\ UNCHANGED <<live, issued, lost, losses, refreshing, local>>
     \/ Fail(c) /\ UNCHANGED <<live, issued, lost, losses>>
  /\ UNCHANGED <<conn, oauth, due>>

\* Mutant of AfterRejection: the rejected token is tried again.
AfterRejectionRetry(c) ==
  /\ pc[c] = "rejected"
  /\ Goto(c, "send")
  /\ UNCHANGED <<conn, oauth, gitlab, refreshing, local>>

\* GitLab rejected the refresh: somebody else may have rotated the token.
AfterRejection(c) ==
  /\ pc[c] = "rejected"
  /\ IF Row(c) # None /\ ~SamePair(c) THEN SettleWith(c, Row(c).pair)
                                      ELSE Goto(c, "mark") /\ UNCHANGED <<refreshing, local>>
  /\ UNCHANGED <<conn, oauth, gitlab>>

\* Marks the connection if it still holds the rejected token.
MarkRejected(c) ==
  /\ pc[c] = "mark"
  /\ IF SamePair(c)
       THEN conn' = [conn EXCEPT ![local[c].user].state = "NEEDS_RECONNECT"] /\ Fail(c)
       ELSE Goto(c, "latest") /\ UNCHANGED <<conn, refreshing, local>>
  /\ UNCHANGED <<oauth, gitlab>>

TakeLatest(c) ==
  /\ pc[c] = "latest"
  /\ IF Row(c) = None THEN Fail(c) ELSE SettleWith(c, Row(c).pair)
  /\ UNCHANGED <<conn, oauth, gitlab>>

StoreRefreshed(c) ==
  conn' = [conn EXCEPT ![local[c].user].pair = local[c].token, ![local[c].user].state = "ACTIVE"]

\* Mutant of WriteRefreshed: a lost race is not cleaned up.
WriteRefreshedOrForget(c) ==
  /\ pc[c] = "write"
  /\ IF SamePair(c) THEN StoreRefreshed(c) /\ SettleWith(c, local[c].token)
                    ELSE Fail(c) /\ UNCHANGED conn
  /\ UNCHANGED <<oauth, gitlab>>

\* UPDATE ... WHERE refreshTokenEnc is the one this refresh spent.
WriteRefreshed(c) ==
  /\ pc[c] = "write"
  /\ IF SamePair(c) THEN StoreRefreshed(c) /\ SettleWith(c, local[c].token)
                    ELSE Goto(c, "revoke") /\ UNCHANGED <<conn, refreshing, local>>
  /\ UNCHANGED <<oauth, gitlab>>

RevokeUnstored(c) ==
  /\ pc[c] = "revoke"
  /\ Revoke(local[c].token)
  /\ Goto(c, "after")
  /\ UNCHANGED <<conn, oauth, refreshing, local>>

AfterLostRace(c) ==
  /\ pc[c] = "after"
  /\ IF Row(c) # None /\ Row(c).state = "ACTIVE" THEN SettleWith(c, Row(c).pair) ELSE Fail(c)
  /\ UNCHANGED <<conn, oauth, gitlab>>

------------------------------------------------------------------------------
(* withToken: the handler's own calls *)

\* GitLab may answer 401, whatever its reason.
Use(c) ==
  /\ pc[c] = "use"
  /\ \/ Goto(c, "done")
     \/ Goto(c, "mark user")
  /\ UNCHANGED <<conn, oauth, gitlab, refreshing, local>>

\* Mutant of MarkNeedsReconnect: a missing row is created.
MarkNeedsReconnectUpsert(c) ==
  /\ pc[c] = "mark user"
  /\ conn' = [conn EXCEPT ![local[c].user] =
                [state |-> "NEEDS_RECONNECT", pair |-> local[c].token, id |-> local[c].token]]
  /\ Goto(c, "refused")
  /\ UNCHANGED <<oauth, gitlab, refreshing, local>>

\* markNeedsReconnect: UPDATE ... WHERE userId, whatever the row holds by now.
MarkNeedsReconnect(c) ==
  /\ pc[c] = "mark user"
  /\ conn' = IF conn[local[c].user] = None THEN conn
             ELSE [conn EXCEPT ![local[c].user].state = "NEEDS_RECONNECT"]
  /\ Goto(c, "refused")
  /\ UNCHANGED <<oauth, gitlab, refreshing, local>>

------------------------------------------------------------------------------
Link(s) == DropOldLinks(s) \/ CreateLink(s)
Complete(k) ==
  \/ ClaimLink(k) \/ ExchangeCode(k) \/ CheckOther(k) \/ ReadPrevious(k) \/ Upsert(k)
  \/ RetirePrevious(k) \/ Discard(k)
Disconnect(d) == DeleteConnection(d) \/ RevokeDeleted(d)
Refresh(c) ==
  \/ Reread(c) \/ SendRefresh(c) \/ AfterRejection(c) \/ MarkRejected(c) \/ TakeLatest(c)
  \/ WriteRefreshed(c) \/ RevokeUnstored(c) \/ AfterLostRace(c)
Call(c) == ReadConnection(c) \/ Decide(c) \/ Joined(c) \/ Refresh(c) \/ Use(c) \/ MarkNeedsReconnect(c)

\* Every request was answered and every pair aged: the model is at its end.
Finished ==
  /\ \A q \in Requests : pc[q] \in Ends
  /\ UNCHANGED vars

Next ==
  \/ \E s \in Links : Link(s) \/ ExpireLink(s)
  \/ \E k \in Completions : Complete(k)
  \/ \E d \in Disconnects : Disconnect(d)
  \/ \E c \in Calls : Call(c)
  \/ \E p \in 1 .. issued : Age(p)
  \/ Finished

Spec == Init /\ [][Next]_vars

\* Every call that was received goes on; users may stop at any point.
FairSpec == Spec /\ \A c \in Calls : WF_vars(pc[c] # "new" /\ Call(c))

------------------------------------------------------------------------------
(* Properties *)

\* Who answers for a live pair: a row, or a request that will store or revoke it.
Stored(p) == \E u \in Users : conn[u] # None /\ conn[u].pair = p
Held(p) ==
  \/ \E c \in Calls : pc[c] \in {"write", "revoke"} /\ local[c].token = p
  \/ \E k \in Completions :
       pc[k] \in {"check", "previous", "upsert", "discard"} /\ local[k].token = p
  \/ \E q \in Completions \cup Disconnects : pc[q] = "retire" /\ local[q].row.pair = p

\* No token stays valid at GitLab once nobody knows it: every pair that was neither lost nor stored
\* is revoked, in whatever order refreshes, disconnections and relinks interleave (disconnect,
\* refresh, completeOAuth).
NoOrphanedToken == \A p \in live : Stored(p) \/ Held(p) \/ p \in lost

\* An ACTIVE connection holds a pair GitLab honours, unless a refresh is about to replace it or an
\* answer was lost (disconnect deletes the row before it revokes; refresh writes conditionally).
ActiveConnectionWorks ==
  \A u \in Users :
    conn[u] # None /\ conn[u].state = "ACTIVE" =>
      \/ conn[u].pair \in live \cup lost
      \/ \E c \in Calls : pc[c] = "write" /\ local[c].user = u /\ local[c].row.pair = conn[u].pair

\* Two users never come to hold one pair, neither at the same time nor one after the other: whatever a
\* request received, joined, re-read or read again after losing a race belongs to the user it acts for,
\* and no row holds what a request of another user once held (accessToken, refresh, completeOAuth).
TokensStayWithTheirUser ==
  \A q \in Requests : local[q].token # None =>
    /\ \A r \in Requests : local[r].token = local[q].token => local[r].user = local[q].user
    /\ \A u \in Users : conn[u] # None /\ conn[u].pair = local[q].token => u = local[q].user

\* A refresh gives up only if the connection is really lost: never while another refresh is about to
\* store the successor of the token (the refreshing map, refresh).
NobodyElseRefreshed ==
  [][\A c \in Calls :
       MarkRejected(c) /\ SamePair(c) =>
         ~\E o \in Calls \ {c} : /\ pc[o] = "write" /\ local[o].user = local[c].user
                                 /\ local[o].row.pair = local[c].row.pair]_vars

\* One authorization answers one completion, however often the browser sends it (completeOAuth).
LinkUsedOnce ==
  \A k, m \in Completions : k # m /\ local[k].link # None => local[k].link # local[m].link

\* A call that asked for a token gets one or an error: neither the refresh it joined nor its own
\* retries keep it waiting (accessToken).
EveryCallIsAnswered == \A c \in Calls : pc[c] # "new" ~> pc[c] \in Ends
==============================================================================
