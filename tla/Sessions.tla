------------------------------ MODULE Sessions ------------------------------
(***************************************************************************)
(* Sessions: a key of Redis that expires, and the access and refresh       *)
(* tokens that carry its id and expire on their own clock.                 *)
(*                                                                         *)
(* A login stores the key and signs both tokens; every authenticated       *)
(* request resets the key's time to live; a refresh signs another access   *)
(* token; a logout deletes the key.  An admin may block the account, or    *)
(* its owner delete it, between any two steps: neither touches Redis.      *)
(* The steps of a request are its calls to Redis and PostgreSQL.  Of the   *)
(* account only its standing matters here; Accounts models its row.        *)
(***************************************************************************)
EXTENDS Integers, FiniteSets

CONSTANTS
  Session,    \* session ids: uuid4 draws a fresh one at each login
  User,       \* accounts
  Req,        \* requests in flight
  NoSession,  \* no session
  NoUser,     \* no account
  Access,     \* access_token_expire_minutes: access tokens, and the Redis key
  Refresh,    \* refresh_token_expire_days
  Latency,    \* no request runs longer than this
  LastLogin,  \* bound: no login that can succeed begins after this time
  MaxTime     \* bound on the clock

ASSUME SessionsAssumption ==
  /\ NoSession \notin Session
  /\ NoUser \notin User

ASSUME TimesAssumption ==
  /\ Access \in Nat \ {0}
  /\ Refresh \in Nat \ {0}
  /\ Latency \in Nat \ {0}
  /\ LastLogin \in Nat
  /\ MaxTime \in Nat \ {0}

VARIABLES
  now,       \* the time, the same for Redis and for the signer of the tokens
  deadline,  \* when the key session:<id> expires; 0 if it was never set or is gone
  access,    \* when the latest access token of a session expires; 0 if none
  refresh,   \* when the refresh token of a session expires; 0 if none
  account,   \* whose session it is: the value of the key
  standing,  \* of the account's row: active, blocked or deleted
  pc,        \* where each request stands
  op,        \* what it is
  sid,       \* the session it is about
  user,      \* the account a login is for
  reply,     \* the answer that the last step sent, if it sent one
  begun,     \* history: when a request began
  fit,       \* history: whether its session was live then
  born,      \* history: when the session was stored; 0 if it was not
  barredAt   \* history: when the account last ceased to be active

redis == <<deadline, account, born>>
tokens == <<access, refresh>>
accounts == <<standing, barredAt>>
requests == <<pc, op, sid, user, begun, fit>>
vars == <<now, deadline, access, refresh, account, standing, pc, op, sid, user,
          reply, begun, fit, born, barredAt>>

-----------------------------------------------------------------------------
NoReply == [op |-> "none", sid |-> NoSession, code |-> 0]

\* Redis has the key and it has not expired.
Live(s) == now < deadline[s]

\* jwt.decode accepts a token that expires at t.
Valid(t) == now < t

At(r, what, stage) == pc[r] = stage /\ op[r] \in what

\* The request moves on within its handler.
Goto(r, stage) ==
  /\ pc' = [pc EXCEPT ![r] = stage]
  /\ reply' = NoReply
  /\ UNCHANGED <<op, sid, user, begun, fit>>

Answer(r, code) ==
  /\ pc' = [pc EXCEPT ![r] = "idle"]
  /\ op' = [op EXCEPT ![r] = "none"]
  /\ sid' = [sid EXCEPT ![r] = NoSession]
  /\ user' = [user EXCEPT ![r] = NoUser]
  /\ begun' = [begun EXCEPT ![r] = 0]
  /\ fit' = [fit EXCEPT ![r] = FALSE]
  /\ reply' = [op |-> op[r], sid |-> sid[r], code |-> code]

\* The answer changes nothing else.
Refuse(r, code) == Answer(r, code) /\ UNCHANGED <<now, redis, tokens, accounts>>

Start(r, what, s, u, stage) ==
  /\ pc[r] = "idle"
  /\ pc' = [pc EXCEPT ![r] = stage]
  /\ op' = [op EXCEPT ![r] = what]
  /\ sid' = [sid EXCEPT ![r] = s]
  /\ user' = [user EXCEPT ![r] = u]
  /\ begun' = [begun EXCEPT ![r] = now]
  /\ reply' = NoReply
  /\ UNCHANGED <<now, redis, tokens, accounts>>

Init ==
  /\ now = 1
  /\ deadline = [s \in Session |-> 0]
  /\ access = [s \in Session |-> 0]
  /\ refresh = [s \in Session |-> 0]
  /\ account = [s \in Session |-> NoUser]
  /\ standing = [u \in User |-> "active"]
  /\ pc = [r \in Req |-> "idle"]
  /\ op = [r \in Req |-> "none"]
  /\ sid = [r \in Req |-> NoSession]
  /\ user = [r \in Req |-> NoUser]
  /\ reply = NoReply
  /\ begun = [r \in Req |-> 0]
  /\ fit = [r \in Req |-> FALSE]
  /\ born = [s \in Session |-> 0]
  /\ barredAt = [u \in User |-> 0]

-----------------------------------------------------------------------------
(* Login *)

\* The bounds of an instance: a login that can succeed begins early enough, and
\* finds an unused id.
WithinBounds(u) ==
  \/ standing[u] = "deleted"
  \/ /\ now <= LastLogin
     /\ Cardinality({s \in Session : born[s] = 0})
          > Cardinality({q \in Req : pc[q] \in {"select", "store"}})

BeginLogin(r, u) ==
  /\ WithinBounds(u)
  /\ Start(r, "login", NoSession, u, "select")
  /\ fit' = [fit EXCEPT ![r] = FALSE]

\* login_user reads the row: UserNotFoundError, or BlockedUserError that ends as
\* DatabaseError.  Password and bonus are the business of Accounts.
LoginSelect(r) ==
  /\ At(r, {"login"}, "select")
  /\ \/ standing[user[r]] = "deleted" /\ Refuse(r, 404)
     \/ standing[user[r]] = "blocked" /\ Refuse(r, 500)
     \/ /\ standing[user[r]] = "active"
        /\ Goto(r, "store")
        /\ UNCHANGED <<now, redis, tokens, accounts>>

\* set_session under a new id.
StoreSession(r) ==
  /\ At(r, {"login"}, "store")
  /\ \E s \in Session :
       /\ born[s] = 0
       /\ deadline' = [deadline EXCEPT ![s] = now + Access]
       /\ account' = [account EXCEPT ![s] = user[r]]
       /\ born' = [born EXCEPT ![s] = now]
       /\ sid' = [sid EXCEPT ![r] = s]
  /\ pc' = [pc EXCEPT ![r] = "sign"]
  /\ reply' = NoReply
  /\ UNCHANGED <<now, tokens, accounts, op, user, begun, fit>>

\* create_tokens, once Redis has answered.
IssueTokens(r) ==
  /\ At(r, {"login"}, "sign")
  /\ access' = [access EXCEPT ![sid[r]] = now + Access]
  /\ refresh' = [refresh EXCEPT ![sid[r]] = now + Refresh]
  /\ Answer(r, 200)
  /\ UNCHANGED <<now, redis, accounts>>

-----------------------------------------------------------------------------
(* Requests with an access token *)

\* get_token_payload accepts the access token of s.
BeginUse(r, s) ==
  /\ Valid(access[s])
  /\ Start(r, "use", s, NoUser, "get")
  /\ fit' = [fit EXCEPT ![r] = Live(s)]

\* refresh_session: the endpoint's own access token, of session h, has to be
\* valid, and so has the refresh token of s that is exchanged.
BeginRefresh(r, h, s) ==
  /\ Valid(access[h])
  /\ Valid(refresh[s])
  /\ Start(r, "refresh", s, NoUser, "get")
  /\ fit' = [fit EXCEPT ![r] = Live(s)]

BeginLogout(r, s) ==
  /\ Valid(access[s])
  /\ Start(r, "logout", s, NoUser, "delete")
  /\ fit' = [fit EXCEPT ![r] = Live(s)]

\* A request with the access token of h, or a refresh of s with it, is refused
\* before any await: a token has expired.
RefuseToken(h, s) ==
  \E what \in {"use", "refresh", "logout"} :
    /\ access[h] # 0
    /\ IF what = "refresh"
       THEN refresh[s] # 0 /\ ~(Valid(access[h]) /\ Valid(refresh[s]))
       ELSE s = h /\ ~Valid(access[h])
    /\ reply' = [op |-> what, sid |-> s, code |-> 401]
    /\ UNCHANGED <<now, redis, tokens, accounts, requests>>

\* Mutant of GetSession: a missing key does not stop a request.
GetAnySession(r) ==
  /\ At(r, {"use", "refresh"}, "get")
  /\ Goto(r, IF op[r] = "use" THEN "extend" ELSE "load")
  /\ UNCHANGED <<now, redis, tokens, accounts>>

GetSession(r) ==
  /\ At(r, {"use", "refresh"}, "get")
  /\ IF Live(sid[r])
     THEN /\ Goto(r, IF op[r] = "use" THEN "extend" ELSE "load")
          /\ UNCHANGED <<now, redis, tokens, accounts>>
     ELSE Refuse(r, 401)

\* Mutants of Extended: SET with the new time to live, which brings a key back;
\* PERSIST, which leaves a key without one; the answer of TTL taken for one.
SetAgain(s) == now + Access
Persisted(s) == IF Live(s) THEN MaxTime + 1 ELSE deadline[s]
TimeToLive(s) == IF Live(s) THEN deadline[s] - now ELSE -2

\* EXPIRE resets the time to live of a key that exists.
Extended(s) == IF Live(s) THEN now + Access ELSE deadline[s]

\* extend_session, before anybody looks at the account.
ExtendSession(r) ==
  /\ At(r, {"use"}, "extend")
  /\ deadline' = [deadline EXCEPT ![sid[r]] = Extended(sid[r])]
  /\ Goto(r, "load")
  /\ UNCHANGED <<now, tokens, account, born, accounts>>

\* Mutant of LoadAccount: refresh_session does not look at is_blocked.
LoadUnlessDeleted(r) ==
  LET it == standing[account[sid[r]]] IN
  /\ At(r, {"use", "refresh"}, "load")
  /\ \/ it = "deleted" /\ Refuse(r, IF op[r] = "use" THEN 404 ELSE 401)
     \/ it = "blocked" /\ op[r] = "use" /\ Refuse(r, 403)
     \/ /\ it = "active" \/ (it = "blocked" /\ op[r] = "refresh")
        /\ Goto(r, "serve")
        /\ UNCHANGED <<now, redis, tokens, accounts>>

\* get_current_user_obj, or refresh_session, reads the row.  BlockedUserError
\* is caught by nobody on the way from refresh_session to the client.
LoadAccount(r) ==
  LET it == standing[account[sid[r]]] IN
  /\ At(r, {"use", "refresh"}, "load")
  /\ \/ it = "deleted" /\ Refuse(r, IF op[r] = "use" THEN 404 ELSE 401)
     \/ it = "blocked" /\ Refuse(r, IF op[r] = "use" THEN 403 ELSE 500)
     \/ /\ it = "active"
        /\ Goto(r, "serve")
        /\ UNCHANGED <<now, redis, tokens, accounts>>

\* The endpoint's own work, up to its answer.
Respond(r) == At(r, {"use"}, "serve") /\ Refuse(r, 200)

\* Mutant of IssueAccess: the refresh token is rotated along.
RotateRefresh(r) ==
  /\ At(r, {"refresh"}, "serve")
  /\ access' = [access EXCEPT ![sid[r]] = now + Access]
  /\ refresh' = [refresh EXCEPT ![sid[r]] = now + Refresh]
  /\ Answer(r, 200)
  /\ UNCHANGED <<now, redis, accounts>>

IssueAccess(r) ==
  /\ At(r, {"refresh"}, "serve")
  /\ access' = [access EXCEPT ![sid[r]] = now + Access]
  /\ Answer(r, 200)
  /\ UNCHANGED <<now, redis, refresh, accounts>>

\* delete_session; logout asks neither whether the key exists nor who logs out.
DeleteSession(r) ==
  /\ At(r, {"logout"}, "delete")
  /\ deadline' = [deadline EXCEPT ![sid[r]] = 0]
  /\ Answer(r, 200)
  /\ UNCHANGED <<now, account, born, tokens, accounts>>

-----------------------------------------------------------------------------
(* The rest of the world *)

\* Redis or PostgreSQL fails, or the process dies, before the next step.
Abort(r) == pc[r] # "idle" /\ Refuse(r, 500)

\* update_block_status or soft_delete_user commits; nobody revives a deleted row.
Change(u, to) ==
  /\ standing[u] # to
  /\ standing[u] # "deleted"
  /\ standing' = [standing EXCEPT ![u] = to]
  /\ barredAt' = [barredAt EXCEPT ![u] = IF standing[u] = "active" THEN now ELSE @]
  /\ reply' = NoReply
  /\ UNCHANGED <<now, redis, tokens, requests>>

\* Redis comes back without its keys.  That a crash restores an older snapshot
\* from the volume, with sessions that were logged out since, is left out.
RedisRestart ==
  /\ \E s \in Session : Live(s)
  /\ deadline' = [s \in Session |-> 0]
  /\ reply' = NoReply
  /\ UNCHANGED <<now, account, born, tokens, accounts, requests>>

\* Time passes; requests that have run for Latency end first.
Tick ==
  /\ now < MaxTime
  /\ \A r \in Req : pc[r] # "idle" => now < begun[r] + Latency
  /\ now' = now + 1
  /\ reply' = NoReply
  /\ UNCHANGED <<redis, tokens, accounts, requests>>

Running(r) ==
  \/ LoginSelect(r) \/ StoreSession(r) \/ IssueTokens(r)
  \/ GetSession(r) \/ ExtendSession(r) \/ LoadAccount(r)
  \/ Respond(r) \/ IssueAccess(r) \/ DeleteSession(r)

Begin(r) ==
  \/ \E u \in User : BeginLogin(r, u)
  \/ \E s \in Session : BeginUse(r, s) \/ BeginLogout(r, s)
  \/ \E h, s \in Session : BeginRefresh(r, h, s)

Next ==
  \/ \E r \in Req : Begin(r) \/ Running(r) \/ Abort(r)
  \/ \E h, s \in Session : RefuseToken(h, s)
  \/ \E u \in User, to \in {"active", "blocked", "deleted"} : Change(u, to)
  \/ RedisRestart
  \/ Tick

Spec == Init /\ [][Next]_vars

\* The event loop runs what is ready, and time passes.
Fairness == WF_vars(Tick) /\ \A r \in Req : WF_vars(Running(r))

FairSpec == Spec /\ Fairness

-----------------------------------------------------------------------------
(* What should hold *)

Stage == {"idle", "select", "store", "sign", "get", "extend", "load", "serve",
          "delete"}
Op == {"none", "login", "use", "refresh", "logout"}

StoreType ==
  /\ now \in 1..MaxTime
  /\ deadline \in [Session -> Nat]
  /\ access \in [Session -> Nat]
  /\ refresh \in [Session -> Nat]
  /\ account \in [Session -> User \cup {NoUser}]
  /\ born \in [Session -> 0..MaxTime]
  /\ standing \in [User -> {"active", "blocked", "deleted"}]
  /\ barredAt \in [User -> 0..MaxTime]

RequestType ==
  /\ pc \in [Req -> Stage]
  /\ op \in [Req -> Op]
  /\ sid \in [Req -> Session \cup {NoSession}]
  /\ user \in [Req -> User \cup {NoUser}]
  /\ reply \in [op : Op, sid : Session \cup {NoSession}, code : Nat]
  /\ begun \in [Req -> 0..MaxTime]
  /\ fit \in [Req -> BOOLEAN]

\* Every variable has its type.
TypeOK == StoreType /\ RequestType

MaxLife == Refresh + 2 * Access + 3 * Latency - 2

\* The sliding window slides only as long as tokens last: however a client uses
\* and refreshes its session, it dies at most this long after the login.
AbsoluteLifetime ==
  \A s \in Session : born[s] # 0 /\ Live(s) => now < born[s] + MaxLife

\* Blocking or deleting an account leaves its sessions in Redis, and the owner's
\* refused requests still extend them; yet no access token is signed any more
\* except by requests in flight, and the last one bounds the last extension.
BarredSessionDies ==
  \A s \in Session :
    /\ born[s] # 0
    /\ standing[account[s]] # "active"
    /\ Live(s)
    => now < barredAt[account[s]] + 2 * Access + 2 * Latency - 1

\* A request sent after its session was logged out, expired or lost, or with the
\* refresh token of such a session, is refused at get_session: nothing that runs
\* meanwhile revives the key.
LateRequestsRefused ==
  \A r \in Req : pc[r] \in {"extend", "load", "serve"} => fit[r]

\* What the contract sees of a state: a session is live until the clock reaches
\* its key's deadline, and a request presents one if it has to find it live.
Presents(r) == op[r] \in {"use", "refresh"}

Phase == [s \in Session |-> IF born[s] = 0 THEN "unborn"
                            ELSE IF Live(s) THEN "live" ELSE "over"]
Asked == [r \in Req |-> IF Presents(r) THEN sid[r] ELSE NoSession]
Fit == [r \in Req |-> Presents(r) /\ fit[r]]
Served == {r \in Req : pc[r] = "serve"}

Contract == INSTANCE SessionContract WITH
  phase <- Phase, asked <- Asked, fit <- Fit, served <- Served

\* Tokens, keys and clocks implement the contract of a session.
ImplementsContract == Contract!Spec

\* Every session comes to an end.
SessionsEnd == \A s \in Session : Live(s) ~> ~Live(s)

-----------------------------------------------------------------------------
(* What the repository says and the code does not do *)

\* app/api/v1/endpoints/auth.py:88 "Endpoint to exchange a refresh token for a
\* new access token": as long as the refresh token and its session are alive and
\* the account is active, the exchange is not refused as unauthenticated.
RefreshTokenSuffices ==
  [][ reply'.op = "refresh" =>
        \A s \in Session :
          /\ reply'.sid = s
          /\ Valid(refresh[s])
          /\ Live(s)
          /\ standing[account[s]] = "active"
          => reply'.code # 401 ]_vars
=============================================================================
