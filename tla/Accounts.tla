------------------------------ MODULE Accounts ------------------------------
(***************************************************************************)
(* The request handlers that read and write the users table, running       *)
(* concurrently against PostgreSQL at its default isolation level, READ    *)
(* COMMITTED.                                                              *)
(*                                                                         *)
(* Every handler works on a copy of the row: get_async_session opens one   *)
(* AsyncSession per request, get_current_user_obj (or the service) loads   *)
(* the row into its identity map, the handler computes on that copy, and   *)
(* commit() writes back the columns that differ from what was loaded.  The *)
(* steps of this module are the stretches of a handler between two awaits  *)
(* that touch shared state; an UPDATE and the COMMIT that follows it are   *)
(* one step, because nobody sees the UPDATE before the COMMIT.             *)
(***************************************************************************)
EXTENDS Integers, FiniteSets

CONSTANTS
  UserId,       \* the primary keys the table can hold (bounds registrations)
  Seeded,       \* rows that exist before the first request
  Admins,       \* rows whose role is Role.ADMIN: no handler writes that column
  NullBalance,  \* admins whose balance is NULL: no handler changes that
  Named,        \* seeded rows with a first and a last name
  Scheme,       \* hash formats of the seeded rows, and the one hashed to now
  Address,      \* the e-mail addresses that clients use
  LongAddress,  \* those the prefix "deleted_<time>_" pushes beyond String(255)
  Password,     \* the passwords that clients use
  Req,          \* requests in flight
  NoReq,        \* no request: the row is not locked
  NoUser,       \* no row
  Handlers,     \* the operations clients call in this instance
  Bonus,        \* what a login adds to the balance (100 cents)
  Amount,       \* amounts a client asks to withdraw (WithdrawRequest: gt=0)
  MaxBalance,   \* the largest value of the Integer column
  MaxLogins,    \* bound: no login starts once an account has had this many
  MaxClock      \* bound on the seconds that pass

ASSUME RowsAssumption ==
  /\ Seeded \subseteq UserId
  /\ Admins \subseteq Seeded
  /\ NullBalance \subseteq Admins
  /\ Named \subseteq Seeded
  /\ NoUser \notin UserId
  /\ NoReq \notin Req

ASSUME ClientsAssumption ==
  /\ {"argon2"} \subseteq Scheme
  /\ Address # {}
  /\ Password # {}
  /\ Bonus \in Nat \ {0}
  /\ Amount \subseteq Nat \ {0}
  /\ MaxBalance \in Nat
  /\ MaxLogins \in Nat
  /\ MaxClock \in Nat \ {0}

VARIABLES
  users,        \* the committed users table
  registered,   \* the primary keys in use
  lock,         \* the request that holds the row lock, by row
  clock,        \* wall clock in whole seconds, as soft_delete_user reads it
  pc,           \* where each request stands
  job,          \* what each request asks for
  open,         \* the row a request has loaded to write it
  snap,         \* that row as the request loaded it
  reply,        \* the answer that the last step sent, if it sent one
  granted,      \* history: login bonuses committed, by account
  paid,         \* history: total withdrawn, by account
  sessions,     \* history: sessions created, by account
  lastPw,       \* history: the password last set by register or change
  overlapped,   \* history: rows that two requests had open at the same time
  adminOverlap, \* history: two block requests were in flight together
  barred        \* history: accounts blocked or deleted since a request began

table == <<users, registered, lock>>
requests == <<pc, job, open, snap>>
ledger == <<granted, paid, sessions>>
history == <<granted, paid, sessions, lastPw, overlapped, adminOverlap, barred>>
vars == <<users, registered, lock, clock, pc, job, open, snap, reply,
          granted, paid, sessions, lastPw, overlapped, adminOverlap, barred>>

-----------------------------------------------------------------------------
(* Rows *)

NameColumn == {"first_name", "last_name"}

Hash == [pw : Password, scheme : Scheme]

\* The column email: the address the client registered with, and 0 or the
\* second in the prefix that soft_delete_user put in front of it.
Email == [addr : Address, freed : 0..MaxClock]

\* A row of users.  names holds the name columns that are set, and block_at
\* tells whether that timestamp is set.  Role and NULL balances are constants.
Row == [email : Email, hash : Hash, names : SUBSET NameColumn,
        balance : 0..MaxBalance, blocked : BOOLEAN, block_at : BOOLEAN,
        deleted : BOOLEAN]

Argon2(p) == [pw |-> p, scheme |-> "argon2"]
Plain(a) == [addr |-> a, freed |-> 0]

\* What User(email, hashed_password) inserts: the column defaults.
NewRow(a, h) ==
  [email |-> Plain(a), hash |-> h, names |-> {}, balance |-> 0,
   blocked |-> FALSE, block_at |-> FALSE, deleted |-> FALSE]

BlankRow ==
  NewRow(CHOOSE a \in Address : TRUE, Argon2(CHOOSE p \in Password : TRUE))


\* One column of an UPDATE: it is in the statement only if the handler gave
\* the attribute another value than the one it loaded.
Dirty(loaded, new, current) == IF new # loaded THEN new ELSE current

\* Mutant of Flush: the UPDATE writes every column of the loaded object.
FlushWholeRow(current, loaded, new) == new

\* The row after the ORM has flushed a loaded object that the handler changed
\* into new, on top of what other transactions committed in the meantime.  Each
\* name is a column of its own; what value it has when it is set is left out.
Flush(current, loaded, new) ==
  [email    |-> Dirty(loaded.email, new.email, current.email),
   hash     |-> Dirty(loaded.hash, new.hash, current.hash),
   names    |-> (current.names \cup (new.names \ loaded.names))
                  \ (loaded.names \ new.names),
   balance  |-> Dirty(loaded.balance, new.balance, current.balance),
   blocked  |-> Dirty(loaded.blocked, new.blocked, current.blocked),
   block_at |-> Dirty(loaded.block_at, new.block_at, current.block_at),
   deleted  |-> Dirty(loaded.deleted, new.deleted, current.deleted)]

\* Mutant of EmailTaken: the column is declared without unique=True.
NoUniqueIndex(u, e) == FALSE

\* The unique index on email, seen by a write of e to row u.
EmailTaken(u, e) == \E v \in registered \ {u} : users[v].email = e

-----------------------------------------------------------------------------
(* Requests *)

Authenticated == {"withdraw", "profile", "password", "delete", "block"}

Job ==
       [op : {"register", "login"}, addr : Address, pw : Password]
  \cup [op : {"withdraw"}, uid : UserId, amount : Amount]
  \cup [op : {"profile"}, uid : UserId, names : SUBSET NameColumn]
  \cup [op : {"password"}, uid : UserId, old : Password, new : Password]
  \cup [op : {"delete"}, uid : UserId, since : 1..MaxClock]
  \cup [op : {"block"}, uid : UserId, target : UserId, flag : BOOLEAN]

\* since is not asked for: it is the second in which the deletion began.
NoJob == [op |-> "none"]

\* What the client reads: the exception that decided the answer and the status
\* code sent.  500 also stands for no answer at all.
NoReply == [op |-> "none", error |-> "none", code |-> 0]

\* Handlers run from "idle" through "auth" (get_current_user_obj is about to
\* read the caller's row) or "select" (the service's first SELECT), "handler",
\* "commit", and "after" (committed, still awaiting) or "session" (a login
\* that has committed and not yet stored its session).
Stage == {"idle", "auth", "select", "handler", "commit", "after", "session"}

\* Mutant of End: the AsyncSession is not closed and its transaction stays open.
EndUnclosed(r, error, code) ==
  /\ pc' = [pc EXCEPT ![r] = "idle"]
  /\ reply' = [op |-> job[r].op, error |-> error, code |-> code]
  /\ job' = [job EXCEPT ![r] = NoJob]
  /\ open' = [open EXCEPT ![r] = NoUser]
  /\ snap' = [snap EXCEPT ![r] = BlankRow]
  /\ barred' = [barred EXCEPT ![r] = FALSE]
  /\ UNCHANGED lock

\* The request is over: its AsyncSession is closed, which rolls back whatever
\* is uncommitted and releases the row lock.
End(r, error, code) ==
  /\ pc' = [pc EXCEPT ![r] = "idle"]
  /\ reply' = [op |-> job[r].op, error |-> error, code |-> code]
  /\ job' = [job EXCEPT ![r] = NoJob]
  /\ open' = [open EXCEPT ![r] = NoUser]
  /\ snap' = [snap EXCEPT ![r] = BlankRow]
  /\ lock' = [u \in UserId |-> IF lock[u] = r THEN NoReq ELSE lock[u]]
  /\ barred' = [barred EXCEPT ![r] = FALSE]

\* ... and leaves the table as it was.
Reject(r, error, code) ==
  /\ End(r, error, code)
  /\ UNCHANGED <<users, registered, clock, ledger, lastPw, overlapped,
                 adminOverlap>>

\* r has loaded row u and not yet written it.
Holds(r, u) == open[r] = u /\ pc[r] \in {"handler", "commit"}

\* r loads row u into its session, to write it later.
Load(r, u) ==
  /\ open' = [open EXCEPT ![r] = u]
  /\ snap' = [snap EXCEPT ![r] = users[u]]
  /\ overlapped' = IF \E q \in Req \ {r} : Holds(q, u)
                   THEN overlapped \cup {u} ELSE overlapped

\* r commits row as the new content of the row it has open, and goes on.
Commit(r, row, next) ==
  /\ users' = [users EXCEPT ![open[r]] = row]
  /\ pc' = [pc EXCEPT ![r] = next]
  /\ snap' = [snap EXCEPT ![r] = BlankRow]
  /\ reply' = NoReply
  /\ UNCHANGED <<job, open>>

\* No other transaction holds the lock on the row r is about to write.
MayWrite(r) == lock[open[r]] \in {NoReq, r}

At(r, op, stage) == pc[r] = stage /\ job[r].op = op

-----------------------------------------------------------------------------
(* Beginning, and the caller's row *)

Init ==
  /\ registered = Seeded
  /\ \E addr \in [Seeded -> Address], hash \in [Seeded -> Hash] :
       /\ \A u, v \in Seeded : addr[u] = addr[v] => u = v
       /\ users = [u \in UserId |->
                    IF u \in Seeded
                    THEN [NewRow(addr[u], hash[u]) EXCEPT
                           !.names = IF u \in Named THEN NameColumn ELSE {}]
                    ELSE BlankRow]
       /\ lastPw = [u \in UserId |->
                     IF u \in Seeded THEN hash[u].pw ELSE BlankRow.hash.pw]
  /\ lock = [u \in UserId |-> NoReq]
  /\ clock = 1
  /\ pc = [r \in Req |-> "idle"]
  /\ job = [r \in Req |-> NoJob]
  /\ open = [r \in Req |-> NoUser]
  /\ snap = [r \in Req |-> BlankRow]
  /\ reply = NoReply
  /\ granted = [u \in UserId |-> 0]
  /\ paid = [u \in UserId |-> 0]
  /\ sessions = [u \in UserId |-> 0]
  /\ overlapped = {}
  /\ adminOverlap = FALSE
  /\ barred = [r \in Req |-> FALSE]

\* The bounds of an instance: enough free keys for the registrations in flight,
\* and at most MaxLogins logins.
WithinBounds(j) ==
  /\ j.op = "register" =>
       Cardinality(UserId \ registered)
         > Cardinality({q \in Req : job[q].op = "register"})
  /\ j.op = "login" => \A u \in UserId : granted[u] < MaxLogins

\* A client sends a request.  The session of an authenticated one was found in
\* Redis: sessions outlive blocking and deletion, so any account may hold one.
Begin(r, j) ==
  /\ pc[r] = "idle"
  /\ j.op \in Handlers
  /\ WithinBounds(j)
  /\ j.op = "delete" => j.since = clock
  /\ job' = [job EXCEPT ![r] = j]
  /\ reply' = NoReply
  /\ \/ /\ j.op \in Authenticated
        /\ j.uid \in registered
        /\ pc' = [pc EXCEPT ![r] = "auth"]
        /\ barred' = [barred EXCEPT ![r] =
                       users[j.uid].blocked \/ users[j.uid].deleted]
     \/ /\ j.op \notin Authenticated
        /\ pc' = [pc EXCEPT ![r] = "select"]
        /\ UNCHANGED barred
  /\ UNCHANGED <<table, clock, open, snap, ledger, lastPw, overlapped,
                 adminOverlap>>

\* Mutant of Active: is_blocked is not looked at.
ActiveUnlessDeleted(row) == ~row.deleted

Active(row) == ~row.deleted /\ ~row.blocked

\* Mutant of NotOneself: block_user does not compare the ids.
Anybody(u, target) == TRUE

NotOneself(u, target) == target # u

\* get_current_user_obj refuses the caller, or get_current_admin does, or the
\* endpoint refuses before its first await.
RefuseCaller(r) ==
  LET u == job[r].uid IN
  /\ pc[r] = "auth"
  /\ \/ users[u].deleted /\ Reject(r, "HTTPException", 404)
     \/ ~users[u].deleted /\ users[u].blocked /\ Reject(r, "HTTPException", 403)
     \/ /\ Active(users[u]) /\ job[r].op = "block"
        /\ u \notin Admins /\ Reject(r, "HTTPException", 404)
     \/ /\ Active(users[u]) /\ job[r].op = "block"
        /\ u \in Admins /\ ~NotOneself(u, job[r].target)
        /\ Reject(r, "HTTPException", 400)
     \/ /\ Active(users[u]) /\ job[r].op = "withdraw"
        /\ u \in Admins /\ Reject(r, "HTTPException", 400)

\* The caller's own row is the one the handler goes on to change.
AdmitUser(r) ==
  LET u == job[r].uid IN
  /\ pc[r] = "auth"
  /\ Active(users[u])
  /\ job[r].op # "block"
  /\ job[r].op = "withdraw" => u \notin Admins
  /\ Load(r, u)
  /\ pc' = [pc EXCEPT ![r] = "handler"]
  /\ reply' = NoReply
  /\ UNCHANGED <<table, clock, job, ledger, lastPw, adminOverlap, barred>>

\* An admin is about to change another row.
AdmitAdmin(r) ==
  LET u == job[r].uid IN
  /\ pc[r] = "auth"
  /\ Active(users[u])
  /\ job[r].op = "block"
  /\ u \in Admins
  /\ NotOneself(u, job[r].target)
  /\ pc' = [pc EXCEPT ![r] = "handler"]
  /\ adminOverlap' = (\/ adminOverlap
                      \/ \E q \in Req \ {r} : /\ job[q].op = "block"
                                              /\ pc[q] \in {"handler", "commit"})
  /\ reply' = NoReply
  /\ UNCHANGED <<table, clock, job, open, snap, ledger, lastPw, overlapped,
                 barred>>

-----------------------------------------------------------------------------
(* Registration *)

\* The SELECT that looks for the address, and the hashing that follows.
RegisterSelect(r) ==
  /\ At(r, "register", "select")
  /\ IF \E u \in registered : users[u].email = Plain(job[r].addr)
     THEN Reject(r, "UserAlreadyExistsError", 400)
     ELSE /\ pc' = [pc EXCEPT ![r] = "commit"]
          /\ reply' = NoReply
          /\ UNCHANGED <<table, clock, job, open, snap, history>>

\* The INSERT: the unique index admits the address, or the handler rolls back
\* and raises DatabaseError.
RegisterInsert(r) ==
  LET email == Plain(job[r].addr) IN
  /\ At(r, "register", "commit")
  /\ \/ \E u \in UserId \ registered :
          /\ ~EmailTaken(u, email)
          /\ registered' = registered \cup {u}
          /\ users' = [users EXCEPT
                        ![u] = NewRow(job[r].addr, Argon2(job[r].pw))]
          /\ lastPw' = [lastPw EXCEPT ![u] = job[r].pw]
          /\ pc' = [pc EXCEPT ![r] = "after"]
          /\ reply' = NoReply
          /\ UNCHANGED <<lock, clock, job, open, snap, ledger, overlapped,
                         adminOverlap, barred>>
     \/ EmailTaken(NoUser, email) /\ Reject(r, "IntegrityError", 500)

-----------------------------------------------------------------------------
(* Login *)

\* The row whose address is the login's, as the SELECT finds it.
Found(r) == {u \in registered : users[u].email = Plain(job[r].addr)}

\* BlockedUserError is none of the exceptions that login_user lets through: it
\* becomes DatabaseError.  So does adding to a balance that is NULL.
RefuseLogin(r) ==
  /\ At(r, "login", "select")
  /\ \/ /\ \A u \in Found(r) : users[u].deleted
        /\ Reject(r, "UserNotFoundError", 404)
     \/ \E u \in Found(r) :
          /\ ~users[u].deleted
          /\ \/ users[u].blocked /\ Reject(r, "BlockedUserError", 500)
             \/ /\ ~users[u].blocked /\ users[u].hash.pw # job[r].pw
                /\ Reject(r, "InvalidPasswordError", 400)
             \/ /\ ~users[u].blocked /\ users[u].hash.pw = job[r].pw
                /\ u \in NullBalance /\ Reject(r, "TypeError", 500)

\* Mutant of AcceptLogin: the session is stored before the bonus is committed.
SessionFirst(r) ==
  /\ At(r, "login", "select")
  /\ \E u \in Found(r) \ NullBalance :
       /\ Active(users[u])
       /\ users[u].hash.pw = job[r].pw
       /\ Load(r, u)
  /\ pc' = [pc EXCEPT ![r] = "session"]
  /\ reply' = NoReply
  /\ UNCHANGED <<table, clock, job, ledger, lastPw, adminOverlap, barred>>

AcceptLogin(r) ==
  /\ At(r, "login", "select")
  /\ \E u \in Found(r) \ NullBalance :
       /\ Active(users[u])
       /\ users[u].hash.pw = job[r].pw
       /\ Load(r, u)
  /\ pc' = [pc EXCEPT ![r] = "commit"]
  /\ reply' = NoReply
  /\ UNCHANGED <<table, clock, job, ledger, lastPw, adminOverlap, barred>>

\* Mutant of LoggedIn: the bonus is added twice, as a retried login might.
TwoBonuses(row, p) == [row EXCEPT !.balance = @ + 2 * Bonus, !.hash = Argon2(p)]

\* The object at the commit: the bonus on top of the balance that was loaded,
\* and the hash recomputed with Argon2 if it was an old one.
LoggedIn(row, p) == [row EXCEPT !.balance = @ + Bonus, !.hash = Argon2(p)]

LoginCommit(r) ==
  LET u == open[r] IN
  /\ At(r, "login", "commit")
  /\ MayWrite(r)
  /\ snap[r].balance + Bonus <= MaxBalance
  /\ Commit(r, Flush(users[u], snap[r], LoggedIn(snap[r], job[r].pw)), "session")
  /\ granted' = [granted EXCEPT ![u] = @ + 1]
  /\ UNCHANGED <<registered, lock, clock, paid, sessions, lastPw, overlapped,
                 adminOverlap, barred>>

\* The UPDATE does not fit the Integer column.
LoginOverflow(r) ==
  /\ At(r, "login", "commit")
  /\ MayWrite(r)
  /\ snap[r].balance + Bonus > MaxBalance
  /\ Reject(r, "DataError", 500)

\* set_session stores the session, the tokens are made and the client answered.
LoginSession(r) ==
  /\ At(r, "login", "session")
  /\ sessions' = [sessions EXCEPT ![open[r]] = @ + 1]
  /\ End(r, "none", 200)
  /\ UNCHANGED <<users, registered, clock, granted, paid, lastPw, overlapped,
                 adminOverlap>>

-----------------------------------------------------------------------------
(* Withdrawal *)

\* Mutant of Covers: the balance is not checked.
AnyAmount(row, amount) == TRUE

Covers(row, amount) == amount <= row.balance

\* SELECT ... FOR UPDATE waits for the row lock and takes it.  The row it
\* returns is already in the identity map, so the attributes stay as
\* get_current_user_obj loaded them: the checks read snap, not users.
RefuseWithdrawal(r) ==
  /\ At(r, "withdraw", "handler")
  /\ MayWrite(r)
  /\ \/ snap[r].names # NameColumn /\ Reject(r, "Exception", 403)
     \/ /\ snap[r].names = NameColumn /\ ~Covers(snap[r], job[r].amount)
        /\ Reject(r, "ValueError", 400)

WithdrawLock(r) ==
  /\ At(r, "withdraw", "handler")
  /\ MayWrite(r)
  /\ snap[r].names = NameColumn
  /\ Covers(snap[r], job[r].amount)
  /\ lock' = [lock EXCEPT ![open[r]] = r]
  /\ pc' = [pc EXCEPT ![r] = "commit"]
  /\ reply' = NoReply
  /\ UNCHANGED <<users, registered, clock, job, open, snap, history>>

\* Mutant of Withdrawn: the new balance is never assigned.
NotWithdrawn(row, amount) == row

Withdrawn(row, amount) == [row EXCEPT !.balance = @ - amount]

\* The commit; the row lock goes with the transaction.
WithdrawCommit(r) ==
  LET u == open[r] IN
  /\ At(r, "withdraw", "commit")
  /\ Commit(r, Flush(users[u], snap[r], Withdrawn(snap[r], job[r].amount)),
            "after")
  /\ lock' = [lock EXCEPT ![u] = NoReq]
  /\ paid' = [paid EXCEPT ![u] = @ + job[r].amount]
  /\ UNCHANGED <<registered, clock, granted, sessions, lastPw, overlapped,
                 adminOverlap, barred>>

-----------------------------------------------------------------------------
(* Profile, password, deletion *)

\* Mutant of Renamed: a name left out is set to NULL.
RenamedAll(row, names) == [row EXCEPT !.names = names]

\* PATCH /users/me: the names given are set, a name left out stays.
Renamed(row, names) == [row EXCEPT !.names = @ \cup names]

\* A name that is set already may be given the same value, which writes nothing.
UpdateProfile(r) ==
  /\ At(r, "profile", "handler")
  /\ job[r].names \subseteq snap[r].names \/ MayWrite(r)
  /\ Commit(r, Flush(users[open[r]], snap[r], Renamed(snap[r], job[r].names)),
            "after")
  /\ UNCHANGED <<registered, lock, clock, history>>

RefusePasswordChange(r) ==
  /\ At(r, "password", "handler")
  /\ snap[r].hash.pw # job[r].old
  /\ Reject(r, "InvalidPasswordError", 400)

\* Mutant of WithPassword: the new hash is computed and never assigned.
WithOldPassword(row, p) == row

WithPassword(row, p) == [row EXCEPT !.hash = Argon2(p)]

\* The new hash has a salt of its own, so the column is always written.
ChangePassword(r) ==
  LET u == open[r] IN
  /\ At(r, "password", "handler")
  /\ snap[r].hash.pw = job[r].old
  /\ MayWrite(r)
  /\ Commit(r, WithPassword(users[u], job[r].new), "after")
  /\ lastPw' = [lastPw EXCEPT ![u] = job[r].new]
  /\ UNCHANGED <<registered, lock, clock, ledger, overlapped, adminOverlap,
                 barred>>

\* The row marked deleted, its address prefixed with the second t.
Deleted(row, t) ==
  [row EXCEPT !.deleted = TRUE, !.email = [@ EXCEPT !.freed = t]]

\* t is read before the commit is awaited: the flush may wait for a row lock and
\* be done in a later second.
SoftDelete(r) ==
  /\ At(r, "delete", "handler")
  /\ MayWrite(r)
  /\ \E t \in job[r].since..clock :
       LET u == open[r]
           row == Deleted(snap[r], t)
       IN
       \/ /\ row.email.addr \notin LongAddress
          /\ ~EmailTaken(u, row.email)
          /\ Commit(r, Flush(users[u], snap[r], row), "after")
          /\ UNCHANGED <<registered, lock, clock, history>>
       \/ row.email.addr \in LongAddress /\ Reject(r, "DataError", 500)
       \/ /\ row.email.addr \notin LongAddress
          /\ EmailTaken(u, row.email)
          /\ Reject(r, "IntegrityError", 500)

-----------------------------------------------------------------------------
(* Blocking *)

BlockSelect(r) ==
  LET t == job[r].target IN
  /\ At(r, "block", "handler")
  /\ IF t \notin registered \/ users[t].deleted
     THEN Reject(r, "HTTPException", 404)
     ELSE /\ Load(r, t)
          /\ pc' = [pc EXCEPT ![r] = "commit"]
          /\ reply' = NoReply
          /\ UNCHANGED <<table, clock, job, ledger, lastPw, adminOverlap,
                         barred>>

\* is_blocked is in the UPDATE if it changes what was loaded; block_at is when
\* it becomes func.now(), and otherwise if it was set.
Blocked(row, flag) == [row EXCEPT !.blocked = flag, !.block_at = flag]

BlockCommit(r) ==
  LET t == open[r]
      flag == job[r].flag
      row == Flush(users[t], snap[r], Blocked(snap[r], flag))
  IN
  /\ At(r, "block", "commit")
  /\ flag \/ snap[r].blocked \/ snap[r].block_at => MayWrite(r)
  /\ Commit(r, IF flag THEN [row EXCEPT !.block_at = TRUE] ELSE row, "after")
  /\ barred' = [q \in Req |->
                 /\ barred[q]
                 /\ flag \/ users[t].deleted \/ pc[q] # "auth" \/ job[q].uid # t]
  /\ UNCHANGED <<registered, lock, clock, ledger, lastPw, overlapped,
                 adminOverlap>>

-----------------------------------------------------------------------------
(* Answers, failures, time *)

\* db.refresh, where the handler calls it, has read the row back; the client
\* gets its answer.
Respond(r) ==
  /\ pc[r] = "after"
  /\ Reject(r, "none", CASE job[r].op = "register" -> 201
                         [] job[r].op = "delete" -> 204
                         [] OTHER -> 200)

\* A call to PostgreSQL or Redis fails, or the process dies: what is committed
\* stays, the rest is rolled back.  The withdraw endpoint answers 403 to any
\* exception of its service that is not a ValueError.
Abort(r) ==
  /\ pc[r] # "idle"
  /\ Reject(r, "OperationalError",
         IF job[r].op = "withdraw" /\ pc[r] # "auth" THEN 403 ELSE 500)

Tick ==
  /\ clock < MaxClock
  /\ clock' = clock + 1
  /\ reply' = NoReply
  /\ UNCHANGED <<table, requests, history>>

\* The steps that wait for a row lock, and the others.
Locking(r) ==
  \/ LoginCommit(r) \/ LoginOverflow(r) \/ RefuseWithdrawal(r) \/ WithdrawLock(r)
  \/ UpdateProfile(r) \/ ChangePassword(r) \/ SoftDelete(r) \/ BlockCommit(r)

Running(r) ==
  \/ RefuseCaller(r) \/ AdmitUser(r) \/ AdmitAdmin(r)
  \/ RegisterSelect(r) \/ RegisterInsert(r)
  \/ RefuseLogin(r) \/ AcceptLogin(r) \/ LoginSession(r)
  \/ WithdrawCommit(r) \/ RefusePasswordChange(r) \/ BlockSelect(r) \/ Respond(r)

Next ==
  \/ \E r \in Req :
       \/ \E j \in Job : Begin(r, j)
       \/ Locking(r) \/ Running(r) \/ Abort(r)
  \/ Tick

Spec == Init /\ [][Next]_vars

\* The event loop runs every coroutine that is ready, and PostgreSQL queues the
\* transactions that wait for a row, so a wait for a lock that is released again
\* and again ends.
Fairness == \A r \in Req : WF_vars(Running(r)) /\ SF_vars(Locking(r))

FairSpec == Spec /\ Fairness

-----------------------------------------------------------------------------
(* What should hold *)

Error == {"none", "HTTPException", "UserAlreadyExistsError", "IntegrityError",
          "UserNotFoundError", "BlockedUserError", "InvalidPasswordError",
          "TypeError", "DataError", "Exception", "ValueError",
          "OperationalError"}
Op == {"none", "register", "login"} \cup Authenticated

TableType ==
  /\ users \in [UserId -> Row]
  /\ registered \in SUBSET UserId
  /\ lock \in [UserId -> Req \cup {NoReq}]
  /\ clock \in 1..MaxClock

RequestType ==
  /\ pc \in [Req -> Stage]
  /\ job \in [Req -> Job \cup {NoJob}]
  /\ open \in [Req -> UserId \cup {NoUser}]
  /\ snap \in [Req -> Row]
  /\ reply \in [op : Op, error : Error, code : Nat]

HistoryType ==
  /\ granted \in [UserId -> Nat]
  /\ paid \in [UserId -> Nat]
  /\ sessions \in [UserId -> Nat]
  /\ lastPw \in [UserId -> Password]
  /\ overlapped \in SUBSET UserId
  /\ adminOverlap \in BOOLEAN
  /\ barred \in [Req -> BOOLEAN]

\* Every variable has its type; a balance is never negative and fits its column.
TypeOK == TableType /\ RequestType /\ HistoryType

\* However handlers interleave, a balance never exceeds the bonuses of the
\* logins committed on the account: writing back a stale balance can lose a
\* bonus or bring back money withdrawn, but never credits a bonus twice.
BalanceWithinBonuses ==
  \A u \in UserId : users[u].balance <= Bonus * granted[u]

\* As long as no two requests had the same account loaded at once, its balance
\* is exact: the bonuses credited minus the amounts withdrawn.
SerialLedgerExact ==
  \A u \in registered \ overlapped :
    users[u].balance = Bonus * granted[u] - paid[u]

\* login_user creates a session only after its bonus is committed, failures in
\* between included.
SessionsArePaidFor == \A u \in UserId : sessions[u] <= granted[u]

\* r's handler moves on from row u, which it had loaded.
Steps(r, ops, u) == open[r] = u /\ job[r].op \in ops /\ pc'[r] # pc[r]

\* Handlers write back whole objects loaded before others committed; yet a
\* column of an account only changes in a step of a handler that sets it, so no
\* handler undoes another one's columns.
OwnColumnsOnly ==
  [][ \A u \in registered :
        /\ users'[u].balance # users[u].balance =>
             \E r \in Req : Steps(r, {"login", "withdraw"}, u)
        /\ users'[u].hash # users[u].hash =>
             \E r \in Req : Steps(r, {"login", "password"}, u)
        /\ users'[u].names # users[u].names =>
             \E r \in Req : Steps(r, {"profile"}, u)
        /\ (\/ users'[u].email # users[u].email
            \/ users'[u].deleted # users[u].deleted) =>
             \E r \in Req : Steps(r, {"delete"}, u)
        /\ (\/ users'[u].blocked # users[u].blocked
            \/ users'[u].block_at # users[u].block_at) =>
             \E r \in Req : Steps(r, {"block"}, u) ]_vars

\* soft_delete_user is final: whatever was loaded before the deletion and is
\* written after it, the account stays deleted and its address stays free.
DeletedStaysDeleted ==
  [][ \A u \in registered :
        users[u].deleted => users'[u].deleted /\ users'[u].email.freed # 0 ]_vars

\* Registrations race between the SELECT and the INSERT, but at most one account
\* that is not deleted has an address.
OneLiveAccountPerAddress ==
  \A u, v \in registered :
    /\ ~users[u].deleted
    /\ ~users[v].deleted
    /\ users[u].email.addr = users[v].email.addr
    => u = v

\* get_current_user_obj: a request sent when its account was blocked or deleted
\* does nothing, unless the account is unblocked while the request runs.
BarredNeverActs == \A r \in Req : barred[r] => pc[r] = "auth"

\* block_user: admins who block one another leave an admin who can unblock,
\* unless two of their requests overlap or an admin deletes its account.
SomeAdminLeft ==
  \/ Admins = {}
  \/ adminOverlap
  \/ \E a \in Admins : Active(users[a]) \/ users[a].deleted

\* Without overlapping requests the password that logs in is the one last set,
\* whatever hash upgrades logins did since.
SerialPasswordSticks ==
  \A u \in registered \ overlapped : users[u].hash.pw = lastPw[u]

\* The account that the row of u stands for.
Account(u) ==
  CASE u \in overlapped -> [standing |-> "shared"]
    [] u \notin overlapped /\ u \notin registered -> [standing |-> "absent"]
    [] OTHER -> [standing |-> IF users[u].deleted THEN "deleted"
                              ELSE IF users[u].blocked THEN "blocked" ELSE "active",
                 balance |-> users[u].balance, pw |-> users[u].hash.pw,
                 names |-> users[u].names]

View == [u \in UserId |-> Account(u)]

Contract == INSTANCE AccountContract WITH account <- View

\* Loads, locks, flushes and failures of any number of requests amount to
\* operations that take effect at once, on every account no two requests share.
ImplementsContract == Contract!Spec

\* withdraw_balance locks the row and then awaits, whatever fails: a row that is
\* locked is that of a withdrawal about to commit, which needs no other lock, so
\* that nobody waits for one who waits, or has gone.
HoldersNeverWait ==
  \A u \in UserId : lock[u] # NoReq =>
    At(lock[u], "withdraw", "commit") /\ open[lock[u]] = u

\* Every request is answered: row locks are always released.
RequestsEnd == \A r \in Req : pc[r] # "idle" ~> pc[r] = "idle"

-----------------------------------------------------------------------------
(* What the repository says and the code does not do: each has a run in which  *)
(* TLC finds the counterexample.                                               *)

\* tests/test_user_features.py:76 "Verify it fails if the user tries to withdraw
\* more than they have".
PaidWithinBonuses == \A u \in UserId : paid[u] <= Bonus * granted[u]

\* tests/test_auth.py:120 "Verify login with NEW password", after the change was
\* answered.
NewPasswordLogsIn == \A u \in registered : users[u].hash.pw = lastPw[u]

=============================================================================
