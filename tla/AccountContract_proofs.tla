----------------------- MODULE AccountContract_proofs -----------------------
(***************************************************************************)
(* The proof that Accounts implements AccountContract: rows, copies of     *)
(* rows, locks and failures amount to operations that take effect at once, *)
(* on every account that no two requests ever had open together.           *)
(***************************************************************************)
EXTENDS Accounts_proofs

-----------------------------------------------------------------------------
(* What a handler has checked of the copy it is about to write *)

Licensed(r) ==
  /\ pc[r] = "handler" /\ job[r].op # "block" => Active(snap[r])
  /\ At(r, "login", "commit") => Active(snap[r])
  /\ At(r, "withdraw", "commit") => Active(snap[r]) /\ snap[r].names = NameColumn
  /\ At(r, "block", "commit") => ~snap[r].deleted

LicenseInv == overlapped \subseteq registered /\ \A r \in Req : Licensed(r)

\* A step of one request that leaves it licensed.
LEMMA StepLicensed ==
  ASSUME LicenseInv, NEW r \in Req, Licensed(r)',
         \A q \in Req \ {r} : /\ pc'[q] = pc[q] /\ job'[q] = job[q]
                              /\ snap'[q] = snap[q],
         overlapped' \subseteq registered'
  PROVE  LicenseInv'
<1>1. \A q \in Req \ {r} : Licensed(q)'
  BY DEF LicenseInv, Licensed, At
<1> QED
  BY <1>1 DEF LicenseInv

\* A request that ends, or waits for what does not depend on a copy.
LEMMA EndLicensed ==
  ASSUME TypeInv, LicenseInv, NEW r \in Req, NEW e, NEW c, End(r, e, c),
         UNCHANGED <<overlapped, registered>>
  PROVE  LicenseInv'
<1>1. /\ pc'[r] = "idle"
      /\ \A q \in Req \ {r} : /\ pc'[q] = pc[q] /\ job'[q] = job[q]
                              /\ snap'[q] = snap[q]
  BY DEF End, TypeInv, TypeOK, RequestType
<1>2. Licensed(r)'
  BY <1>1 DEF Licensed, At
<1> QED
  BY <1>1, <1>2, StepLicensed DEF LicenseInv

LEMMA RejectLicensed ==
  ASSUME TypeInv, LicenseInv, NEW r \in Req, NEW e, NEW c, Reject(r, e, c)
  PROVE  LicenseInv'
BY EndLicensed DEF Reject

\* A step that takes r to a stage, with the job it had.
LEMMA MoveLicensed ==
  ASSUME TypeInv, LicenseInv, NEW r \in Req, NEW stage, pc' = [pc EXCEPT ![r] = stage],
         UNCHANGED <<job, registered>>, overlapped' \subseteq registered,
         \A q \in Req \ {r} : snap'[q] = snap[q],
         stage \in {"idle", "auth", "select", "after", "session"} \/ Licensed(r)'
  PROVE  LicenseInv'
<1>1. pc'[r] = stage /\ \A q \in Req \ {r} : pc'[q] = pc[q]
  BY DEF TypeInv, TypeOK, RequestType
<1>2. Licensed(r)'
  BY <1>1 DEF Licensed, At
<1> QED
  BY <1>1, <1>2, StepLicensed

LEMMA CommitLicensed ==
  ASSUME TypeInv, LicenseInv, NEW r \in Req, NEW row, NEW next \in {"after", "session"},
         Commit(r, row, next), UNCHANGED <<registered, overlapped>>
  PROVE  LicenseInv'
<1>1. \A q \in Req \ {r} : snap'[q] = snap[q]
  BY DEF Commit, TypeInv, TypeOK, RequestType
<1> QED
  BY <1>1, MoveLicensed DEF Commit, LicenseInv

LEMMA LoadLicensed ==
  ASSUME TypeInv, LicenseInv, NEW r \in Req, NEW u \in registered, Load(r, u),
         NEW stage, pc' = [pc EXCEPT ![r] = stage], UNCHANGED <<job, registered>>,
         ~users[u].deleted, Active(users[u]) \/ job[r].op = "block",
         stage = "handler" \/ job[r].op # "withdraw"
  PROVE  LicenseInv'
<1>1. u \in UserId
  BY DEF TypeInv, TypeOK, TableType
<1>2. /\ snap'[r] = users[u]
      /\ \A q \in Req \ {r} : snap'[q] = snap[q]
      /\ overlapped' \subseteq registered
  BY <1>1 DEF Load, TypeInv, TypeOK, RequestType, LicenseInv
<1>3. pc'[r] = stage /\ job'[r] = job[r]
  BY DEF TypeInv, TypeOK, RequestType
<1>4. Licensed(r)'
  BY <1>2, <1>3 DEF Licensed, At, Active
<1> QED
  BY <1>2, <1>4, MoveLicensed

LEMMA NextLicensed == TypeInv /\ SerialInv /\ LicenseInv /\ [Next]_vars => LicenseInv'
<1> SUFFICES ASSUME TypeInv, SerialInv, LicenseInv, [Next]_vars PROVE LicenseInv'
  OBVIOUS
<1>1. CASE UNCHANGED vars \/ Tick
  BY <1>1 DEF vars, Tick, table, requests, history, LicenseInv, Licensed, At
<1>2. ASSUME NEW r \in Req, NEW j \in Job, Begin(r, j) PROVE LicenseInv'
  <2>1. /\ pc'[r] \in {"auth", "select"}
        /\ \A q \in Req \ {r} : pc'[q] = pc[q] /\ job'[q] = job[q]
        /\ UNCHANGED <<snap, registered, overlapped>>
    BY <1>2 DEF Begin, table, TypeInv, TypeOK, RequestType
  <2>2. Licensed(r)'
    BY <2>1 DEF Licensed, At
  <2> QED
    BY <2>1, <2>2, StepLicensed DEF LicenseInv
<1>3. ASSUME NEW r \in Req, Abort(r) PROVE LicenseInv'
  BY <1>3, RejectLicensed DEF Abort
<1>4. ASSUME NEW r \in Req, Locking(r) PROVE LicenseInv'
  <2>1. CASE WithdrawLock(r)
    <3>1. /\ pc' = [pc EXCEPT ![r] = "commit"] /\ job[r].op = "withdraw"
          /\ Active(snap[r]) /\ snap[r].names = NameColumn
          /\ UNCHANGED <<job, snap, registered, overlapped>>
      BY <1>4, <2>1 DEF WithdrawLock, At, history, LicenseInv, Licensed
    <3>2. pc'[r] = "commit" /\ Licensed(r)'
      BY <3>1 DEF Licensed, At, TypeInv, TypeOK, RequestType
    <3> QED
      BY <3>1, <3>2, MoveLicensed DEF LicenseInv
  <2>2. CASE LoginCommit(r) \/ UpdateProfile(r) \/ ChangePassword(r) \/ BlockCommit(r)
    BY <2>2, CommitLicensed
       DEF LoginCommit, UpdateProfile, ChangePassword, BlockCommit, history
  <2>3. CASE SoftDelete(r)
    BY <2>3, CommitLicensed, RejectLicensed DEF SoftDelete, history
  <2>4. CASE LoginOverflow(r) \/ RefuseWithdrawal(r)
    BY <2>4, RejectLicensed DEF LoginOverflow, RefuseWithdrawal
  <2> QED
    BY <1>4, <2>1, <2>2, <2>3, <2>4 DEF Locking
<1>5. ASSUME NEW r \in Req, Running(r) PROVE LicenseInv'
  <2>1. CASE \/ RefuseCaller(r) \/ RefuseLogin(r) \/ RefusePasswordChange(r)
             \/ Respond(r)
    BY <2>1, RejectLicensed DEF RefuseCaller, RefuseLogin, RefusePasswordChange, Respond
  <2>2. CASE AdmitUser(r)
    <3>1. job[r].uid \in registered
      BY <2>2 DEF AdmitUser, SerialInv, Opened
    <3> QED
      BY <2>2, <3>1, LoadLicensed DEF AdmitUser, table, Active
  <2>3. CASE AdmitAdmin(r)
    <3>1. /\ pc' = [pc EXCEPT ![r] = "handler"] /\ job[r].op = "block"
          /\ UNCHANGED <<job, snap, registered, overlapped>>
      BY <2>3 DEF AdmitAdmin, table
    <3>2. Licensed(r)'
      BY <3>1 DEF Licensed, At, TypeInv, TypeOK, RequestType
    <3> QED
      BY <3>1, <3>2, MoveLicensed DEF LicenseInv
  <2>4. CASE RegisterSelect(r)
    <3>1. CASE Reject(r, "UserAlreadyExistsError", 400)
      BY <3>1, RejectLicensed
    <3>2. CASE ~Reject(r, "UserAlreadyExistsError", 400)
      <4>1. /\ pc' = [pc EXCEPT ![r] = "commit"] /\ job[r].op = "register"
            /\ UNCHANGED <<job, snap, registered, overlapped>>
        BY <2>4, <3>2 DEF RegisterSelect, At, table, history
      <4>2. Licensed(r)'
        BY <4>1 DEF Licensed, At, TypeInv, TypeOK, RequestType
      <4> QED
        BY <4>1, <4>2, MoveLicensed DEF LicenseInv
    <3> QED
      BY <3>1, <3>2
  <2>5. CASE RegisterInsert(r)
    <3>1. CASE Reject(r, "IntegrityError", 500)
      BY <3>1, RejectLicensed
    <3>2. CASE ~Reject(r, "IntegrityError", 500)
      <4>1. /\ pc'[r] = "after"
            /\ \A q \in Req \ {r} : pc'[q] = pc[q]
            /\ UNCHANGED <<job, snap, overlapped>>
            /\ registered \subseteq registered'
        BY <2>5, <3>2 DEF RegisterInsert, TypeInv, TypeOK, RequestType
      <4>2. Licensed(r)'
        BY <4>1 DEF Licensed, At
      <4> QED
        BY <4>1, <4>2, StepLicensed DEF LicenseInv
    <3> QED
      BY <3>1, <3>2
  <2>6. CASE AcceptLogin(r)
    <3>1. PICK u \in registered : Active(users[u]) /\ Load(r, u)
      BY <2>6 DEF AcceptLogin, Found
    <3> QED
      BY <2>6, <3>1, LoadLicensed DEF AcceptLogin, At, table, Active
  <2>7. CASE LoginSession(r)
    BY <2>7, EndLicensed DEF LoginSession
  <2>8. CASE WithdrawCommit(r)
    BY <2>8, CommitLicensed DEF WithdrawCommit
  <2>9. CASE BlockSelect(r)
    <3>1. CASE Reject(r, "HTTPException", 404)
      BY <3>1, RejectLicensed
    <3>2. CASE ~Reject(r, "HTTPException", 404)
      BY <2>9, <3>2, LoadLicensed DEF BlockSelect, At, table
    <3> QED
      BY <3>1, <3>2
  <2> QED
    BY <1>5, <2>1, <2>2, <2>3, <2>4, <2>5, <2>6, <2>7, <2>8, <2>9 DEF Running
<1> QED
  BY <1>1, <1>2, <1>3, <1>4, <1>5 DEF Next

LEMMA InitLicensed == Init => LicenseInv
BY DEF Init, LicenseInv, Licensed, At

-----------------------------------------------------------------------------
(* What the contract sees of a row *)

Seen(row) ==
  [standing |-> IF row.deleted THEN "deleted"
                ELSE IF row.blocked THEN "blocked" ELSE "active",
   balance |-> row.balance, pw |-> row.hash.pw, names |-> row.names]

LEMMA SeenAccount ==
  /\ \A u \in registered : u \notin overlapped => Account(u) = Seen(users[u])
  /\ \A u \in UserId : u \in overlapped => Account(u) = Contract!Shared
  /\ \A u \in UserId \ registered : u \notin overlapped => Account(u) = Contract!Absent
BY DEF Account, Seen, Contract!Shared, Contract!Absent

LEMMA SeenAccountNext ==
  /\ \A u \in registered' : u \notin overlapped' => Account(u)' = Seen(users'[u])
  /\ \A u \in UserId : u \in overlapped' => Account(u)' = Contract!Shared
BY DEF Account, Seen, Contract!Shared

\* An account that no step touches looks the same.
LEMMA AccountKept ==
  ASSUME NEW u, users'[u] = users[u],
         u \in registered' <=> u \in registered, u \in overlapped' <=> u \in overlapped
  PROVE  Account(u)' = Account(u)
BY DEF Account

LEMMA ViewKept ==
  ASSUME UNCHANGED <<users, registered, overlapped>>
  PROVE  UNCHANGED View
BY AccountKept DEF View

\* A step that touches one account.
LEMMA OneAccount ==
  ASSUME NEW u \in UserId, \A v \in UserId \ {u} : Account(v)' = Account(v), NEW a,
         Account(u)' = a
  PROVE  Contract!Becomes(u, a)
BY DEF View, Contract!Becomes

\* A load shares the account with whoever has it open, or is not seen.
LEMMA LoadContract ==
  ASSUME TypeInv, LicenseInv, NEW r \in Req, NEW u \in registered, Load(r, u),
         UNCHANGED <<users, registered>>
  PROVE  [Contract!Next]_View
<1>1. u \in UserId
  BY DEF TypeInv, TypeOK, TableType
<1>2. CASE overlapped' = overlapped
  BY <1>2, ViewKept
<1>3. CASE overlapped' # overlapped
  <2>1. u \notin overlapped /\ overlapped' = overlapped \cup {u}
    BY <1>3 DEF Load
  <2>2. \A v \in UserId \ {u} : Account(v)' = Account(v)
    BY <2>1, AccountKept
  <2>3. Contract!Becomes(u, Contract!Shared)
    BY <1>1, <2>1, <2>2, SeenAccountNext, OneAccount
  <2>4. View[u] = Seen(users[u])
    BY <1>1, <2>1, SeenAccount DEF View
  <2>5. View[u] # Contract!Absent
    BY <2>4 DEF Seen, Contract!Absent
  <2> QED
    BY <1>1, <2>3, <2>5 DEF Contract!Share, Contract!Next
<1> QED
  BY <1>2, <1>3

\* The ORM writes what the handler made of a copy that is the row itself.
LEMMA FlushIsNew ==
  ASSUME NEW row \in Row, NEW new \in Row
  PROVE  Flush(row, row, new) = new
BY DEF Flush, Dirty, Row

\* A commit changes one account, of which its request had the row itself,
\* or is not seen.
LEMMA CommitContract ==
  ASSUME TypeInv, SerialInv, NEW r \in Req, NEW u \in UserId, Holds(r, u),
         NEW row, NEW next, Commit(r, row, next), UNCHANGED <<registered, overlapped>>
  PROVE  \/ UNCHANGED View
         \/ /\ snap[r] = users[u]
            /\ View[u] = Seen(users[u])
            /\ Contract!Becomes(u, Seen(row))
<1>1. u \in registered /\ open[r] = u
  BY DEF Holds, SerialInv, Opened
<1>2. users'[u] = row /\ \A v \in UserId \ {u} : users'[v] = users[v]
  BY <1>1 DEF Commit, TypeInv, TypeOK, TableType
<1>3. \A v \in UserId \ {u} : Account(v)' = Account(v)
  BY <1>2, AccountKept
<1>4. CASE u \in overlapped
  <2>1. Account(u)' = Account(u)
    BY <1>4, SeenAccount, SeenAccountNext
  <2> QED
    BY <1>3, <2>1 DEF View
<1>5. CASE u \notin overlapped
  <2>1. snap[r] = users[u]
    BY <1>5 DEF SerialInv, Current
  <2>2. View[u] = Seen(users[u])
    BY <1>1, <1>5, SeenAccount DEF View
  <2>3. Account(u)' = Seen(row)
    BY <1>1, <1>2, <1>5, SeenAccountNext
  <2> QED
    BY <1>3, <2>1, <2>2, <2>3, OneAccount
<1> QED
  BY <1>4, <1>5

-----------------------------------------------------------------------------
(* Every step of the handlers is a step of the contract, or none *)

LEMMA LoginContract ==
  ASSUME TypeInv, SerialInv, LicenseInv, NEW r \in Req, LoginCommit(r)
  PROVE  [Contract!Next]_View
<1> DEFINE u == open[r]
           new == LoggedIn(snap[r], job[r].pw)
<1>1. u \in UserId /\ Holds(r, u) /\ snap[r].hash.pw = job[r].pw /\ Active(snap[r])
  BY DEF LoginCommit, TypeInv, Shape, At, Holds, SerialInv, Opened, LicenseInv, Licensed
<1>2. snap[r] \in Row /\ job[r].pw \in Password
  BY <1>1, JobFields DEF TypeInv, TypeOK, RequestType, Shape, LoginCommit, At
<1>3. new \in Row
  BY <1>2, LoggedInType DEF LoginCommit
<1>4. Seen(new) = [Seen(snap[r]) EXCEPT !.balance = @ + Bonus]
  BY <1>1, <1>2 DEF Seen, LoggedIn, Argon2, Row
<1>5. /\ Commit(r, Flush(users[u], snap[r], new), "session")
      /\ UNCHANGED <<registered, overlapped>>
  BY DEF LoginCommit
<1>6. ASSUME snap[r] = users[u], View[u] = Seen(users[u]),
             Contract!Becomes(u, Seen(Flush(users[u], snap[r], new)))
      PROVE  Contract!LogIn(u)
  <2>1. View[u].standing = "active"
    BY <1>1, <1>6 DEF Seen, Active
  <2>2. Flush(users[u], snap[r], new) = new
    BY <1>2, <1>3, <1>6, FlushIsNew
  <2> QED
    BY <1>4, <1>6, <2>1, <2>2 DEF Contract!LogIn
<1> QED
  BY <1>1, <1>5, <1>6, CommitContract DEF Contract!Next

LEMMA WithdrawContract ==
  ASSUME TypeInv, SerialInv, LicenseInv, NEW r \in Req, WithdrawCommit(r)
  PROVE  [Contract!Next]_View
<1> DEFINE u == open[r]
           n == job[r].amount
           new == Withdrawn(snap[r], n)
<1>1. /\ u \in UserId /\ Holds(r, u) /\ Active(snap[r]) /\ snap[r].names = NameColumn
      /\ Covers(snap[r], n)
  BY DEF WithdrawCommit, TypeInv, Shape, At, Holds, LicenseInv, Licensed
<1>2. snap[r] \in Row /\ n \in Amount
  BY <1>1, JobFields DEF TypeInv, TypeOK, RequestType, Shape, WithdrawCommit, At
<1>3. new \in Row
  BY <1>1, <1>2, WithdrawnType
<1>4. n \in 1..snap[r].balance
  BY <1>1, <1>2, ClientsAssumption DEF Covers, Row
<1>5. Seen(new) = [Seen(snap[r]) EXCEPT !.balance = @ - n]
  BY <1>2 DEF Seen, Withdrawn, Row
<1>6. /\ Commit(r, Flush(users[u], snap[r], new), "after")
      /\ UNCHANGED <<registered, overlapped>>
  BY DEF WithdrawCommit
<1>7. ASSUME snap[r] = users[u], View[u] = Seen(users[u]),
             Contract!Becomes(u, Seen(Flush(users[u], snap[r], new)))
      PROVE  Contract!Withdraw(u)
  <2>1. /\ View[u].standing = "active" /\ View[u].names = NameColumn
        /\ View[u].balance = snap[r].balance
    BY <1>1, <1>7 DEF Seen, Active
  <2>2. Flush(users[u], snap[r], new) = new
    BY <1>2, <1>3, <1>7, FlushIsNew
  <2> QED
    BY <1>5, <1>7, <1>4, <2>1, <2>2 DEF Contract!Withdraw
<1> QED
  BY <1>1, <1>6, <1>7, CommitContract DEF Contract!Next

LEMMA ProfileContract ==
  ASSUME TypeInv, SerialInv, LicenseInv, NEW r \in Req, UpdateProfile(r)
  PROVE  [Contract!Next]_View
<1> DEFINE u == open[r]
           new == Renamed(snap[r], job[r].names)
<1>1. u \in UserId /\ Holds(r, u) /\ Active(snap[r])
  BY DEF UpdateProfile, TypeInv, Shape, At, Holds, LicenseInv, Licensed
<1>2. snap[r] \in Row /\ job[r].names \in SUBSET NameColumn
  BY <1>1, JobFields DEF TypeInv, TypeOK, RequestType, Shape, UpdateProfile, At
<1>3. new \in Row
  BY <1>2, RenamedType
<1>4. Seen(new) = [Seen(snap[r]) EXCEPT !.names = @ \cup job[r].names]
  <2>1. snap[r].names \in SUBSET NameColumn
    BY <1>2 DEF Row
  <2>2. PICK names : names = snap[r].names \cup job[r].names
    OBVIOUS
  <2>3. new = [snap[r] EXCEPT !.names = names]
    BY <2>2 DEF Renamed
  <2>4. Seen(new) = [Seen(snap[r]) EXCEPT !.names = names]
    BY <1>2, <2>3 DEF Seen, Row
  <2> QED
    BY <2>2, <2>4 DEF Seen
<1>5. /\ Commit(r, Flush(users[u], snap[r], new), "after")
      /\ UNCHANGED <<registered, overlapped>>
  BY DEF UpdateProfile, history
<1>6. ASSUME snap[r] = users[u], View[u] = Seen(users[u]),
             Contract!Becomes(u, Seen(Flush(users[u], snap[r], new)))
      PROVE  Contract!GiveNames(u)
  <2>1. View[u].standing = "active"
    BY <1>1, <1>6 DEF Seen, Active
  <2>2. Flush(users[u], snap[r], new) = new
    BY <1>2, <1>3, <1>6, FlushIsNew
  <2> QED
    BY <1>2, <1>4, <1>6, <2>1, <2>2 DEF Contract!GiveNames
<1> QED
  BY <1>1, <1>5, <1>6, CommitContract DEF Contract!Next

LEMMA PasswordContract ==
  ASSUME TypeInv, SerialInv, LicenseInv, NEW r \in Req, ChangePassword(r)
  PROVE  [Contract!Next]_View
<1> DEFINE u == open[r]
           row == WithPassword(users[u], job[r].new)
<1>1. u \in UserId /\ Holds(r, u) /\ Active(snap[r])
  BY DEF ChangePassword, TypeInv, Shape, At, Holds, LicenseInv, Licensed
<1>2. users[u] \in Row /\ job[r].new \in Password
  BY <1>1, JobFields DEF TypeInv, TypeOK, TableType, Shape, ChangePassword, At
<1>3. Seen(row) = [Seen(users[u]) EXCEPT !.pw = job[r].new]
  BY <1>2 DEF Seen, WithPassword, Argon2, Row
<1>4. Commit(r, row, "after") /\ UNCHANGED <<registered, overlapped>>
  BY DEF ChangePassword
<1>5. ASSUME snap[r] = users[u], View[u] = Seen(users[u]), Contract!Becomes(u, Seen(row))
      PROVE  Contract!ChangePassword(u)
  <2>1. View[u].standing = "active"
    BY <1>1, <1>5 DEF Seen, Active
  <2> QED
    BY <1>2, <1>3, <1>5, <2>1 DEF Contract!ChangePassword
<1> QED
  BY <1>1, <1>4, <1>5, CommitContract DEF Contract!Next

LEMMA DeleteContract ==
  ASSUME TypeInv, SerialInv, LicenseInv, NEW r \in Req, SoftDelete(r)
  PROVE  [Contract!Next]_View
<1> DEFINE u == open[r]
           new(t) == Deleted(snap[r], t)
<1>1. u \in UserId /\ Holds(r, u) /\ Active(snap[r])
  BY DEF SoftDelete, TypeInv, Shape, At, Holds, LicenseInv, Licensed
<1>2. snap[r] \in Row
  BY DEF TypeInv, TypeOK, RequestType
<1>3. ASSUME NEW t \in job[r].since..clock PROVE new(t) \in Row
  BY <1>2, SecondType, DeletedType
<1>4. ASSUME NEW t
      PROVE  Seen(new(t)) = [Seen(snap[r]) EXCEPT !.standing = "deleted"]
  BY <1>2 DEF Seen, Deleted, Row
<1>5. ASSUME NEW t \in job[r].since..clock,
             Commit(r, Flush(users[u], snap[r], new(t)), "after"),
             UNCHANGED <<registered, overlapped>>
      PROVE  [Contract!Next]_View
  <2>1. ASSUME snap[r] = users[u], View[u] = Seen(users[u]),
               Contract!Becomes(u, Seen(Flush(users[u], snap[r], new(t))))
        PROVE  Contract!Delete(u)
    <3>1. View[u].standing = "active"
      BY <1>1, <2>1 DEF Seen, Active
    <3>2. Flush(users[u], snap[r], new(t)) = new(t)
      BY <1>2, <1>3, <2>1, FlushIsNew
    <3> QED
      BY <1>4, <2>1, <3>1, <3>2 DEF Contract!Delete
  <2> QED
    BY <1>1, <1>5, <2>1, CommitContract DEF Contract!Next
<1>6. CASE Reject(r, "DataError", 500) \/ Reject(r, "IntegrityError", 500)
  BY <1>6, ViewKept DEF Reject
<1> QED
  BY <1>5, <1>6 DEF SoftDelete, history

LEMMA BlockContract ==
  ASSUME TypeInv, SerialInv, LicenseInv, NEW r \in Req, BlockCommit(r)
  PROVE  [Contract!Next]_View
<1> DEFINE u == open[r]
           flag == job[r].flag
           to == IF flag THEN "blocked" ELSE "active"
           new == Blocked(snap[r], flag)
           flushed == Flush(users[u], snap[r], new)
           row == IF flag THEN [flushed EXCEPT !.block_at = TRUE] ELSE flushed
<1>1. u \in UserId /\ Holds(r, u) /\ ~snap[r].deleted
  BY DEF BlockCommit, TypeInv, Shape, At, Holds, LicenseInv, Licensed
<1>2. snap[r] \in Row /\ flag \in BOOLEAN
  BY <1>1, JobFields DEF TypeInv, TypeOK, RequestType, Shape, BlockCommit, At
<1>3. new \in Row
  BY <1>2, BlockedType
<1>4. Seen(new) = [Seen(snap[r]) EXCEPT !.standing = to]
  BY <1>1, <1>2 DEF Seen, Blocked, Row
<1>5. Commit(r, row, "after") /\ UNCHANGED <<registered, overlapped>>
  BY DEF BlockCommit
<1>6. ASSUME snap[r] = users[u], View[u] = Seen(users[u]), Contract!Becomes(u, Seen(row))
      PROVE  Contract!SetBlocked(u)
  <2>1. View[u].standing \in {"active", "blocked"}
    BY <1>1, <1>6 DEF Seen
  <2>2. flushed = new
    BY <1>2, <1>3, <1>6, FlushIsNew
  <2>3. Seen(row) = Seen(new)
    BY <1>3, <2>2 DEF Seen, Row
  <2> QED
    BY <1>4, <1>6, <2>1, <2>3 DEF Contract!SetBlocked
<1> QED
  BY <1>1, <1>5, <1>6, CommitContract DEF Contract!Next

LEMMA RegisterContract ==
  ASSUME TypeInv, LicenseInv, NEW r \in Req, RegisterInsert(r)
  PROVE  [Contract!Next]_View
<1>1. CASE Reject(r, "IntegrityError", 500)
  BY <1>1, ViewKept DEF Reject
<1>2. CASE ~Reject(r, "IntegrityError", 500)
  <2> DEFINE row == NewRow(job[r].addr, Argon2(job[r].pw))
  <2>1. PICK u \in UserId \ registered :
          /\ registered' = registered \cup {u}
          /\ users' = [users EXCEPT ![u] = row]
          /\ overlapped' = overlapped
    BY <1>2 DEF RegisterInsert
  <2>2. job[r].pw \in Password
    BY JobFields DEF RegisterInsert, At, TypeInv, Shape
  <2>3. Seen(row) = [standing |-> "active", balance |-> 0, pw |-> job[r].pw, names |-> {}]
    BY DEF Seen, NewRow, Argon2
  <2>4. u \notin overlapped /\ View[u] = Contract!Absent
    BY <2>1, SeenAccount DEF View, LicenseInv
  <2>5. users'[u] = row /\ \A v \in UserId \ {u} : users'[v] = users[v]
    BY <2>1 DEF TypeInv, TypeOK, TableType
  <2>6. \A v \in UserId \ {u} : Account(v)' = Account(v)
    BY <2>1, <2>5, AccountKept
  <2>7. Account(u)' = Seen(row)
    BY <2>1, <2>4, <2>5, SeenAccountNext
  <2>8. Contract!Becomes(u, Seen(row))
    BY <2>6, <2>7, OneAccount
  <2>9. Contract!Register(u)
    BY <2>2, <2>3, <2>4, <2>8 DEF Contract!Register
  <2> QED
    BY <2>9 DEF Contract!Next
<1> QED
  BY <1>1, <1>2

LEMMA NextContract ==
  TypeInv /\ SerialInv /\ LicenseInv /\ [Next]_vars => [Contract!Next]_View
<1> SUFFICES ASSUME TypeInv, SerialInv, LicenseInv, [Next]_vars
             PROVE  [Contract!Next]_View
  OBVIOUS
<1>1. CASE UNCHANGED vars \/ Tick
  BY <1>1, ViewKept DEF vars, Tick, table, history
<1>2. ASSUME NEW r \in Req, NEW j \in Job, Begin(r, j) PROVE UNCHANGED View
  BY <1>2, ViewKept DEF Begin, table
<1>3. ASSUME NEW r \in Req, Abort(r) PROVE UNCHANGED View
  BY <1>3, ViewKept DEF Abort, Reject
<1>4. ASSUME NEW r \in Req, Locking(r) PROVE [Contract!Next]_View
  <2>1. CASE WithdrawLock(r)
    BY <2>1, ViewKept DEF WithdrawLock, history
  <2>2. CASE LoginOverflow(r) \/ RefuseWithdrawal(r)
    BY <2>2, ViewKept DEF LoginOverflow, RefuseWithdrawal, Reject
  <2> QED
    BY <1>4, <2>1, <2>2, LoginContract, ProfileContract, PasswordContract,
       DeleteContract, BlockContract DEF Locking
<1>5. ASSUME NEW r \in Req, Running(r) PROVE [Contract!Next]_View
  <2>1. CASE \/ RefuseCaller(r) \/ RefuseLogin(r) \/ RefusePasswordChange(r)
             \/ Respond(r)
    BY <2>1, ViewKept
       DEF RefuseCaller, RefuseLogin, RefusePasswordChange, Respond, Reject
  <2>2. CASE AdmitUser(r)
    <3>1. job[r].uid \in registered
      BY <2>2 DEF AdmitUser, SerialInv, Opened
    <3> QED
      BY <2>2, <3>1, LoadContract DEF AdmitUser, table
  <2>3. CASE AdmitAdmin(r) \/ LoginSession(r)
    BY <2>3, ViewKept DEF AdmitAdmin, table, LoginSession
  <2>4. CASE RegisterSelect(r)
    BY <2>4, ViewKept DEF RegisterSelect, Reject, table, history
  <2>5. CASE AcceptLogin(r)
    <3>1. PICK u \in registered : Load(r, u)
      BY <2>5 DEF AcceptLogin, Found
    <3> QED
      BY <2>5, <3>1, LoadContract DEF AcceptLogin, table
  <2>6. CASE BlockSelect(r)
    <3>1. CASE Reject(r, "HTTPException", 404)
      BY <3>1, ViewKept DEF Reject
    <3>2. CASE ~Reject(r, "HTTPException", 404)
      BY <2>6, <3>2, LoadContract DEF BlockSelect, table
    <3> QED
      BY <3>1, <3>2
  <2> QED
    BY <1>5, <2>1, <2>2, <2>3, <2>4, <2>5, <2>6, RegisterContract, WithdrawContract
       DEF Running
<1> QED
  BY <1>1, <1>2, <1>3, <1>4, <1>5 DEF Next

LEMMA InitContract == Init => Contract!Init
<1> SUFFICES ASSUME Init PROVE Contract!Init
  OBVIOUS
<1> PICK hash \in [Seeded -> Hash], addr \in [Seeded -> Address] :
      users = [u \in UserId |->
                IF u \in Seeded
                THEN [NewRow(addr[u], hash[u]) EXCEPT
                       !.names = IF u \in Named THEN NameColumn ELSE {}]
                ELSE BlankRow]
  BY DEF Init
<1> DEFINE pw == [u \in UserId |-> users[u].hash.pw]
           names == [u \in UserId |-> users[u].names]
<1>1. users \in [UserId -> Row]
  BY InitType DEF TypeInv, TypeOK, TableType
<1>2. pw \in [UserId -> Password] /\ names \in [UserId -> SUBSET NameColumn]
  BY <1>1 DEF Row, Hash
<1>3. registered = Seeded /\ overlapped = {} /\ Seeded \in SUBSET UserId
  BY RowsAssumption DEF Init
<1>4. ASSUME NEW u \in Seeded
      PROVE  Seen(users[u]) = [standing |-> "active", balance |-> 0, pw |-> pw[u],
                               names |-> names[u]]
  <2>1. u \in UserId
    BY RowsAssumption
  <2>2. users[u].balance = 0 /\ users[u].deleted = FALSE /\ users[u].blocked = FALSE
    BY <2>1 DEF NewRow
  <2>3. pw[u] = users[u].hash.pw /\ names[u] = users[u].names
    BY <2>1
  <2> HIDE DEF pw, names
  <2> QED
    BY <2>2, <2>3 DEF Seen
<1>5. View = [u \in UserId |->
               IF u \in Seeded
               THEN [standing |-> "active", balance |-> 0, pw |-> pw[u],
                     names |-> names[u]]
               ELSE Contract!Absent]
  BY <1>3, <1>4, SeenAccount DEF View
<1> QED
  BY <1>2, <1>3, <1>5 DEF Contract!Init

\* For any accounts, clients and requests: what the handlers do to an account
\* that no two requests had open together are the operations of the contract,
\* each at once, on the account as it is, and only when the account allows it.
THEOREM Implements == Spec => ImplementsContract
<1>1. Init => LicenseInv /\ Contract!Init
  BY InitLicensed, InitContract
<1>2. TypeInv /\ SerialInv /\ LicenseInv /\ [Next]_vars => LicenseInv'
  BY NextLicensed
<1>3. TypeInv /\ SerialInv /\ LicenseInv /\ [Next]_vars => [Contract!Next]_View
  BY NextContract
<1> QED
  BY <1>1, <1>2, <1>3, Typed, Serial, PTL DEF Spec, ImplementsContract, Contract!Spec
=============================================================================
