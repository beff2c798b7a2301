-------------------------- MODULE Accounts_proofs --------------------------
(***************************************************************************)
(* Proofs about Accounts, for every set of accounts, clients and requests. *)
(***************************************************************************)
EXTENDS Accounts, TLAPS

-----------------------------------------------------------------------------
(* Rows *)

\* A row inserted by a registration has the type of a row.
LEMMA NewRowType ==
  ASSUME NEW a \in Address, NEW h \in Hash
  PROVE  NewRow(a, h) \in Row
BY ClientsAssumption DEF NewRow, Plain, Row, Email

LEMMA ArgonType == \A p \in Password : Argon2(p) \in Hash
BY ClientsAssumption DEF Argon2, Hash

LEMMA BlankRowType == BlankRow \in Row
<1>1. (CHOOSE a \in Address : TRUE) \in Address
  BY ClientsAssumption
<1>2. (CHOOSE p \in Password : TRUE) \in Password
  BY ClientsAssumption
<1>3. Argon2(CHOOSE p \in Password : TRUE) \in Hash
  BY <1>2, ArgonType
<1> QED
  BY <1>1, <1>3, NewRowType DEF BlankRow

\* Whatever columns are dirty, a flush of rows is a row.
LEMMA FlushType ==
  ASSUME NEW current \in Row, NEW loaded \in Row, NEW new \in Row
  PROVE  Flush(current, loaded, new) \in Row
BY DEF Flush, Dirty, Row

LEMMA LoggedInType ==
  ASSUME NEW row \in Row, NEW p \in Password, row.balance + Bonus <= MaxBalance
  PROVE  LoggedIn(row, p) \in Row
<1>1. row.balance + Bonus \in 0..MaxBalance
  BY ClientsAssumption DEF Row
<1>2. Argon2(p) \in Hash
  BY ArgonType
<1> QED
  BY <1>1, <1>2 DEF LoggedIn, Row

LEMMA WithdrawnType ==
  ASSUME NEW row \in Row, NEW amount \in Amount, Covers(row, amount)
  PROVE  Withdrawn(row, amount) \in Row
<1>1. row.balance - amount \in 0..MaxBalance
  BY ClientsAssumption DEF Row, Covers
<1> QED
  BY <1>1 DEF Withdrawn, Row

LEMMA RenamedType ==
  ASSUME NEW row \in Row, NEW names \in SUBSET NameColumn
  PROVE  Renamed(row, names) \in Row
BY DEF Renamed, Row

LEMMA WithPasswordType ==
  ASSUME NEW row \in Row, NEW p \in Password
  PROVE  WithPassword(row, p) \in Row
BY ArgonType DEF WithPassword, Row

LEMMA DeletedType ==
  ASSUME NEW row \in Row, NEW t \in 1..MaxClock
  PROVE  Deleted(row, t) \in Row
<1>1. [row.email EXCEPT !.freed = t] \in Email
  BY ClientsAssumption DEF Row, Email
<1> QED
  BY <1>1 DEF Deleted, Row

LEMMA BlockedType ==
  ASSUME NEW row \in Row, NEW flag \in BOOLEAN
  PROVE  /\ Blocked(row, flag) \in Row
         /\ [row EXCEPT !.block_at = TRUE] \in Row
BY DEF Blocked, Row

\* What a job is, by its operation.
LEMMA JobFields ==
  ASSUME NEW j \in Job
  PROVE  /\ j.op \in {"register", "login"} \cup Authenticated
         /\ j.op \in {"register", "login"} => j.addr \in Address /\ j.pw \in Password
         /\ j.op \in Authenticated => j.uid \in UserId
         /\ j.op = "withdraw" => j.amount \in Amount
         /\ j.op = "profile" => j.names \in SUBSET NameColumn
         /\ j.op = "password" => j.old \in Password /\ j.new \in Password
         /\ j.op = "delete" => j.since \in 1..MaxClock
         /\ j.op = "block" => j.target \in UserId /\ j.flag \in BOOLEAN
BY DEF Job, Authenticated

-----------------------------------------------------------------------------
(* Types *)

\* What the stage of a request says of its job, the row it has open and the
\* copy it loaded: the part of the handlers' control that the types rest on.
Shape ==
  \A r \in Req :
    /\ pc[r] # "idle" => job[r] \in Job
    /\ pc[r] \in {"auth", "handler"} => job[r].op \in Authenticated
    /\ pc[r] = "select" => job[r].op \in {"register", "login"}
    /\ pc[r] = "session" => job[r].op = "login"
    /\ pc[r] \in {"handler", "commit", "session"}
          /\ ~At(r, "register", "commit") /\ ~At(r, "block", "handler")
         => open[r] \in UserId
    /\ At(r, "withdraw", "commit") => Covers(snap[r], job[r].amount)

TypeInv == TypeOK /\ Shape

\* The initial state is typed.
LEMMA InitType == Init => TypeInv
<1> SUFFICES ASSUME Init PROVE TypeInv
  OBVIOUS
<1> PICK addr \in [Seeded -> Address], hash \in [Seeded -> Hash] :
      /\ users = [u \in UserId |->
                   IF u \in Seeded
                   THEN [NewRow(addr[u], hash[u]) EXCEPT
                          !.names = IF u \in Named THEN NameColumn ELSE {}]
                   ELSE BlankRow]
      /\ lastPw = [u \in UserId |->
                    IF u \in Seeded THEN hash[u].pw ELSE BlankRow.hash.pw]
  BY DEF Init
<1>1. users \in [UserId -> Row]
  <2> SUFFICES ASSUME NEW u \in UserId PROVE users[u] \in Row
    OBVIOUS
  <2>1. CASE u \in Seeded
    <3>1. NewRow(addr[u], hash[u]) \in Row
      BY <2>1, NewRowType
    <3> QED
      BY <2>1, <3>1 DEF Row
  <2>2. CASE u \notin Seeded
    BY <2>2, BlankRowType
  <2> QED
    BY <2>1, <2>2
<1>2. lastPw \in [UserId -> Password]
  BY BlankRowType DEF Row, Hash
<1>3. TableType
  BY <1>1, RowsAssumption, ClientsAssumption DEF Init, TableType
<1>4. RequestType
  <2>1. NoReply \in [op : Op, error : Error, code : Nat]
    BY DEF NoReply, Op, Error
  <2> QED
    BY <2>1, BlankRowType DEF Init, Stage, RequestType
<1>5. HistoryType
  BY <1>2 DEF Init, HistoryType
<1>6. Shape
  BY DEF Init, Shape, At
<1> QED
  BY <1>3, <1>4, <1>5, <1>6 DEF TypeInv, TypeOK

\* The end of a request: it is typed, and shaped as an idle one.
LEMMA EndType ==
  ASSUME TypeInv, NEW r \in Req, NEW e \in Error, NEW c \in Nat, End(r, e, c)
  PROVE  /\ RequestType'
         /\ Shape'
         /\ lock' \in [UserId -> Req \cup {NoReq}]
         /\ barred' \in [Req -> BOOLEAN]
<1> USE DEF TypeInv, TypeOK
<1>1. RequestType'
  <2>1. job[r].op \in Op
    <3>1. job[r] \in Job \cup {NoJob}
      BY DEF RequestType
    <3>2. CASE job[r] \in Job
      BY <3>2, JobFields DEF Op
    <3>3. CASE job[r] = NoJob
      BY <3>3 DEF NoJob, Op
    <3> QED
      BY <3>1, <3>2, <3>3
  <2>2. reply' \in [op : Op, error : Error, code : Nat]
    BY <2>1 DEF End
  <2>3. /\ pc' \in [Req -> Stage]
        /\ job' \in [Req -> Job \cup {NoJob}]
        /\ open' \in [Req -> UserId \cup {NoUser}]
        /\ snap' \in [Req -> Row]
    BY BlankRowType DEF End, RequestType, Stage
  <2> QED
    BY <2>2, <2>3 DEF RequestType
<1>2. Shape'
  BY DEF End, RequestType, Shape, At
<1>3. lock' \in [UserId -> Req \cup {NoReq}]
  BY DEF End, TableType
<1>4. barred' \in [Req -> BOOLEAN]
  BY DEF End, HistoryType
<1> QED
  BY <1>1, <1>2, <1>3, <1>4

LEMMA RejectType ==
  ASSUME TypeInv, NEW r \in Req, NEW e \in Error, NEW c \in Nat, Reject(r, e, c)
  PROVE  TypeInv'
<1>1. End(r, e, c)
  BY DEF Reject
<1>2. TableType'
  BY <1>1, EndType DEF Reject, TypeInv, TypeOK, TableType
<1>3. HistoryType'
  BY <1>1, EndType DEF Reject, ledger, TypeInv, TypeOK, HistoryType
<1> QED
  BY <1>1, <1>2, <1>3, EndType DEF TypeInv, TypeOK

\* Loading a row.
LEMMA LoadType ==
  ASSUME TypeInv, NEW r \in Req, NEW u \in UserId, Load(r, u)
  PROVE  /\ open' \in [Req -> UserId \cup {NoUser}]
         /\ open'[r] = u
         /\ \A q \in Req \ {r} : open'[q] = open[q] /\ snap'[q] = snap[q]
         /\ snap' \in [Req -> Row]
         /\ overlapped' \in SUBSET UserId
BY DEF Load, TypeInv, TypeOK, TableType, RequestType, HistoryType

\* Committing a row that has its type.
LEMMA CommitType ==
  ASSUME TypeInv, NEW r \in Req, NEW row \in Row, NEW next \in {"after", "session"},
         open[r] \in UserId, job[r] \in Job,
         next = "session" => job[r].op = "login",
         Commit(r, row, next)
  PROVE  /\ users' \in [UserId -> Row]
         /\ RequestType'
         /\ Shape'
<1> USE DEF TypeInv, TypeOK
<1>1. users' \in [UserId -> Row]
  BY DEF Commit, TableType
<1>2. NoReply \in [op : Op, error : Error, code : Nat]
  BY DEF NoReply, Op, Error
<1>3. RequestType'
  BY <1>2, BlankRowType DEF Commit, RequestType, Stage
<1>4. Shape'
  BY DEF Commit, RequestType, Shape, At
<1> QED
  BY <1>1, <1>3, <1>4

\* One lemma per action, in the order of Accounts.
LEMMA NoReplyType == NoReply \in [op : Op, error : Error, code : Nat]
BY DEF NoReply, Op, Error

LEMMA BeginType ==
  ASSUME TypeInv, NEW r \in Req, NEW j \in Job, Begin(r, j)
  PROVE  TypeInv'
<1> USE DEF TypeInv, TypeOK
<1>1. TableType'
  BY DEF Begin, table, TableType
<1>2. RequestType'
  BY NoReplyType DEF Begin, RequestType, Stage
<1>3. HistoryType'
  <2>1. barred' \in [Req -> BOOLEAN]
    <3>1. CASE UNCHANGED barred
      BY <3>1 DEF HistoryType
    <3>2. CASE /\ j.op \in Authenticated
               /\ barred' = [barred EXCEPT ![r] =
                               users[j.uid].blocked \/ users[j.uid].deleted]
      <4>1. j.uid \in UserId
        BY <3>2, JobFields
      <4>2. users[j.uid].blocked \in BOOLEAN /\ users[j.uid].deleted \in BOOLEAN
        BY <4>1 DEF TableType, Row
      <4> QED
        BY <3>2, <4>2 DEF HistoryType
    <3> QED
      BY <3>1, <3>2 DEF Begin
  <2> QED
    BY <2>1 DEF Begin, ledger, HistoryType
<1>4. Shape'
  <2>1. /\ pc[r] = "idle"
        /\ job' = [job EXCEPT ![r] = j]
        /\ open' = open /\ snap' = snap
        /\ \/ j.op \in Authenticated /\ pc' = [pc EXCEPT ![r] = "auth"]
           \/ j.op \notin Authenticated /\ pc' = [pc EXCEPT ![r] = "select"]
    BY DEF Begin
  <2>2. j.op \in {"register", "login"} \cup Authenticated
    BY JobFields
  <2> QED
    BY <2>1, <2>2 DEF RequestType, Shape, At
<1> QED
  BY <1>1, <1>2, <1>3, <1>4

LEMMA RefuseCallerType ==
  ASSUME TypeInv, NEW r \in Req, RefuseCaller(r)
  PROVE  TypeInv'
BY RejectType DEF RefuseCaller, Error

LEMMA AdmitUserType ==
  ASSUME TypeInv, NEW r \in Req, AdmitUser(r)
  PROVE  TypeInv'
<1> USE DEF TypeInv, TypeOK
<1>1. job[r] \in Job /\ job[r].op \in Authenticated /\ job[r].uid \in UserId
  BY JobFields DEF AdmitUser, Shape
<1>2. Load(r, job[r].uid)
  BY DEF AdmitUser
<1>3. TableType'
  BY DEF AdmitUser, table, TableType
<1>4. RequestType'
  BY <1>1, <1>2, LoadType, NoReplyType DEF AdmitUser, RequestType, Stage
<1>5. HistoryType'
  BY <1>1, <1>2, LoadType DEF AdmitUser, ledger, HistoryType
<1>6. Shape'
  BY <1>1, <1>2, LoadType DEF AdmitUser, RequestType, Shape, At
<1> QED
  BY <1>3, <1>4, <1>5, <1>6

LEMMA AdmitAdminType ==
  ASSUME TypeInv, NEW r \in Req, AdmitAdmin(r)
  PROVE  TypeInv'
<1> USE DEF TypeInv, TypeOK
<1>1. job[r] \in Job /\ job[r].op \in Authenticated
  BY DEF AdmitAdmin, Shape
<1>2. TableType'
  BY DEF AdmitAdmin, table, TableType
<1>3. RequestType'
  BY NoReplyType DEF AdmitAdmin, RequestType, Stage
<1>4. HistoryType'
  BY DEF AdmitAdmin, ledger, HistoryType
<1>5. Shape'
  BY <1>1 DEF AdmitAdmin, RequestType, Shape, At
<1> QED
  BY <1>2, <1>3, <1>4, <1>5

LEMMA RegisterSelectType ==
  ASSUME TypeInv, NEW r \in Req, RegisterSelect(r)
  PROVE  TypeInv'
<1> USE DEF TypeInv, TypeOK
<1>1. CASE Reject(r, "UserAlreadyExistsError", 400)
  BY <1>1, RejectType DEF Error
<1>2. CASE ~Reject(r, "UserAlreadyExistsError", 400)
  <2>1. /\ At(r, "register", "select")
        /\ pc' = [pc EXCEPT ![r] = "commit"]
        /\ reply' = NoReply
        /\ UNCHANGED <<table, clock, job, open, snap, history>>
    BY <1>2 DEF RegisterSelect
  <2>2. TableType'
    BY <2>1 DEF table, TableType
  <2>3. RequestType'
    BY <2>1, NoReplyType DEF RequestType, Stage
  <2>4. HistoryType'
    BY <2>1 DEF history, HistoryType
  <2>5. Shape'
    BY <2>1 DEF RequestType, Shape, At
  <2> QED
    BY <2>2, <2>3, <2>4, <2>5
<1> QED
  BY <1>1, <1>2

LEMMA RegisterInsertType ==
  ASSUME TypeInv, NEW r \in Req, RegisterInsert(r)
  PROVE  TypeInv'
<1> USE DEF TypeInv, TypeOK
<1>1. CASE Reject(r, "IntegrityError", 500)
  BY <1>1, RejectType DEF Error
<1>2. CASE ~Reject(r, "IntegrityError", 500)
  <2>1. At(r, "register", "commit")
    BY DEF RegisterInsert
  <2> PICK u \in UserId \ registered :
         /\ registered' = registered \cup {u}
         /\ users' = [users EXCEPT ![u] = NewRow(job[r].addr, Argon2(job[r].pw))]
         /\ lastPw' = [lastPw EXCEPT ![u] = job[r].pw]
         /\ pc' = [pc EXCEPT ![r] = "after"]
         /\ reply' = NoReply
         /\ UNCHANGED <<lock, clock, job, open, snap, ledger, overlapped,
                        adminOverlap, barred>>
    BY <1>2 DEF RegisterInsert
  <2>2. job[r] \in Job /\ job[r].addr \in Address /\ job[r].pw \in Password
    BY <2>1, JobFields DEF Shape, At
  <2>3. NewRow(job[r].addr, Argon2(job[r].pw)) \in Row
    BY <2>2, ArgonType, NewRowType
  <2>4. TableType'
    BY <2>3 DEF TableType
  <2>5. RequestType'
    BY NoReplyType DEF RequestType, Stage
  <2>6. HistoryType'
    BY <2>2 DEF ledger, HistoryType
  <2>7. Shape'
    BY <2>1, <2>2 DEF RequestType, Shape, At
  <2> QED
    BY <2>4, <2>5, <2>6, <2>7
<1> QED
  BY <1>1, <1>2

LEMMA RefuseLoginType ==
  ASSUME TypeInv, NEW r \in Req, RefuseLogin(r)
  PROVE  TypeInv'
BY RejectType DEF RefuseLogin, Error

LEMMA AcceptLoginType ==
  ASSUME TypeInv, NEW r \in Req, AcceptLogin(r)
  PROVE  TypeInv'
<1> USE DEF TypeInv, TypeOK
<1> PICK u \in Found(r) \ NullBalance : Load(r, u)
  BY DEF AcceptLogin
<1>1. u \in UserId
  BY DEF Found, TableType
<1>2. At(r, "login", "select") /\ job[r] \in Job
  BY DEF AcceptLogin, Shape, At
<1>3. TableType'
  BY DEF AcceptLogin, table, TableType
<1>4. RequestType'
  BY <1>1, LoadType, NoReplyType DEF AcceptLogin, RequestType, Stage
<1>5. HistoryType'
  BY <1>1, LoadType DEF AcceptLogin, ledger, HistoryType
<1>6. Shape'
  BY <1>1, <1>2, LoadType DEF AcceptLogin, RequestType, Shape, At
<1> QED
  BY <1>3, <1>4, <1>5, <1>6

LEMMA LoginCommitType ==
  ASSUME TypeInv, NEW r \in Req, LoginCommit(r)
  PROVE  TypeInv'
<1> USE DEF TypeInv, TypeOK
<1> DEFINE u == open[r]
           row == Flush(users[u], snap[r], LoggedIn(snap[r], job[r].pw))
<1>1. At(r, "login", "commit") /\ job[r] \in Job /\ u \in UserId
  BY DEF LoginCommit, Shape, At
<1>2. job[r].pw \in Password /\ snap[r] \in Row /\ users[u] \in Row
  BY <1>1, JobFields DEF At, RequestType, TableType
<1>3. LoggedIn(snap[r], job[r].pw) \in Row
  BY <1>2, LoggedInType DEF LoginCommit
<1>4. row \in Row
  BY <1>2, <1>3, FlushType
<1>5. Commit(r, row, "session")
  BY DEF LoginCommit
<1>6. users' \in [UserId -> Row] /\ RequestType' /\ Shape'
  BY <1>1, <1>4, <1>5, CommitType DEF At
<1>7. TableType'
  BY <1>6 DEF LoginCommit, TableType
<1>8. HistoryType'
  BY <1>1 DEF LoginCommit, HistoryType
<1> QED
  BY <1>6, <1>7, <1>8

LEMMA LoginOverflowType ==
  ASSUME TypeInv, NEW r \in Req, LoginOverflow(r)
  PROVE  TypeInv'
BY RejectType DEF LoginOverflow, Error

LEMMA LoginSessionType ==
  ASSUME TypeInv, NEW r \in Req, LoginSession(r)
  PROVE  TypeInv'
<1> USE DEF TypeInv, TypeOK
<1>1. open[r] \in UserId
  BY DEF LoginSession, Shape, At
<1>2. End(r, "none", 200)
  BY DEF LoginSession
<1>3. /\ RequestType' /\ Shape'
      /\ lock' \in [UserId -> Req \cup {NoReq}]
      /\ barred' \in [Req -> BOOLEAN]
  BY <1>2, EndType DEF Error
<1>4. TableType'
  BY <1>3 DEF LoginSession, TableType
<1>5. HistoryType'
  BY <1>1, <1>3 DEF LoginSession, HistoryType
<1> QED
  BY <1>3, <1>4, <1>5

LEMMA RefuseWithdrawalType ==
  ASSUME TypeInv, NEW r \in Req, RefuseWithdrawal(r)
  PROVE  TypeInv'
BY RejectType DEF RefuseWithdrawal, Error

LEMMA WithdrawLockType ==
  ASSUME TypeInv, NEW r \in Req, WithdrawLock(r)
  PROVE  TypeInv'
<1> USE DEF TypeInv, TypeOK
<1>1. At(r, "withdraw", "handler") /\ job[r] \in Job /\ open[r] \in UserId
  BY DEF WithdrawLock, Shape, At
<1>2. TableType'
  BY DEF WithdrawLock, TableType
<1>3. RequestType'
  BY NoReplyType DEF WithdrawLock, RequestType, Stage
<1>4. HistoryType'
  BY DEF WithdrawLock, history, HistoryType
<1>5. Shape'
  BY <1>1 DEF WithdrawLock, RequestType, Shape, At, Covers
<1> QED
  BY <1>2, <1>3, <1>4, <1>5

LEMMA WithdrawCommitType ==
  ASSUME TypeInv, NEW r \in Req, WithdrawCommit(r)
  PROVE  TypeInv'
<1> USE DEF TypeInv, TypeOK
<1> DEFINE u == open[r]
           row == Flush(users[u], snap[r], Withdrawn(snap[r], job[r].amount))
<1>1. At(r, "withdraw", "commit") /\ job[r] \in Job /\ u \in UserId
  BY DEF WithdrawCommit, Shape, At
<1>2. /\ job[r].amount \in Amount /\ snap[r] \in Row /\ users[u] \in Row
      /\ Covers(snap[r], job[r].amount)
  BY <1>1, JobFields DEF At, Shape, RequestType, TableType
<1>3. row \in Row
  BY <1>2, WithdrawnType, FlushType
<1>4. Commit(r, row, "after")
  BY DEF WithdrawCommit
<1>5. users' \in [UserId -> Row] /\ RequestType' /\ Shape'
  BY <1>1, <1>3, <1>4, CommitType
<1>6. TableType'
  BY <1>5 DEF WithdrawCommit, TableType
<1>7. HistoryType'
  <2>1. job[r].amount \in Nat
    BY <1>2, ClientsAssumption
  <2> QED
    BY <1>1, <2>1 DEF WithdrawCommit, HistoryType
<1> QED
  BY <1>5, <1>6, <1>7

LEMMA UpdateProfileType ==
  ASSUME TypeInv, NEW r \in Req, UpdateProfile(r)
  PROVE  TypeInv'
<1> USE DEF TypeInv, TypeOK
<1> DEFINE u == open[r]
           row == Flush(users[u], snap[r], Renamed(snap[r], job[r].names))
<1>1. At(r, "profile", "handler") /\ job[r] \in Job /\ u \in UserId
  BY DEF UpdateProfile, Shape, At
<1>2. job[r].names \in SUBSET NameColumn /\ snap[r] \in Row /\ users[u] \in Row
  BY <1>1, JobFields DEF At, RequestType, TableType
<1>3. row \in Row
  BY <1>2, RenamedType, FlushType
<1>4. users' \in [UserId -> Row] /\ RequestType' /\ Shape'
  BY <1>1, <1>3, CommitType DEF UpdateProfile
<1>5. TableType'
  BY <1>4 DEF UpdateProfile, TableType
<1>6. HistoryType'
  BY DEF UpdateProfile, history, HistoryType
<1> QED
  BY <1>4, <1>5, <1>6

LEMMA RefusePasswordChangeType ==
  ASSUME TypeInv, NEW r \in Req, RefusePasswordChange(r)
  PROVE  TypeInv'
BY RejectType DEF RefusePasswordChange, Error

LEMMA ChangePasswordType ==
  ASSUME TypeInv, NEW r \in Req, ChangePassword(r)
  PROVE  TypeInv'
<1> USE DEF TypeInv, TypeOK
<1>1. At(r, "password", "handler") /\ job[r] \in Job /\ open[r] \in UserId
  BY DEF ChangePassword, Shape, At
<1>2. job[r].new \in Password /\ users[open[r]] \in Row
  BY <1>1, JobFields DEF At, TableType
<1>3. WithPassword(users[open[r]], job[r].new) \in Row
  BY <1>2, WithPasswordType
<1>4. users' \in [UserId -> Row] /\ RequestType' /\ Shape'
  BY <1>1, <1>3, CommitType DEF ChangePassword
<1>5. TableType'
  BY <1>4 DEF ChangePassword, TableType
<1>6. HistoryType'
  BY <1>2 DEF ChangePassword, ledger, HistoryType
<1> QED
  BY <1>4, <1>5, <1>6

\* The second that a deletion puts in the address.
LEMMA SecondType ==
  ASSUME TypeInv, NEW r \in Req, SoftDelete(r), NEW t \in job[r].since..clock
  PROVE  t \in 1..MaxClock
<1>1. job[r].since \in 1..MaxClock
  BY JobFields DEF SoftDelete, TypeInv, Shape, At
<1>2. clock \in 1..MaxClock
  BY DEF TypeInv, TypeOK, TableType
<1> QED
  BY <1>1, <1>2, ClientsAssumption

LEMMA SoftDeleteType ==
  ASSUME TypeInv, NEW r \in Req, SoftDelete(r)
  PROVE  TypeInv'
<1> USE DEF TypeInv, TypeOK
<1> DEFINE u == open[r]
           row(t) == Flush(users[u], snap[r], Deleted(snap[r], t))
<1>1. CASE Reject(r, "DataError", 500) \/ Reject(r, "IntegrityError", 500)
  BY <1>1, RejectType DEF Error
<1>2. ASSUME NEW t \in job[r].since..clock, Commit(r, row(t), "after"),
             UNCHANGED <<registered, lock, clock, history>>
      PROVE  TypeInv'
  <2>1. job[r] \in Job /\ u \in UserId /\ t \in 1..MaxClock
    BY SecondType DEF SoftDelete, Shape, At
  <2>2. snap[r] \in Row /\ users[u] \in Row
    BY <2>1 DEF RequestType, TableType
  <2>3. row(t) \in Row
    BY <2>1, <2>2, DeletedType, FlushType
  <2>4. users' \in [UserId -> Row] /\ RequestType' /\ Shape'
    BY <1>2, <2>1, <2>3, CommitType
  <2>5. TableType'
    BY <1>2, <2>4 DEF TableType
  <2>6. HistoryType'
    BY <1>2 DEF history, HistoryType
  <2> QED
    BY <2>4, <2>5, <2>6
<1> QED
  BY <1>1, <1>2 DEF SoftDelete

LEMMA BlockSelectType ==
  ASSUME TypeInv, NEW r \in Req, BlockSelect(r)
  PROVE  TypeInv'
<1> USE DEF TypeInv, TypeOK
<1>1. CASE Reject(r, "HTTPException", 404)
  BY <1>1, RejectType DEF Error
<1>2. CASE ~Reject(r, "HTTPException", 404)
  <2>1. At(r, "block", "handler") /\ job[r] \in Job /\ job[r].target \in UserId
    BY JobFields DEF BlockSelect, Shape, At
  <2>2. /\ Load(r, job[r].target)
        /\ pc' = [pc EXCEPT ![r] = "commit"]
        /\ reply' = NoReply
        /\ UNCHANGED <<table, clock, job, ledger, lastPw, adminOverlap, barred>>
    BY <1>2 DEF BlockSelect
  <2>3. TableType'
    BY <2>2 DEF table, TableType
  <2>4. RequestType'
    BY <2>1, <2>2, LoadType, NoReplyType DEF RequestType, Stage
  <2>5. HistoryType'
    BY <2>1, <2>2, LoadType DEF ledger, HistoryType
  <2>6. Shape'
    BY <2>1, <2>2, LoadType DEF RequestType, Shape, At
  <2> QED
    BY <2>3, <2>4, <2>5, <2>6
<1> QED
  BY <1>1, <1>2

LEMMA BlockCommitType ==
  ASSUME TypeInv, NEW r \in Req, BlockCommit(r)
  PROVE  TypeInv'
<1> USE DEF TypeInv, TypeOK
<1> DEFINE t == open[r]
           flushed == Flush(users[t], snap[r], Blocked(snap[r], job[r].flag))
           row == IF job[r].flag THEN [flushed EXCEPT !.block_at = TRUE] ELSE flushed
<1>1. At(r, "block", "commit") /\ job[r] \in Job /\ t \in UserId
  BY DEF BlockCommit, Shape, At
<1>2. job[r].flag \in BOOLEAN /\ snap[r] \in Row /\ users[t] \in Row
  BY <1>1, JobFields DEF At, RequestType, TableType
<1>3. flushed \in Row
  BY <1>2, BlockedType, FlushType
<1>4. row \in Row
  BY <1>3, BlockedType
<1>5. users' \in [UserId -> Row] /\ RequestType' /\ Shape'
  BY <1>1, <1>4, CommitType DEF BlockCommit
<1>6. TableType'
  BY <1>5 DEF BlockCommit, TableType
<1>7. HistoryType'
  <2>1. barred' \in [Req -> BOOLEAN]
    BY DEF BlockCommit, HistoryType
  <2> QED
    BY <2>1 DEF BlockCommit, ledger, HistoryType
<1> QED
  BY <1>5, <1>6, <1>7

LEMMA RespondType ==
  ASSUME TypeInv, NEW r \in Req, Respond(r)
  PROVE  TypeInv'
<1> DEFINE code == CASE job[r].op = "register" -> 201
                     [] job[r].op = "delete" -> 204
                     [] OTHER -> 200
<1>1. code \in Nat
  OBVIOUS
<1> QED
  BY <1>1, RejectType DEF Respond, Error

LEMMA AbortType ==
  ASSUME TypeInv, NEW r \in Req, Abort(r)
  PROVE  TypeInv'
<1> DEFINE code == IF job[r].op = "withdraw" /\ pc[r] # "auth" THEN 403 ELSE 500
<1>1. code \in Nat
  OBVIOUS
<1> QED
  BY <1>1, RejectType DEF Abort, Error

LEMMA TickType ==
  ASSUME TypeInv, Tick
  PROVE  TypeInv'
<1> USE DEF TypeInv, TypeOK
<1>1. TableType'
  BY ClientsAssumption DEF Tick, table, TableType
<1>2. RequestType'
  BY NoReplyType DEF Tick, requests, RequestType
<1>3. HistoryType'
  BY DEF Tick, history, HistoryType
<1>4. Shape'
  BY DEF Tick, requests, Shape, At
<1> QED
  BY <1>1, <1>2, <1>3, <1>4

\* Every step keeps the types.
LEMMA NextType == TypeInv /\ [Next]_vars => TypeInv'
<1> SUFFICES ASSUME TypeInv, [Next]_vars PROVE TypeInv'
  OBVIOUS
<1>1. CASE UNCHANGED vars
  <2>1. TableType' /\ RequestType' /\ HistoryType'
    BY <1>1 DEF vars, TypeInv, TypeOK, TableType, RequestType, HistoryType
  <2>2. Shape'
    BY <1>1 DEF vars, TypeInv, Shape, At
  <2> QED
    BY <2>1, <2>2 DEF TypeInv, TypeOK
<1>2. ASSUME NEW r \in Req, \E j \in Job : Begin(r, j) PROVE TypeInv'
  BY <1>2, BeginType
<1>3. ASSUME NEW r \in Req, Locking(r) PROVE TypeInv'
  BY <1>3, LoginCommitType, LoginOverflowType, RefuseWithdrawalType,
     WithdrawLockType, UpdateProfileType, ChangePasswordType, SoftDeleteType,
     BlockCommitType DEF Locking
<1>4. ASSUME NEW r \in Req, Running(r) PROVE TypeInv'
  BY <1>4, RefuseCallerType, AdmitUserType, AdmitAdminType, RegisterSelectType,
     RegisterInsertType, RefuseLoginType, AcceptLoginType, LoginSessionType,
     WithdrawCommitType, RefusePasswordChangeType, BlockSelectType, RespondType
  DEF Running
<1>5. ASSUME NEW r \in Req, Abort(r) PROVE TypeInv'
  BY <1>5, AbortType
<1> QED
  BY <1>1, <1>2, <1>3, <1>4, <1>5, TickType DEF Next

\* Every reachable state of the users table, the requests and the history has
\* its type: no interleaving of withdrawals makes a balance negative or lets it
\* outgrow its column, and every request is shaped as its stage says.
THEOREM Typed == Spec => []TypeInv
BY InitType, NextType, PTL DEF Spec

THEOREM TypesHold == Spec => []TypeOK
<1>1. TypeInv => TypeOK
  BY DEF TypeInv
<1> QED
  BY <1>1, Typed, PTL

-----------------------------------------------------------------------------
(* Balances stay within the bonuses *)

\* BalanceWithinBonuses is not inductive: a handler writes back what it computed
\* from the copy it loaded, so the copies must be within the bonuses as well.
SnapshotsWithinBonuses ==
  \A r \in Req :
    open[r] \in UserId => snap[r].balance <= Bonus * granted[open[r]]

BonusInv == BalanceWithinBonuses /\ SnapshotsWithinBonuses

\* A flush of a copy whose balance the handler left alone keeps the balance that
\* is committed.
LEMMA FlushBalance ==
  ASSUME NEW current, NEW loaded, NEW new
  PROVE  /\ new.balance = loaded.balance =>
              Flush(current, loaded, new).balance = current.balance
         /\ new.balance # loaded.balance =>
              Flush(current, loaded, new).balance = new.balance
BY DEF Flush, Dirty

LEMMA BlankBalance == BlankRow.balance = 0
BY DEF BlankRow, NewRow

LEMMA BonusArithmetic ==
  ASSUME NEW g \in Nat
  PROVE  /\ Bonus * g \in Nat
         /\ Bonus * (g + 1) = Bonus * g + Bonus
BY ClientsAssumption

\* r keeps the copy it has open; r has a copy of a row as it is committed.
Unmoved(r) == open'[r] = open[r] /\ snap'[r] = snap[r]
Fresh(r) == open'[r] \in UserId /\ snap'[r] = users[open'[r]]

\* Steps that credit nothing and change no balance, except to 0, and load copies
\* of rows as they are committed.
LEMMA BalanceStays ==
  ASSUME TypeInv, BonusInv, granted' = granted,
         \A u \in UserId : users'[u].balance \in {0, users[u].balance},
         \A r \in Req : Unmoved(r) \/ snap'[r].balance = 0 \/ Fresh(r)
  PROVE  BonusInv'
<1>1. \A u \in UserId : Bonus * granted[u] \in Nat
  BY BonusArithmetic DEF TypeInv, TypeOK, HistoryType
<1>2. BalanceWithinBonuses'
  BY <1>1 DEF BonusInv, BalanceWithinBonuses
<1>3. SnapshotsWithinBonuses'
  BY <1>1 DEF BonusInv, BalanceWithinBonuses, SnapshotsWithinBonuses, Unmoved, Fresh
<1> QED
  BY <1>2, <1>3 DEF BonusInv

LEMMA RejectBonus ==
  ASSUME TypeInv, BonusInv, NEW r \in Req, NEW e, NEW c, Reject(r, e, c)
  PROVE  BonusInv'
<1>1. granted' = granted
  BY DEF Reject, ledger
<1>2. \A u \in UserId : users'[u].balance \in {0, users[u].balance}
  BY DEF Reject
<1>3. \A q \in Req : Unmoved(q) \/ snap'[q].balance = 0 \/ Fresh(q)
  BY BlankBalance DEF Reject, End, TypeInv, TypeOK, RequestType, Unmoved
<1> QED
  BY <1>1, <1>2, <1>3, BalanceStays

\* Committing a row with the balance that is committed already.
LEMMA CommitBonus ==
  ASSUME TypeInv, BonusInv, NEW r \in Req, NEW row, NEW next,
         open[r] \in UserId, Commit(r, row, next),
         row.balance = users[open[r]].balance, granted' = granted
  PROVE  BonusInv'
<1>1. \A u \in UserId : users'[u].balance \in {0, users[u].balance}
  BY DEF Commit, TypeInv, TypeOK, TableType
<1>2. \A q \in Req : Unmoved(q) \/ snap'[q].balance = 0 \/ Fresh(q)
  BY BlankBalance DEF Commit, TypeInv, TypeOK, RequestType, Unmoved
<1> QED
  BY <1>1, <1>2, BalanceStays

LEMMA LoadBonus ==
  ASSUME TypeInv, BonusInv, NEW r \in Req, NEW u \in UserId, Load(r, u),
         users' = users, granted' = granted
  PROVE  BonusInv'
<1>1. \A q \in Req : Unmoved(q) \/ snap'[q].balance = 0 \/ Fresh(q)
  BY DEF Load, TypeInv, TypeOK, RequestType, Unmoved, Fresh
<1>2. \A v \in UserId : users'[v].balance \in {0, users[v].balance}
  OBVIOUS
<1> QED
  BY <1>1, <1>2, BalanceStays

\* The one step that credits: both the balance it writes and the bonuses of the
\* account grow by one bonus, whatever was committed since the row was loaded.
LEMMA LoginCommitBonus ==
  ASSUME TypeInv, BonusInv, NEW r \in Req, LoginCommit(r)
  PROVE  BonusInv'
<1> DEFINE u == open[r]
           new == LoggedIn(snap[r], job[r].pw)
           row == Flush(users[u], snap[r], new)
<1>1. u \in UserId
  BY DEF LoginCommit, TypeInv, Shape, At
<1>2. /\ snap[r] \in Row
      /\ users[u] \in Row
      /\ \A v \in UserId : granted[v] \in Nat
  BY <1>1 DEF TypeInv, TypeOK, RequestType, TableType, HistoryType
<1>3. new.balance = snap[r].balance + Bonus
  BY <1>2 DEF LoggedIn, Row
<1>4. row.balance = snap[r].balance + Bonus
  BY <1>2, <1>3, FlushBalance, ClientsAssumption DEF Row
<1>5. /\ users' = [users EXCEPT ![u] = row]
      /\ granted' = [granted EXCEPT ![u] = @ + 1]
      /\ snap' = [snap EXCEPT ![r] = BlankRow]
      /\ open' = open
  BY DEF LoginCommit, Commit
<1>6. \A v \in UserId : /\ Bonus * granted[v] \in Nat
                        /\ Bonus * (granted[v] + 1) = Bonus * granted[v] + Bonus
  BY <1>2, BonusArithmetic
<1>7. snap[r].balance <= Bonus * granted[u]
  BY <1>1 DEF BonusInv, SnapshotsWithinBonuses
<1>8. BalanceWithinBonuses'
  <2> SUFFICES ASSUME NEW v \in UserId
               PROVE  users'[v].balance <= Bonus * granted'[v]
    BY DEF BalanceWithinBonuses
  <2>1. CASE v = u
    <3>1. users'[v].balance = snap[r].balance + Bonus
      BY <2>1, <1>1, <1>4, <1>5 DEF TypeInv, TypeOK, TableType
    <3>2. Bonus * granted'[v] = Bonus * granted[u] + Bonus
      BY <2>1, <1>1, <1>5, <1>6 DEF TypeInv, TypeOK, HistoryType
    <3> QED
      BY <3>1, <3>2, <1>1, <1>2, <1>6, <1>7, ClientsAssumption DEF Row
  <2>2. CASE v # u
    BY <2>2, <1>5 DEF BonusInv, BalanceWithinBonuses, TypeInv, TypeOK,
                      TableType, HistoryType
  <2> QED
    BY <2>1, <2>2
<1>9. SnapshotsWithinBonuses'
  <2> SUFFICES ASSUME NEW q \in Req, open'[q] \in UserId
               PROVE  snap'[q].balance <= Bonus * granted'[open'[q]]
    BY DEF SnapshotsWithinBonuses
  <2> DEFINE v == open[q]
  <2>1. v \in UserId /\ open'[q] = v
    BY <1>5
  <2>2. Bonus * granted[v] <= Bonus * granted'[v]
    <3>1. granted'[v] = granted[v] \/ granted'[v] = granted[v] + 1
      BY <1>5, <2>1 DEF TypeInv, TypeOK, HistoryType
    <3> QED
      BY <3>1, <2>1, <1>6, ClientsAssumption
  <2>3. Bonus * granted'[v] \in Nat
    <3>1. granted'[v] \in Nat
      BY <1>2, <1>5, <2>1 DEF TypeInv, TypeOK, HistoryType
    <3> QED
      BY <3>1, BonusArithmetic
  <2>4. CASE q = r
    <3>1. snap'[q].balance = 0
      BY <2>4, <1>5, BlankBalance DEF TypeInv, TypeOK, RequestType
    <3> QED
      BY <3>1, <2>1, <2>3
  <2>5. CASE q # r
    <3>1. snap'[q] = snap[q] /\ snap[q].balance \in Nat
      BY <2>5, <1>5 DEF TypeInv, TypeOK, RequestType, Row
    <3>2. snap[q].balance <= Bonus * granted[v]
      BY <2>1 DEF BonusInv, SnapshotsWithinBonuses
    <3> QED
      BY <3>1, <3>2, <2>1, <2>2, <2>3, <1>6
  <2> QED
    BY <2>4, <2>5
<1> QED
  BY <1>8, <1>9 DEF BonusInv

\* A withdrawal writes less than the copy it loaded.
LEMMA WithdrawCommitBonus ==
  ASSUME TypeInv, BonusInv, NEW r \in Req, WithdrawCommit(r)
  PROVE  BonusInv'
<1> DEFINE u == open[r]
           new == Withdrawn(snap[r], job[r].amount)
           row == Flush(users[u], snap[r], new)
<1>1. u \in UserId /\ job[r].amount \in Amount
  BY JobFields DEF WithdrawCommit, TypeInv, Shape, At
<1>2. snap[r] \in Row /\ users[u] \in Row
  BY <1>1 DEF TypeInv, TypeOK, RequestType, TableType
<1>3. job[r].amount \in Nat \ {0}
  BY <1>1, ClientsAssumption
<1>4. snap[r].balance \in Nat
  BY <1>2, ClientsAssumption DEF Row
<1>5. row.balance = snap[r].balance - job[r].amount
  <2>1. new.balance = snap[r].balance - job[r].amount
    BY <1>2 DEF Withdrawn, Row
  <2>2. new.balance # snap[r].balance
    BY <2>1, <1>3, <1>4
  <2> QED
    BY <2>1, <2>2, FlushBalance
<1>6. /\ users' = [users EXCEPT ![u] = row]
      /\ granted' = granted
      /\ snap' = [snap EXCEPT ![r] = BlankRow]
      /\ open' = open
  BY DEF WithdrawCommit, Commit
<1>7. \A v \in UserId : Bonus * granted[v] \in Nat
  BY BonusArithmetic DEF TypeInv, TypeOK, HistoryType
<1>8. row.balance <= Bonus * granted[u]
  <2>1. snap[r].balance <= Bonus * granted[u]
    BY <1>1 DEF BonusInv, SnapshotsWithinBonuses
  <2> QED
    BY <2>1, <1>1, <1>5, <1>7, <1>3, <1>4
<1>9. BalanceWithinBonuses'
  BY <1>1, <1>6, <1>8 DEF BonusInv, BalanceWithinBonuses, TypeInv, TypeOK, TableType
<1>10. SnapshotsWithinBonuses'
  BY <1>6, <1>7, BlankBalance DEF BonusInv, SnapshotsWithinBonuses, TypeInv,
                                  TypeOK, RequestType
<1> QED
  BY <1>9, <1>10 DEF BonusInv

\* Steps that touch neither the table nor a copy of a row.
LEMMA IdleBonus ==
  ASSUME TypeInv, BonusInv,
         users' = users, granted' = granted, open' = open, snap' = snap
  PROVE  BonusInv'
<1>1. \A q \in Req : Unmoved(q) \/ snap'[q].balance = 0 \/ Fresh(q)
  BY DEF Unmoved
<1>2. \A v \in UserId : users'[v].balance \in {0, users[v].balance}
  OBVIOUS
<1> QED
  BY <1>1, <1>2, BalanceStays

LEMMA InitBonus == Init => BonusInv
<1> SUFFICES ASSUME Init PROVE BonusInv
  OBVIOUS
<1>1. \A u \in UserId : Bonus * granted[u] = 0
  BY ClientsAssumption DEF Init
<1>2. BalanceWithinBonuses
  <2> PICK addr \in [Seeded -> Address], hash \in [Seeded -> Hash] :
        users = [u \in UserId |->
                  IF u \in Seeded
                  THEN [NewRow(addr[u], hash[u]) EXCEPT
                         !.names = IF u \in Named THEN NameColumn ELSE {}]
                  ELSE BlankRow]
    BY DEF Init
  <2>1. \A u \in UserId : users[u].balance = 0
    BY BlankBalance DEF NewRow
  <2> QED
    BY <1>1, <2>1 DEF BalanceWithinBonuses
<1>3. SnapshotsWithinBonuses
  BY RowsAssumption DEF Init, SnapshotsWithinBonuses
<1> QED
  BY <1>2, <1>3 DEF BonusInv

LEMMA NextBonus == TypeInv /\ BonusInv /\ [Next]_vars => BonusInv'
<1> SUFFICES ASSUME TypeInv, BonusInv, [Next]_vars PROVE BonusInv'
  OBVIOUS
<1>1. CASE UNCHANGED vars \/ Tick
  BY <1>1, IdleBonus DEF vars, Tick, table, requests, history
<1>2. ASSUME NEW r \in Req, NEW j \in Job, Begin(r, j) PROVE BonusInv'
  BY <1>2, IdleBonus DEF Begin, table, ledger
<1>3. ASSUME NEW r \in Req, Abort(r) PROVE BonusInv'
  BY <1>3, RejectBonus DEF Abort
<1>4. ASSUME NEW r \in Req, Locking(r) PROVE BonusInv'
  <2>1. CASE LoginCommit(r)
    BY <2>1, LoginCommitBonus
  <2>2. CASE LoginOverflow(r) \/ RefuseWithdrawal(r)
    BY <2>2, RejectBonus DEF LoginOverflow, RefuseWithdrawal
  <2>3. CASE WithdrawLock(r)
    BY <2>3, IdleBonus DEF WithdrawLock, history
  <2>4. CASE UpdateProfile(r)
    <3> DEFINE row == Flush(users[open[r]], snap[r], Renamed(snap[r], job[r].names))
    <3>1. open[r] \in UserId /\ snap[r] \in Row
      BY <2>4 DEF UpdateProfile, TypeInv, TypeOK, RequestType, Shape, At
    <3>2. row.balance = users[open[r]].balance
      <4>1. Renamed(snap[r], job[r].names).balance = snap[r].balance
        BY <3>1 DEF Renamed, Row
      <4> QED
        BY <4>1, FlushBalance
    <3>3. Commit(r, row, "after") /\ granted' = granted
      BY <2>4 DEF UpdateProfile, history
    <3> QED
      BY <3>1, <3>2, <3>3, CommitBonus
  <2>5. CASE ChangePassword(r)
    <3> DEFINE row == WithPassword(users[open[r]], job[r].new)
    <3>1. open[r] \in UserId
      BY <2>5 DEF ChangePassword, TypeInv, Shape, At
    <3>2. row.balance = users[open[r]].balance
      BY <3>1 DEF WithPassword, TypeInv, TypeOK, TableType, Row
    <3>3. Commit(r, row, "after") /\ granted' = granted
      BY <2>5 DEF ChangePassword, ledger
    <3> QED
      BY <3>1, <3>2, <3>3, CommitBonus
  <2>6. CASE SoftDelete(r)
    <3> DEFINE row(t) == Flush(users[open[r]], snap[r], Deleted(snap[r], t))
    <3>1. CASE Reject(r, "DataError", 500) \/ Reject(r, "IntegrityError", 500)
      BY <3>1, RejectBonus
    <3>2. ASSUME NEW t, Commit(r, row(t), "after"), UNCHANGED history
          PROVE  BonusInv'
      <4>1. open[r] \in UserId /\ snap[r] \in Row
        BY <2>6 DEF SoftDelete, TypeInv, TypeOK, RequestType, Shape, At
      <4>2. Deleted(snap[r], t).balance = snap[r].balance
        BY <4>1 DEF Deleted, Row
      <4>3. row(t).balance = users[open[r]].balance
        BY <4>2, FlushBalance
      <4>4. granted' = granted
        BY <3>2 DEF history
      <4> QED
        BY <3>2, <4>1, <4>3, <4>4, CommitBonus
    <3> QED
      BY <2>6, <3>1, <3>2 DEF SoftDelete
  <2>7. CASE BlockCommit(r)
    <3> DEFINE flushed == Flush(users[open[r]], snap[r], Blocked(snap[r], job[r].flag))
               row == IF job[r].flag THEN [flushed EXCEPT !.block_at = TRUE]
                      ELSE flushed
    <3>1. open[r] \in UserId /\ snap[r] \in Row
      BY <2>7 DEF BlockCommit, TypeInv, TypeOK, RequestType, Shape, At
    <3>2. Blocked(snap[r], job[r].flag).balance = snap[r].balance
      BY <3>1 DEF Blocked, Row
    <3>3. flushed.balance = users[open[r]].balance
      BY <3>2, FlushBalance
    <3>4. row.balance = flushed.balance
      BY DEF Flush
    <3>5. Commit(r, row, "after") /\ granted' = granted
      BY <2>7 DEF BlockCommit, ledger
    <3> QED
      BY <3>1, <3>3, <3>4, <3>5, CommitBonus
  <2> QED
    BY <1>4, <2>1, <2>2, <2>3, <2>4, <2>5, <2>6, <2>7 DEF Locking
<1>5. ASSUME NEW r \in Req, Running(r) PROVE BonusInv'
  <2>1. CASE \/ RefuseCaller(r) \/ RefuseLogin(r) \/ RefusePasswordChange(r)
             \/ Respond(r)
    BY <2>1, RejectBonus DEF RefuseCaller, RefuseLogin, RefusePasswordChange, Respond
  <2>2. CASE AdmitUser(r)
    <3>1. job[r].uid \in UserId
      BY <2>2, JobFields DEF AdmitUser, TypeInv, Shape
    <3> QED
      BY <2>2, <3>1, LoadBonus DEF AdmitUser, table, ledger
  <2>3. CASE AdmitAdmin(r)
    BY <2>3, IdleBonus DEF AdmitAdmin, table, ledger
  <2>4. CASE RegisterSelect(r)
    BY <2>4, IdleBonus, RejectBonus DEF RegisterSelect, table, history
  <2>5. CASE RegisterInsert(r)
    <3>1. CASE Reject(r, "IntegrityError", 500)
      BY <3>1, RejectBonus
    <3>2. CASE ~Reject(r, "IntegrityError", 500)
      <4> PICK u \in UserId :
             /\ users' = [users EXCEPT
                           ![u] = NewRow(job[r].addr, Argon2(job[r].pw))]
             /\ open' = open /\ snap' = snap /\ granted' = granted
        BY <2>5, <3>2 DEF RegisterInsert, ledger
      <4>1. \A v \in UserId : users'[v].balance \in {0, users[v].balance}
        BY DEF NewRow, TypeInv, TypeOK, TableType
      <4>2. \A q \in Req : Unmoved(q) \/ snap'[q].balance = 0 \/ Fresh(q)
        BY DEF Unmoved
      <4> QED
        BY <4>1, <4>2, BalanceStays
    <3> QED
      BY <3>1, <3>2
  <2>6. CASE AcceptLogin(r)
    <3> PICK u \in Found(r) \ NullBalance : Load(r, u)
      BY <2>6 DEF AcceptLogin
    <3>1. u \in UserId
      BY DEF Found, TypeInv, TypeOK, TableType
    <3> QED
      BY <2>6, <3>1, LoadBonus DEF AcceptLogin, table, ledger
  <2>7. CASE LoginSession(r)
    <3>1. users' = users /\ granted' = granted /\ End(r, "none", 200)
      BY <2>7 DEF LoginSession
    <3>2. \A q \in Req : Unmoved(q) \/ snap'[q].balance = 0 \/ Fresh(q)
      BY <3>1, BlankBalance DEF End, TypeInv, TypeOK, RequestType, Unmoved
    <3>3. \A v \in UserId : users'[v].balance \in {0, users[v].balance}
      BY <3>1
    <3> QED
      BY <3>1, <3>2, <3>3, BalanceStays
  <2>8. CASE WithdrawCommit(r)
    BY <2>8, WithdrawCommitBonus
  <2>9. CASE BlockSelect(r)
    <3>1. job[r].target \in UserId
      BY <2>9, JobFields DEF BlockSelect, TypeInv, Shape, At
    <3> QED
      BY <2>9, <3>1, LoadBonus, RejectBonus DEF BlockSelect, table, ledger
  <2> QED
    BY <1>5, <2>1, <2>2, <2>3, <2>4, <2>5, <2>6, <2>7, <2>8, <2>9 DEF Running
<1> QED
  BY <1>1, <1>2, <1>3, <1>4, <1>5 DEF Next

\* However many requests interleave, and wherever they fail, no balance exceeds
\* the bonuses of the logins committed on its account.
THEOREM Bonuses == Spec => []BalanceWithinBonuses
<1>1. Init => BonusInv
  BY InitBonus
<1>2. BonusInv => BalanceWithinBonuses
  BY DEF BonusInv
<1>3. Spec => []BonusInv
  BY <1>1, NextBonus, Typed, PTL DEF Spec
<1> QED
  BY <1>2, <1>3, PTL

-----------------------------------------------------------------------------
(* Accounts that no two requests had open at once *)

\* The ledger and the password of such an account are exact because at most one
\* request holds it, whose copy is the row itself.
Exclusive ==
  \A r, q \in Req, u \in UserId : r # q /\ Holds(r, u) /\ Holds(q, u) => u \in overlapped

Current ==
  \A r \in Req, u \in UserId : Holds(r, u) /\ u \notin overlapped => snap[r] = users[u]

Opened ==
  \A r \in Req :
    /\ open[r] \in UserId => open[r] \in registered
    /\ pc[r] \in {"idle", "auth", "select"} => open[r] = NoUser
    /\ pc[r] = "auth" => job[r].uid \in registered
    /\ At(r, "login", "commit") => snap[r].hash.pw = job[r].pw

Unused == \A u \in UserId \ registered : granted[u] = 0 /\ paid[u] = 0

SerialInv ==
  /\ Exclusive /\ Current /\ Opened /\ Unused
  /\ SerialLedgerExact /\ SerialPasswordSticks

\* A request that keeps the row it has open as it is, or lets it go.
Keeps(r) ==
  /\ open'[r] \in {open[r], NoUser}
  /\ open'[r] # NoUser /\ pc'[r] \in {"handler", "commit"} =>
       pc[r] \in {"handler", "commit"} /\ snap'[r] = snap[r]
  /\ pc'[r] \in {"idle", "auth", "select"} => open'[r] = NoUser
  /\ pc'[r] = "auth" => job'[r].uid \in registered
  /\ pc'[r] = "commit" /\ job'[r].op = "login" =>
       At(r, "login", "commit") /\ snap'[r] = snap[r] /\ job'[r] = job[r]

LEMMA UnmovedKeeps ==
  ASSUME SerialInv, NEW r \in Req,
         pc'[r] = pc[r], job'[r] = job[r], open'[r] = open[r], snap'[r] = snap[r]
  PROVE  Keeps(r)
BY DEF SerialInv, Opened, Keeps, At

\* Steps that commit nothing and load nothing.
LEMMA KeepsSerial ==
  ASSUME TypeInv, SerialInv, \A r \in Req : Keeps(r),
         UNCHANGED <<users, registered, granted, paid, lastPw, overlapped>>
  PROVE  SerialInv'
<1> USE RowsAssumption DEF SerialInv
<1>1. \A r \in Req, u \in UserId : Holds(r, u)' => Holds(r, u) /\ snap'[r] = snap[r]
  BY DEF Holds, Keeps
<1>2. Exclusive' /\ Current'
  BY <1>1 DEF Exclusive, Current
<1>3. Opened'
  BY DEF Opened, Keeps, At
<1>4. Unused' /\ SerialLedgerExact' /\ SerialPasswordSticks'
  BY DEF Unused, SerialLedgerExact, SerialPasswordSticks
<1> QED
  BY <1>2, <1>3, <1>4

LEMMA EndKeeps ==
  ASSUME TypeInv, SerialInv, NEW r \in Req, NEW e, NEW c, End(r, e, c)
  PROVE  \A q \in Req : Keeps(q)
<1>1. /\ pc'[r] = "idle" /\ open'[r] = NoUser
      /\ \A q \in Req \ {r} : /\ pc'[q] = pc[q] /\ job'[q] = job[q]
                              /\ open'[q] = open[q] /\ snap'[q] = snap[q]
  BY DEF End, TypeInv, TypeOK, RequestType
<1>2. Keeps(r)
  BY <1>1 DEF Keeps
<1> QED
  BY <1>1, <1>2, UnmovedKeeps

LEMMA RejectSerial ==
  ASSUME TypeInv, SerialInv, NEW r \in Req, NEW e, NEW c, Reject(r, e, c)
  PROVE  SerialInv'
BY EndKeeps, KeepsSerial DEF Reject, ledger

\* A step that takes a request from one stage to the next.
LEMMA MoveSerial ==
  ASSUME TypeInv, SerialInv, NEW r \in Req, NEW stage, pc' = [pc EXCEPT ![r] = stage],
         UNCHANGED <<open, snap, users, registered, granted, paid, lastPw, overlapped>>,
         \A q \in Req \ {r} : job'[q] = job[q], Keeps(r)
  PROVE  SerialInv'
<1>1. \A q \in Req \ {r} : pc'[q] = pc[q]
  BY DEF TypeInv, TypeOK, RequestType
<1> QED
  BY <1>1, UnmovedKeeps, KeepsSerial

\* A step in which a request loads a row of the table.
LEMMA LoadSerial ==
  ASSUME TypeInv, SerialInv, NEW r \in Req, NEW u \in registered, Load(r, u),
         UNCHANGED <<users, registered, granted, paid, lastPw, job>>,
         NEW stage \in {"handler", "commit"}, pc' = [pc EXCEPT ![r] = stage],
         stage = "commit" /\ job[r].op = "login" => users[u].hash.pw = job[r].pw
  PROVE  SerialInv'
<1> USE RowsAssumption DEF SerialInv, TypeInv, TypeOK, RequestType, TableType
<1>0. u \in UserId /\ overlapped \subseteq overlapped'
  BY DEF Load
<1>1. /\ pc'[r] = stage /\ open'[r] = u /\ snap'[r] = users[u]
      /\ \A q \in Req \ {r} : /\ pc'[q] = pc[q] /\ open'[q] = open[q]
                              /\ snap'[q] = snap[q]
  BY <1>0 DEF Load
<1>2. \A q \in Req \ {r}, v \in UserId : Holds(q, v)' <=> Holds(q, v)
  BY <1>1 DEF Holds
<1>3. \A v \in UserId : Holds(r, v)' <=> v = u
  BY <1>1 DEF Holds
<1>4. \A q \in Req \ {r} : Holds(q, u) => u \in overlapped'
  BY DEF Load
<1>5. Exclusive'
  BY <1>0, <1>2, <1>3, <1>4 DEF Exclusive
<1>6. Current'
  BY <1>0, <1>1, <1>2, <1>3 DEF Current
<1>7. Opened'
  BY <1>0, <1>1 DEF Opened, At
<1>8. Unused' /\ SerialLedgerExact' /\ SerialPasswordSticks'
  BY <1>0 DEF Unused, SerialLedgerExact, SerialPasswordSticks
<1> QED
  BY <1>5, <1>6, <1>7, <1>8

\* A step that commits the row a request holds: if nobody else ever had it open,
\* it has to balance and to have the password last set.
LEMMA CommitSerial ==
  ASSUME TypeInv, SerialInv, NEW r \in Req, NEW u \in UserId, Holds(r, u),
         NEW row, NEW next \in {"after", "session"}, Commit(r, row, next),
         UNCHANGED <<registered, overlapped>>,
         \A v \in UserId \ {u} : /\ granted'[v] = granted[v] /\ paid'[v] = paid[v]
                                 /\ lastPw'[v] = lastPw[v],
         u \notin overlapped /\ snap[r] = users[u] =>
           /\ row.balance = Bonus * granted'[u] - paid'[u]
           /\ row.hash.pw = lastPw'[u]
  PROVE  SerialInv'
<1> USE RowsAssumption DEF SerialInv, TypeInv, TypeOK, RequestType, TableType
<1>0. open[r] = u /\ u \in registered
  BY DEF Holds, Opened
<1>1. /\ pc'[r] = next /\ open' = open /\ job' = job
      /\ \A q \in Req \ {r} : pc'[q] = pc[q] /\ snap'[q] = snap[q]
      /\ users'[u] = row
      /\ \A v \in UserId \ {u} : users'[v] = users[v]
  BY <1>0 DEF Commit
<1>2. \A q \in Req, v \in UserId : Holds(q, v)' => q # r /\ Holds(q, v) /\ snap'[q] = snap[q]
  BY <1>1 DEF Holds
<1>3. Exclusive'
  BY <1>2 DEF Exclusive
<1>4. Current'
  BY <1>1, <1>2 DEF Current, Exclusive
<1>5. Opened'
  BY <1>1 DEF Opened, At
<1>6. Unused'
  BY <1>0 DEF Unused
<1>7. u \notin overlapped => snap[r] = users[u]
  BY DEF Current
<1>8. SerialLedgerExact' /\ SerialPasswordSticks'
  BY <1>1, <1>7 DEF SerialLedgerExact, SerialPasswordSticks
<1> QED
  BY <1>3, <1>4, <1>5, <1>6, <1>8

\* A flush onto the row that was loaded writes the object as it is.
LEMMA FlushCurrent ==
  ASSUME NEW row, NEW new
  PROVE  /\ Flush(row, row, new).balance = new.balance
         /\ Flush(row, row, new).hash = new.hash
BY DEF Flush, Dirty

\* ... and a handler that writes neither keeps the balance and the password.
LEMMA NeitherSerial ==
  ASSUME TypeInv, SerialInv, NEW r \in Req, NEW u \in UserId, Holds(r, u),
         NEW row, Commit(r, row, "after"),
         UNCHANGED <<registered, overlapped, granted, paid, lastPw>>,
         snap[r] = users[u] => /\ row.balance = users[u].balance
                               /\ row.hash = users[u].hash
  PROVE  SerialInv'
<1>1. u \notin overlapped => /\ users[u].balance = Bonus * granted[u] - paid[u]
                             /\ users[u].hash.pw = lastPw[u]
  BY DEF SerialInv, Opened, Holds, SerialLedgerExact, SerialPasswordSticks
<1> QED
  BY <1>1, CommitSerial

LEMMA LoginCommitSerial ==
  ASSUME TypeInv, SerialInv, NEW r \in Req, LoginCommit(r)
  PROVE  SerialInv'
<1> DEFINE u == open[r]
           new == LoggedIn(snap[r], job[r].pw)
           row == Flush(users[u], snap[r], new)
<1>1. u \in UserId /\ Holds(r, u) /\ snap[r].hash.pw = job[r].pw
  BY DEF LoginCommit, TypeInv, Shape, At, Holds, SerialInv, Opened
<1>2. snap[r] \in Row /\ granted[u] \in Nat /\ paid[u] \in Nat
  BY <1>1 DEF TypeInv, TypeOK, RequestType, HistoryType
<1>3. new.balance = snap[r].balance + Bonus /\ new.hash.pw = job[r].pw
  BY <1>2 DEF LoggedIn, Row, Argon2
<1>4. /\ Commit(r, row, "session") /\ UNCHANGED <<registered, overlapped, paid, lastPw>>
      /\ granted' = [granted EXCEPT ![u] = @ + 1]
  BY DEF LoginCommit
<1>5. granted'[u] = granted[u] + 1 /\ \A v \in UserId \ {u} : granted'[v] = granted[v]
  BY <1>1, <1>4 DEF TypeInv, TypeOK, HistoryType
<1>6. ASSUME u \notin overlapped, snap[r] = users[u]
      PROVE  /\ row.balance = Bonus * granted'[u] - paid'[u]
             /\ row.hash.pw = lastPw'[u]
  <2>1. /\ users[u].balance = Bonus * granted[u] - paid[u]
        /\ users[u].hash.pw = lastPw[u]
    BY <1>1, <1>6 DEF SerialInv, Opened, SerialLedgerExact, SerialPasswordSticks
  <2>2. row.balance = users[u].balance + Bonus /\ row.hash.pw = lastPw[u]
    BY <1>1, <1>3, <1>6, <2>1, FlushCurrent
  <2>3. Bonus * (granted[u] + 1) = Bonus * granted[u] + Bonus /\ Bonus * granted[u] \in Nat
    BY <1>2, BonusArithmetic
  <2> QED
    BY <1>2, <1>4, <1>5, <2>1, <2>2, <2>3, ClientsAssumption
<1> QED
  BY <1>1, <1>4, <1>5, <1>6, CommitSerial

LEMMA WithdrawCommitSerial ==
  ASSUME TypeInv, SerialInv, NEW r \in Req, WithdrawCommit(r)
  PROVE  SerialInv'
<1> DEFINE u == open[r]
           new == Withdrawn(snap[r], job[r].amount)
           row == Flush(users[u], snap[r], new)
<1>1. u \in UserId /\ Holds(r, u) /\ job[r].amount \in Nat
  BY JobFields, ClientsAssumption DEF WithdrawCommit, TypeInv, Shape, At, Holds
<1>2. snap[r] \in Row /\ granted[u] \in Nat /\ paid[u] \in Nat
  BY <1>1 DEF TypeInv, TypeOK, RequestType, HistoryType
<1>3. new.balance = snap[r].balance - job[r].amount /\ new.hash = snap[r].hash
  BY <1>2 DEF Withdrawn, Row
<1>4. /\ Commit(r, row, "after") /\ UNCHANGED <<registered, overlapped, granted, lastPw>>
      /\ paid' = [paid EXCEPT ![u] = @ + job[r].amount]
  BY DEF WithdrawCommit
<1>5. paid'[u] = paid[u] + job[r].amount /\ \A v \in UserId \ {u} : paid'[v] = paid[v]
  BY <1>1, <1>4 DEF TypeInv, TypeOK, HistoryType
<1>6. ASSUME u \notin overlapped, snap[r] = users[u]
      PROVE  /\ row.balance = Bonus * granted'[u] - paid'[u]
             /\ row.hash.pw = lastPw'[u]
  <2>1. /\ users[u].balance = Bonus * granted[u] - paid[u]
        /\ users[u].hash.pw = lastPw[u]
    BY <1>1, <1>6 DEF SerialInv, Opened, SerialLedgerExact, SerialPasswordSticks
  <2>2. row.balance = users[u].balance - job[r].amount /\ row.hash.pw = lastPw[u]
    BY <1>3, <1>6, <2>1, FlushCurrent
  <2>3. Bonus * granted[u] \in Nat
    BY <1>2, BonusArithmetic
  <2> QED
    BY <1>1, <1>2, <1>4, <1>5, <2>1, <2>2, <2>3
<1> QED
  BY <1>1, <1>4, <1>5, <1>6, CommitSerial

LEMMA ChangePasswordSerial ==
  ASSUME TypeInv, SerialInv, NEW r \in Req, ChangePassword(r)
  PROVE  SerialInv'
<1> DEFINE u == open[r]
           row == WithPassword(users[u], job[r].new)
<1>1. u \in UserId /\ Holds(r, u)
  BY DEF ChangePassword, TypeInv, Shape, At, Holds
<1>2. row.balance = users[u].balance /\ row.hash.pw = job[r].new
  BY <1>1 DEF WithPassword, Argon2, TypeInv, TypeOK, TableType, Row
<1>3. /\ Commit(r, row, "after") /\ UNCHANGED <<registered, overlapped, granted, paid>>
      /\ lastPw' = [lastPw EXCEPT ![u] = job[r].new]
  BY DEF ChangePassword, ledger
<1>4. lastPw'[u] = job[r].new /\ \A v \in UserId \ {u} : lastPw'[v] = lastPw[v]
  BY <1>1, <1>3 DEF TypeInv, TypeOK, HistoryType
<1>5. u \notin overlapped => users[u].balance = Bonus * granted[u] - paid[u]
  BY <1>1 DEF SerialInv, Opened, SerialLedgerExact
<1> QED
  BY <1>1, <1>2, <1>3, <1>4, <1>5, CommitSerial

\* The commits that write other columns.
LEMMA OtherCommitSerial ==
  ASSUME TypeInv, SerialInv, NEW r \in Req,
         UpdateProfile(r) \/ SoftDelete(r) \/ BlockCommit(r)
  PROVE  SerialInv'
<1> DEFINE u == open[r]
<1>1. u \in UserId /\ Holds(r, u) /\ snap[r] \in Row
  BY DEF UpdateProfile, SoftDelete, BlockCommit, TypeInv, TypeOK, RequestType, Shape,
     At, Holds
<1>2. CASE UpdateProfile(r)
  <2> DEFINE new == Renamed(snap[r], job[r].names)
             row == Flush(users[u], snap[r], new)
  <2>1. new.balance = snap[r].balance /\ new.hash = snap[r].hash
    BY <1>1 DEF Renamed, Row
  <2>2. snap[r] = users[u] => row.balance = users[u].balance /\ row.hash = users[u].hash
    BY <2>1, FlushCurrent
  <2>3. /\ Commit(r, row, "after")
        /\ UNCHANGED <<registered, overlapped, granted, paid, lastPw>>
    BY <1>2 DEF UpdateProfile, history
  <2> QED
    BY <1>1, <2>2, <2>3, NeitherSerial
<1>3. CASE SoftDelete(r)
  <2> DEFINE new(t) == Deleted(snap[r], t)
             row(t) == Flush(users[u], snap[r], new(t))
  <2>1. ASSUME NEW t
        PROVE  new(t).balance = snap[r].balance /\ new(t).hash = snap[r].hash
    BY <1>1 DEF Deleted, Row
  <2>2. ASSUME NEW t
        PROVE  snap[r] = users[u] =>
                 row(t).balance = users[u].balance /\ row(t).hash = users[u].hash
    BY <2>1, FlushCurrent
  <2>3. ASSUME NEW t, Commit(r, row(t), "after"),
               UNCHANGED <<registered, overlapped, granted, paid, lastPw>>
        PROVE  SerialInv'
    BY <1>1, <2>2, <2>3, NeitherSerial
  <2>4. CASE Reject(r, "DataError", 500) \/ Reject(r, "IntegrityError", 500)
    BY <2>4, RejectSerial
  <2> QED
    BY <1>3, <2>3, <2>4 DEF SoftDelete, history
<1>4. CASE BlockCommit(r)
  <2> DEFINE new == Blocked(snap[r], job[r].flag)
             flushed == Flush(users[u], snap[r], new)
             row == IF job[r].flag THEN [flushed EXCEPT !.block_at = TRUE] ELSE flushed
  <2>1. new.balance = snap[r].balance /\ new.hash = snap[r].hash
    BY <1>1 DEF Blocked, Row
  <2>2. snap[r] = users[u] =>
          flushed.balance = users[u].balance /\ flushed.hash = users[u].hash
    BY <2>1, FlushCurrent
  <2>3. row.balance = flushed.balance /\ row.hash = flushed.hash
    BY DEF Flush
  <2>4. /\ Commit(r, row, "after")
        /\ UNCHANGED <<registered, overlapped, granted, paid, lastPw>>
    BY <1>4 DEF BlockCommit, ledger
  <2> QED
    BY <1>1, <2>2, <2>3, <2>4, NeitherSerial
<1> QED
  BY <1>2, <1>3, <1>4

LEMMA RegisterInsertSerial ==
  ASSUME TypeInv, SerialInv, NEW r \in Req, RegisterInsert(r)
  PROVE  SerialInv'
<1>1. CASE Reject(r, "IntegrityError", 500)
  BY <1>1, RejectSerial
<1>2. CASE ~Reject(r, "IntegrityError", 500)
  <2> USE RowsAssumption DEF SerialInv, TypeInv, TypeOK, RequestType, TableType,
                             HistoryType
  <2> DEFINE row == NewRow(job[r].addr, Argon2(job[r].pw))
  <2> PICK u \in UserId \ registered :
        /\ registered' = registered \cup {u}
        /\ users' = [users EXCEPT ![u] = row]
        /\ lastPw' = [lastPw EXCEPT ![u] = job[r].pw]
        /\ pc' = [pc EXCEPT ![r] = "after"]
        /\ UNCHANGED <<job, open, snap, granted, paid, overlapped>>
    BY <1>2 DEF RegisterInsert, ledger
  <2>1. row.balance = 0 /\ row.hash.pw = job[r].pw
    BY DEF NewRow, Argon2
  <2>2. Bonus * granted[u] - paid[u] = 0
    BY ClientsAssumption DEF Unused
  <2>3. \A q \in Req, v \in UserId : Holds(q, v)' => Holds(q, v) /\ v # u
    BY DEF Holds, Opened
  <2>4. Exclusive' /\ Current'
    BY <2>3 DEF Exclusive, Current
  <2>5. Opened' /\ Unused'
    BY DEF Opened, Unused, At
  <2>6. SerialLedgerExact' /\ SerialPasswordSticks'
    BY <2>1, <2>2 DEF SerialLedgerExact, SerialPasswordSticks
  <2> QED
    BY <2>4, <2>5, <2>6
<1> QED
  BY <1>1, <1>2

LEMMA InitSerial == Init => SerialInv
<1> SUFFICES ASSUME Init PROVE SerialInv
  OBVIOUS
<1>1. Exclusive /\ Current /\ Opened /\ Unused
  BY RowsAssumption DEF Init, Exclusive, Current, Opened, Unused, Holds, At
<1>2. Bonus * 0 - 0 = 0
  BY ClientsAssumption
<1>3. \A u \in UserId : granted[u] = 0 /\ paid[u] = 0
  BY DEF Init
<1>4. \A u \in Seeded : users[u].balance = 0 /\ users[u].hash.pw = lastPw[u]
  BY RowsAssumption DEF Init, NewRow
<1>5. registered = Seeded
  BY DEF Init
<1>6. SerialLedgerExact /\ SerialPasswordSticks
  BY <1>2, <1>3, <1>4, <1>5, RowsAssumption DEF SerialLedgerExact, SerialPasswordSticks
<1> QED
  BY <1>1, <1>6 DEF SerialInv

LEMMA NextSerial == TypeInv /\ SerialInv /\ [Next]_vars => SerialInv'
<1> SUFFICES ASSUME TypeInv, SerialInv, [Next]_vars PROVE SerialInv'
  OBVIOUS
<1>1. CASE UNCHANGED vars \/ Tick
  BY <1>1, UnmovedKeeps, KeepsSerial DEF vars, Tick, table, requests, history
<1>2. ASSUME NEW r \in Req, NEW j \in Job, Begin(r, j) PROVE SerialInv'
  <2>1. pc[r] = "idle" /\ open[r] = NoUser
    BY <1>2 DEF Begin, SerialInv, Opened
  <2>2. PICK stage \in {"auth", "select"} :
            pc' = [pc EXCEPT ![r] = stage] /\ (stage = "auth" => j.uid \in registered)
    BY <1>2 DEF Begin
  <2>3. /\ job'[r] = j
        /\ UNCHANGED <<open, snap, users, registered, granted, paid, lastPw, overlapped>>
        /\ \A q \in Req \ {r} : job'[q] = job[q]
    BY <1>2 DEF Begin, table, ledger, TypeInv, TypeOK, RequestType
  <2>4. Keeps(r)
    BY <2>1, <2>2, <2>3 DEF Keeps, TypeInv, TypeOK, RequestType
  <2> QED
    BY <2>2, <2>3, <2>4, MoveSerial
<1>3. ASSUME NEW r \in Req, Abort(r) PROVE SerialInv'
  BY <1>3, RejectSerial DEF Abort
<1>4. ASSUME NEW r \in Req, Locking(r) PROVE SerialInv'
  <2>1. CASE WithdrawLock(r)
    <3>1. /\ pc' = [pc EXCEPT ![r] = "commit"]
          /\ UNCHANGED <<open, snap, users, registered, granted, paid, lastPw, overlapped>>
          /\ job' = job /\ pc[r] = "handler" /\ job[r].op = "withdraw"
      BY <2>1 DEF WithdrawLock, history, At
    <3>2. Keeps(r)
      BY <3>1 DEF Keeps, TypeInv, TypeOK, RequestType
    <3> QED
      BY <3>1, <3>2, MoveSerial
  <2>2. CASE LoginOverflow(r) \/ RefuseWithdrawal(r)
    BY <2>2, RejectSerial DEF LoginOverflow, RefuseWithdrawal
  <2> QED
    BY <1>4, <2>1, <2>2, LoginCommitSerial, ChangePasswordSerial, OtherCommitSerial
       DEF Locking
<1>5. ASSUME NEW r \in Req, Running(r) PROVE SerialInv'
  <2>1. CASE \/ RefuseCaller(r) \/ RefuseLogin(r) \/ RefusePasswordChange(r)
             \/ Respond(r)
    BY <2>1, RejectSerial DEF RefuseCaller, RefuseLogin, RefusePasswordChange, Respond
  <2>2. CASE AdmitUser(r)
    <3>1. job[r].uid \in registered /\ job[r].op # "login"
      BY <2>2 DEF AdmitUser, SerialInv, Opened, TypeInv, Shape, Authenticated
    <3> QED
      BY <2>2, <3>1, LoadSerial DEF AdmitUser, table, ledger
  <2>3. CASE AdmitAdmin(r)
    <3>1. /\ pc' = [pc EXCEPT ![r] = "handler"] /\ pc[r] = "auth" /\ open[r] = NoUser
          /\ UNCHANGED <<open, snap, users, registered, granted, paid, lastPw, overlapped>>
          /\ job' = job
      BY <2>3 DEF AdmitAdmin, table, ledger, SerialInv, Opened
    <3>2. Keeps(r)
      BY <3>1 DEF Keeps, TypeInv, TypeOK, RequestType
    <3> QED
      BY <3>1, <3>2, MoveSerial
  <2>4. CASE RegisterSelect(r)
    <3>1. CASE Reject(r, "UserAlreadyExistsError", 400)
      BY <3>1, RejectSerial
    <3>2. CASE ~Reject(r, "UserAlreadyExistsError", 400)
      <4>1. /\ pc' = [pc EXCEPT ![r] = "commit"] /\ open[r] = NoUser
            /\ UNCHANGED <<open, snap, users, registered, granted, paid, lastPw, overlapped>>
            /\ job' = job /\ job[r].op = "register"
        BY <2>4, <3>2 DEF RegisterSelect, At, table, history, SerialInv, Opened
      <4>2. Keeps(r)
        BY <4>1 DEF Keeps, TypeInv, TypeOK, RequestType
      <4> QED
        BY <4>1, <4>2, MoveSerial
    <3> QED
      BY <3>1, <3>2
  <2>5. CASE AcceptLogin(r)
    <3>1. PICK u \in Found(r) \ NullBalance : users[u].hash.pw = job[r].pw /\ Load(r, u)
      BY <2>5 DEF AcceptLogin
    <3>2. u \in registered
      BY DEF Found
    <3> QED
      BY <2>5, <3>1, <3>2, LoadSerial DEF AcceptLogin, table, ledger
  <2>6. CASE LoginSession(r)
    BY <2>6, EndKeeps, KeepsSerial DEF LoginSession
  <2>7. CASE BlockSelect(r)
    <3>1. CASE Reject(r, "HTTPException", 404)
      BY <3>1, RejectSerial
    <3>2. CASE ~Reject(r, "HTTPException", 404)
      BY <2>7, <3>2, LoadSerial DEF BlockSelect, At, table, ledger
    <3> QED
      BY <3>1, <3>2
  <2> QED
    BY <1>5, <2>1, <2>2, <2>3, <2>4, <2>5, <2>6, <2>7, RegisterInsertSerial,
       WithdrawCommitSerial DEF Running
<1> QED
  BY <1>1, <1>2, <1>3, <1>4, <1>5 DEF Next

LEMMA Serial == Spec => []SerialInv
BY InitSerial, NextSerial, Typed, PTL DEF Spec

\* An account that no two requests had open at once has exactly the bonuses of
\* its logins minus what was withdrawn, whatever failed in between.
THEOREM LedgerExact == Spec => []SerialLedgerExact
<1>1. SerialInv => SerialLedgerExact
  BY DEF SerialInv
<1> QED
  BY <1>1, Serial, PTL

\* An account that no two requests had open at once has the password it was last
\* given, by registering or by changing it, whatever hashes logins upgraded.
THEOREM PasswordSticks == Spec => []SerialPasswordSticks
<1>1. SerialInv => SerialPasswordSticks
  BY DEF SerialInv
<1> QED
  BY <1>1, Serial, PTL
=============================================================================
