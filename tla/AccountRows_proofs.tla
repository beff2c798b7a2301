------------------------- MODULE AccountRows_proofs -------------------------
(***************************************************************************)
(* Proofs about the rows of Accounts and who writes which of their         *)
(* columns, also where requests have a row open together; and about what a *)
(* blocked account, the admins, a login that fails and a request that      *)
(* holds a row lock can still do.                                          *)
(***************************************************************************)
EXTENDS AccountContract_proofs, FiniteSetTheorems

-----------------------------------------------------------------------------
(* What the commit of each operation leaves as it is *)

SameIdentity(u) ==
  users'[u].email = users[u].email /\ users'[u].deleted = users[u].deleted
SameStanding(u) ==
  users'[u].blocked = users[u].blocked /\ users'[u].block_at = users[u].block_at
SameBalance(u) == users'[u].balance = users[u].balance
SameHash(u) == users'[u].hash = users[u].hash
SameNames(u) == users'[u].names = users[u].names

\* A row is deleted exactly if its address is freed.
Freed(row) == row.deleted <=> row.email.freed # 0

Frees(u) ==
  /\ users'[u].deleted /\ users'[u].email.freed # 0
  /\ ~EmailTaken(u, users'[u].email)

\* A flag is written, or left as it is because the copy had it already.
Bars(r, u) == users'[u].blocked \in {job[r].flag, users[u].blocked}

Wrote(r, u) ==
  \/ job[r].op = "login" /\ SameIdentity(u) /\ SameStanding(u) /\ SameNames(u)
  \/ /\ job[r].op = "withdraw"
     /\ SameIdentity(u) /\ SameStanding(u) /\ SameNames(u) /\ SameHash(u)
  \/ /\ job[r].op = "profile"
     /\ SameIdentity(u) /\ SameStanding(u) /\ SameBalance(u) /\ SameHash(u)
  \/ /\ job[r].op = "password"
     /\ SameIdentity(u) /\ SameStanding(u) /\ SameBalance(u) /\ SameNames(u)
  \/ /\ job[r].op = "delete" /\ Frees(u)
     /\ SameStanding(u) /\ SameBalance(u) /\ SameHash(u) /\ SameNames(u)
  \/ /\ At(r, "block", "commit") /\ Bars(r, u)
     /\ SameIdentity(u) /\ SameBalance(u) /\ SameHash(u) /\ SameNames(u)

\* A request commits the row it holds, and no other.
Writes(r, u) ==
  /\ u \in registered /\ Holds(r, u) /\ pc'[r] \in {"after", "session"}
  /\ registered' = registered
  /\ \A v \in UserId \ {u} : users'[v] = users[v]
  /\ Wrote(r, u)

LEMMA CommitWrites ==
  ASSUME TypeInv, SerialInv, NEW r \in Req, NEW u \in UserId, Holds(r, u),
         NEW row, NEW next \in {"after", "session"}, Commit(r, row, next),
         registered' = registered, users'[u] = row => Wrote(r, u)
  PROVE  Writes(r, u)
<1>1. u \in registered /\ open[r] = u
  BY DEF Holds, SerialInv, Opened
<1>2. users'[u] = row /\ \A v \in UserId \ {u} : users'[v] = users[v]
  BY <1>1 DEF Commit, TypeInv, TypeOK, TableType
<1>3. pc'[r] = next
  BY DEF Commit, TypeInv, TypeOK, RequestType
<1> QED
  BY <1>1, <1>2, <1>3 DEF Writes

\* What a handler has not changed in its copy stays as it is in the table.
LEMMA FlushKeeps ==
  ASSUME NEW current \in Row, NEW loaded, NEW new
  PROVE  LET row == Flush(current, loaded, new) IN
         /\ new.email = loaded.email => row.email = current.email
         /\ new.hash = loaded.hash => row.hash = current.hash
         /\ new.names = loaded.names => row.names = current.names
         /\ new.balance = loaded.balance => row.balance = current.balance
         /\ new.blocked = loaded.blocked => row.blocked = current.blocked
         /\ new.block_at = loaded.block_at => row.block_at = current.block_at
         /\ new.deleted = loaded.deleted => row.deleted = current.deleted
BY DEF Flush, Dirty

LEMMA LoginWrites ==
  ASSUME TypeInv, SerialInv, NEW r \in Req, LoginCommit(r)
  PROVE  Writes(r, open[r])
<1> DEFINE u == open[r]
           new == LoggedIn(snap[r], job[r].pw)
<1>1. /\ u \in UserId /\ Holds(r, u) /\ snap[r] \in Row /\ users[u] \in Row
      /\ job[r].op = "login"
  BY DEF LoginCommit, TypeInv, TypeOK, TableType, RequestType, Shape, At, Holds
<1>2. /\ new.email = snap[r].email /\ new.deleted = snap[r].deleted
      /\ new.names = snap[r].names
      /\ new.blocked = snap[r].blocked /\ new.block_at = snap[r].block_at
  BY <1>1 DEF LoggedIn, Row
<1>3. ASSUME users'[u] = Flush(users[u], snap[r], new) PROVE Wrote(r, u)
  BY <1>1, <1>2, <1>3, FlushKeeps DEF Wrote, SameIdentity, SameStanding, SameNames
<1> QED
  BY <1>1, <1>3, CommitWrites DEF LoginCommit

LEMMA WithdrawWrites ==
  ASSUME TypeInv, SerialInv, NEW r \in Req, WithdrawCommit(r)
  PROVE  Writes(r, open[r])
<1> DEFINE u == open[r]
           new == Withdrawn(snap[r], job[r].amount)
<1>1. /\ u \in UserId /\ Holds(r, u) /\ snap[r] \in Row /\ users[u] \in Row
      /\ job[r].op = "withdraw"
  BY DEF WithdrawCommit, TypeInv, TypeOK, TableType, RequestType, Shape, At, Holds
<1>2. /\ new.email = snap[r].email /\ new.deleted = snap[r].deleted
      /\ new.names = snap[r].names /\ new.hash = snap[r].hash
      /\ new.blocked = snap[r].blocked /\ new.block_at = snap[r].block_at
  BY <1>1 DEF Withdrawn, Row
<1>3. ASSUME users'[u] = Flush(users[u], snap[r], new) PROVE Wrote(r, u)
  BY <1>1, <1>2, <1>3, FlushKeeps
     DEF Wrote, SameIdentity, SameStanding, SameNames, SameHash
<1> QED
  BY <1>1, <1>3, CommitWrites DEF WithdrawCommit

LEMMA ProfileWrites ==
  ASSUME TypeInv, SerialInv, NEW r \in Req, UpdateProfile(r)
  PROVE  Writes(r, open[r])
<1> DEFINE u == open[r]
           new == Renamed(snap[r], job[r].names)
<1>1. /\ u \in UserId /\ Holds(r, u) /\ snap[r] \in Row /\ users[u] \in Row
      /\ job[r].op = "profile"
  BY DEF UpdateProfile, TypeInv, TypeOK, TableType, RequestType, Shape, At, Holds
<1>2. /\ new.email = snap[r].email /\ new.deleted = snap[r].deleted
      /\ new.balance = snap[r].balance /\ new.hash = snap[r].hash
      /\ new.blocked = snap[r].blocked /\ new.block_at = snap[r].block_at
  BY <1>1 DEF Renamed, Row
<1>3. ASSUME users'[u] = Flush(users[u], snap[r], new) PROVE Wrote(r, u)
  BY <1>1, <1>2, <1>3, FlushKeeps
     DEF Wrote, SameIdentity, SameStanding, SameBalance, SameHash
<1> QED
  BY <1>1, <1>3, CommitWrites DEF UpdateProfile

LEMMA PasswordWrites ==
  ASSUME TypeInv, SerialInv, NEW r \in Req, ChangePassword(r)
  PROVE  Writes(r, open[r])
<1> DEFINE u == open[r]
           row == WithPassword(users[u], job[r].new)
<1>1. u \in UserId /\ Holds(r, u) /\ users[u] \in Row /\ job[r].op = "password"
  BY DEF ChangePassword, TypeInv, TypeOK, TableType, Shape, At, Holds
<1>2. /\ row.email = users[u].email /\ row.deleted = users[u].deleted
      /\ row.balance = users[u].balance /\ row.names = users[u].names
      /\ row.blocked = users[u].blocked /\ row.block_at = users[u].block_at
  BY <1>1 DEF WithPassword, Row
<1>3. ASSUME users'[u] = row PROVE Wrote(r, u)
  BY <1>1, <1>2, <1>3 DEF Wrote, SameIdentity, SameStanding, SameBalance, SameNames
<1> QED
  BY <1>1, <1>3, CommitWrites DEF ChangePassword

\* A deletion frees the address, or is refused.
LEMMA DeleteWrites ==
  ASSUME TypeInv, SerialInv, LicenseInv, NEW r \in Req, SoftDelete(r),
         Freed(snap[r])
  PROVE  Writes(r, open[r]) \/ UNCHANGED <<users, registered>>
<1> DEFINE u == open[r]
           new(t) == Deleted(snap[r], t)
<1>1. u \in UserId /\ Holds(r, u) /\ Active(snap[r]) /\ job[r].op = "delete"
  BY DEF SoftDelete, TypeInv, Shape, At, Holds, LicenseInv, Licensed
<1>2. snap[r] \in Row /\ users[u] \in Row
  BY <1>1 DEF TypeInv, TypeOK, TableType, RequestType
<1>3. ASSUME NEW t
      PROVE  /\ new(t).balance = snap[r].balance /\ new(t).hash = snap[r].hash
             /\ new(t).blocked = snap[r].blocked /\ new(t).block_at = snap[r].block_at
             /\ new(t).names = snap[r].names
  BY <1>2 DEF Deleted, Row
<1>4. ASSUME NEW t PROVE new(t).deleted = TRUE /\ new(t).email.freed = t
  BY <1>2 DEF Deleted, Row, Email
<1>5. ASSUME NEW t \in job[r].since..clock PROVE t # 0
  BY SecondType, ClientsAssumption
<1>6. snap[r].deleted = FALSE /\ snap[r].email.freed = 0
  BY <1>1, <1>2 DEF Active, Freed, Row
<1>7. ASSUME NEW t \in job[r].since..clock,
             Commit(r, Flush(users[u], snap[r], new(t)), "after"),
             ~EmailTaken(u, new(t).email), UNCHANGED registered
      PROVE  Writes(r, u)
  <2>1. ASSUME users'[u] = Flush(users[u], snap[r], new(t)) PROVE Wrote(r, u)
    <3>1. new(t).deleted = TRUE /\ new(t).email.freed = t /\ t # 0
      BY <1>4, <1>5
    <3>2. users'[u].deleted = TRUE /\ users'[u].email = new(t).email
      <4> HIDE DEF new
      <4> QED
        BY <1>6, <2>1, <3>1 DEF Flush, Dirty
    <3>3. Frees(u)
      BY <1>7, <3>1, <3>2 DEF Frees
    <3>4. /\ new(t).balance = snap[r].balance /\ new(t).hash = snap[r].hash
          /\ new(t).blocked = snap[r].blocked /\ new(t).block_at = snap[r].block_at
          /\ new(t).names = snap[r].names
      BY <1>3
    <3> HIDE DEF new
    <3> QED
      BY <1>1, <1>2, <2>1, <3>3, <3>4, FlushKeeps
         DEF Wrote, SameStanding, SameBalance, SameHash, SameNames
  <2> QED
    BY <1>1, <1>7, <2>1, CommitWrites
<1>8. CASE Reject(r, "DataError", 500) \/ Reject(r, "IntegrityError", 500)
  BY <1>8 DEF Reject
<1> QED
  BY <1>7, <1>8 DEF SoftDelete

LEMMA BlockWrites ==
  ASSUME TypeInv, SerialInv, NEW r \in Req, BlockCommit(r)
  PROVE  Writes(r, open[r])
<1> DEFINE u == open[r]
           flag == job[r].flag
           new == Blocked(snap[r], flag)
           flushed == Flush(users[u], snap[r], new)
           row == IF flag THEN [flushed EXCEPT !.block_at = TRUE] ELSE flushed
<1>1. /\ u \in UserId /\ Holds(r, u) /\ snap[r] \in Row /\ users[u] \in Row
      /\ At(r, "block", "commit") /\ flag \in BOOLEAN
  BY JobFields DEF BlockCommit, TypeInv, TypeOK, TableType, RequestType, Shape, At, Holds
<1>2. /\ new.email = snap[r].email /\ new.deleted = snap[r].deleted
      /\ new.balance = snap[r].balance /\ new.hash = snap[r].hash
      /\ new.names = snap[r].names /\ new.blocked = flag
  BY <1>1 DEF Blocked, Row
<1>3. /\ row.email = flushed.email /\ row.deleted = flushed.deleted
      /\ row.balance = flushed.balance /\ row.hash = flushed.hash
      /\ row.names = flushed.names /\ row.blocked = flushed.blocked
  BY DEF Flush
<1>4. flushed.blocked = IF flag # snap[r].blocked THEN flag ELSE users[u].blocked
  BY <1>2 DEF Flush, Dirty
<1>5. ASSUME users'[u] = row PROVE Wrote(r, u)
  <2>1. SameIdentity(u) /\ SameBalance(u) /\ SameHash(u) /\ SameNames(u)
    BY <1>1, <1>2, <1>3, <1>5, FlushKeeps DEF SameIdentity, SameBalance, SameHash, SameNames
  <2>2. Bars(r, u)
    BY <1>1, <1>3, <1>4, <1>5 DEF Bars, Row
  <2> QED
    BY <1>1, <2>1, <2>2 DEF Wrote
<1> QED
  BY <1>1, <1>5, CommitWrites DEF BlockCommit, ledger

\* A registration inserts a row with an address that is free.
Inserts(u) ==
  /\ registered' = registered \cup {u}
  /\ \A v \in UserId \ {u} : users'[v] = users[v]
  /\ ~users'[u].deleted /\ users'[u].email.freed = 0
  /\ ~EmailTaken(u, users'[u].email)

LEMMA RegisterInserts ==
  ASSUME TypeInv, NEW r \in Req, RegisterInsert(r)
  PROVE  \/ UNCHANGED <<users, registered>>
         \/ \E u \in UserId \ registered : Inserts(u)
<1>1. CASE Reject(r, "IntegrityError", 500)
  BY <1>1 DEF Reject
<1>2. CASE ~Reject(r, "IntegrityError", 500)
  <2> DEFINE row == NewRow(job[r].addr, Argon2(job[r].pw))
  <2>1. PICK u \in UserId \ registered :
          /\ ~EmailTaken(u, Plain(job[r].addr))
          /\ registered' = registered \cup {u}
          /\ users' = [users EXCEPT ![u] = row]
    BY <1>2 DEF RegisterInsert
  <2>2. users'[u] = row /\ \A v \in UserId \ {u} : users'[v] = users[v]
    BY <2>1 DEF TypeInv, TypeOK, TableType
  <2>3. row.deleted = FALSE /\ row.email = Plain(job[r].addr) /\ row.email.freed = 0
    BY DEF NewRow, Plain
  <2> QED
    BY <2>1, <2>2, <2>3 DEF Inserts
<1> QED
  BY <1>1, <1>2

\* The unique index, and what ties an address to the deletion of its account.
RowsInv ==
  /\ \A u \in registered : Freed(users[u])
  /\ \A r \in Req : Freed(snap[r])
  /\ \A u, v \in registered : u # v => users[u].email # users[v].email

\* Every step inserts a row, commits one that its request holds, or writes none.
LEMMA StepWrites ==
  ASSUME TypeInv, SerialInv, LicenseInv, RowsInv, [Next]_vars
  PROVE  \/ UNCHANGED <<users, registered>>
         \/ \E u \in UserId \ registered : Inserts(u)
         \/ \E r \in Req : Writes(r, open[r])
<1>1. CASE UNCHANGED vars \/ Tick
  BY <1>1 DEF vars, Tick, table
<1>2. ASSUME NEW r \in Req, NEW j \in Job, Begin(r, j) PROVE UNCHANGED <<users, registered>>
  BY <1>2 DEF Begin, table
<1>3. ASSUME NEW r \in Req, Abort(r) PROVE UNCHANGED <<users, registered>>
  BY <1>3 DEF Abort, Reject
<1>4. ASSUME NEW r \in Req, Locking(r)
      PROVE  UNCHANGED <<users, registered>> \/ Writes(r, open[r])
  <2>1. CASE WithdrawLock(r) \/ LoginOverflow(r) \/ RefuseWithdrawal(r)
    BY <2>1 DEF WithdrawLock, LoginOverflow, RefuseWithdrawal, Reject
  <2>2. CASE SoftDelete(r)
    BY <2>2, DeleteWrites DEF RowsInv
  <2> QED
    BY <1>4, <2>1, <2>2, LoginWrites, ProfileWrites, PasswordWrites, BlockWrites
       DEF Locking
<1>5. ASSUME NEW r \in Req, Running(r)
      PROVE  \/ UNCHANGED <<users, registered>> \/ Writes(r, open[r])
             \/ \E u \in UserId \ registered : Inserts(u)
  <2>1. CASE \/ RefuseCaller(r) \/ RefuseLogin(r) \/ RefusePasswordChange(r)
             \/ Respond(r) \/ AdmitUser(r) \/ AdmitAdmin(r) \/ RegisterSelect(r)
             \/ AcceptLogin(r) \/ LoginSession(r) \/ BlockSelect(r)
    BY <2>1 DEF RefuseCaller, RefuseLogin, RefusePasswordChange, Respond, AdmitUser,
       AdmitAdmin, RegisterSelect, AcceptLogin, LoginSession, BlockSelect, Reject, table
  <2> QED
    BY <1>5, <2>1, RegisterInserts, WithdrawWrites DEF Running
<1> QED
  BY <1>1, <1>2, <1>3, <1>4, <1>5 DEF Next

\* A copy stays, is let go, or is loaded from the table.
LEMMA StepSnaps ==
  ASSUME TypeInv, SerialInv, [Next]_vars, NEW q \in Req
  PROVE  \/ snap'[q] \in {snap[q], BlankRow}
         \/ \E u \in registered : snap'[q] = users[u]
<1> USE DEF TypeInv, TypeOK, RequestType, TableType
<1>0. /\ \A r \in Req : \A e, c : End(r, e, c) => snap'[q] \in {snap[q], BlankRow}
      /\ \A r \in Req : \A row, next : Commit(r, row, next) => snap'[q] \in {snap[q], BlankRow}
      /\ \A r \in Req, u \in registered :
           Load(r, u) => snap'[q] = snap[q] \/ \E v \in registered : snap'[q] = users[v]
  BY DEF End, Commit, Load
<1>1. CASE UNCHANGED vars \/ Tick
  BY <1>1 DEF vars, Tick, requests
<1>2. ASSUME NEW r \in Req, NEW j \in Job, Begin(r, j) PROVE snap' = snap
  BY <1>2 DEF Begin
<1>3. CASE \E r \in Req : Abort(r)
  BY <1>0, <1>3 DEF Abort, Reject
<1>4. CASE \E r \in Req : Locking(r)
  BY <1>0, <1>4 DEF Locking, LoginCommit, LoginOverflow, RefuseWithdrawal, WithdrawLock,
     UpdateProfile, ChangePassword, SoftDelete, BlockCommit, Reject
<1>5. ASSUME NEW r \in Req, Running(r)
      PROVE  \/ snap'[q] \in {snap[q], BlankRow}
             \/ \E u \in registered : snap'[q] = users[u]
  <2>1. CASE AdmitUser(r)
    BY <1>0, <2>1 DEF AdmitUser, SerialInv, Opened
  <2>2. CASE AcceptLogin(r)
    BY <1>0, <2>2 DEF AcceptLogin, Found
  <2>3. CASE BlockSelect(r)
    BY <1>0, <2>3 DEF BlockSelect, Reject
  <2>4. CASE AdmitAdmin(r) \/ RegisterSelect(r) \/ RegisterInsert(r)
    BY <1>0, <2>4 DEF AdmitAdmin, RegisterSelect, RegisterInsert, Reject
  <2> QED
    BY <1>0, <1>5, <2>1, <2>2, <2>3, <2>4 DEF Running, RefuseCaller, RefuseLogin,
       LoginSession, WithdrawCommit, RefusePasswordChange, Respond, Reject
<1> QED
  BY <1>1, <1>2, <1>3, <1>4, <1>5 DEF Next

LEMMA BlankFreed == Freed(BlankRow)
BY DEF Freed, BlankRow, NewRow, Plain

\* Seeded rows that carry the addresses of an injection.
LEMMA PlainRows ==
  ASSUME NEW addr \in [Seeded -> Address],
         \A u, v \in Seeded : addr[u] = addr[v] => u = v,
         \A u \in Seeded : users[u].email = Plain(addr[u]),
         \A u \in Seeded : ~users[u].deleted,
         registered = Seeded, snap = [r \in Req |-> BlankRow]
  PROVE  RowsInv
<1>1. ASSUME NEW u \in Seeded
      PROVE  users[u].email.addr = addr[u] /\ users[u].email.freed = 0
  <2>1. users[u].email = Plain(addr[u])
    OBVIOUS
  <2> QED
    BY <2>1 DEF Plain
<1>2. \A u \in Seeded : Freed(users[u])
  BY <1>1 DEF Freed
<1>3. \A u, v \in Seeded : u # v => users[u].email # users[v].email
  BY <1>1
<1>4. \A r \in Req : Freed(snap[r])
  BY BlankFreed
<1> QED
  BY <1>2, <1>3, <1>4 DEF RowsInv

LEMMA InitRows == Init => RowsInv
<1> SUFFICES ASSUME Init PROVE RowsInv
  OBVIOUS
<1>1. PICK addr \in [Seeded -> Address], hash \in [Seeded -> Hash] :
      /\ \A u, v \in Seeded : addr[u] = addr[v] => u = v
      /\ users = [u \in UserId |->
                   IF u \in Seeded
                   THEN [NewRow(addr[u], hash[u]) EXCEPT
                          !.names = IF u \in Named THEN NameColumn ELSE {}]
                   ELSE BlankRow]
  BY DEF Init
<1>2. ASSUME NEW u \in Seeded
      PROVE  users[u].email = Plain(addr[u]) /\ users[u].deleted = FALSE
  <2>1. PICK names : users[u] = [NewRow(addr[u], hash[u]) EXCEPT !.names = names]
    BY <1>1, RowsAssumption
  <2> QED
    BY <2>1 DEF NewRow
<1>3. \A u \in Seeded : ~users[u].deleted
  BY <1>2, Zenon
<1>4. registered = Seeded /\ snap = [r \in Req |-> BlankRow]
  BY DEF Init
<1> HIDE DEF Init
<1> QED
  BY <1>1, <1>2, <1>3, <1>4, PlainRows

\* The row that a request writes has its address freed exactly if deleted.
LEMMA WriteFreed ==
  ASSUME RowsInv, NEW r \in Req, Writes(r, open[r])
  PROVE  /\ Freed(users'[open[r]])
         /\ \/ SameIdentity(open[r])
            \/ ~EmailTaken(open[r], users'[open[r]].email)
BY DEF RowsInv, Writes, Wrote, Freed, SameIdentity, Frees

LEMMA NextRows ==
  TypeInv /\ SerialInv /\ LicenseInv /\ RowsInv /\ [Next]_vars => RowsInv'
<1> SUFFICES ASSUME TypeInv, SerialInv, LicenseInv, RowsInv, [Next]_vars PROVE RowsInv'
  OBVIOUS
<1>1. \A r \in Req : Freed(snap'[r])
  <2> TAKE r \in Req
  <2>1. CASE snap'[r] \in {snap[r], BlankRow}
    BY <2>1, BlankFreed DEF RowsInv
  <2>2. CASE \E u \in registered : snap'[r] = users[u]
    BY <2>2 DEF RowsInv
  <2> QED
    BY <2>1, <2>2, StepSnaps
<1>2. registered \subseteq UserId
  BY DEF TypeInv, TypeOK, TableType
<1>3. CASE UNCHANGED <<users, registered>>
  BY <1>1, <1>3 DEF RowsInv
<1>4. ASSUME NEW u \in UserId \ registered, Inserts(u) PROVE RowsInv'
  <2>1. \A v \in registered : users'[v] = users[v] /\ users[v].email # users'[u].email
    BY <1>2, <1>4 DEF Inserts, EmailTaken
  <2>2. Freed(users'[u])
    BY <1>4 DEF Inserts, Freed
  <2> QED
    BY <1>1, <1>4, <2>1, <2>2 DEF RowsInv, Inserts
<1>5. ASSUME NEW r \in Req, Writes(r, open[r]) PROVE RowsInv'
  <2> DEFINE u == open[r]
  <2>1. /\ u \in registered /\ registered' = registered
        /\ \A v \in registered \ {u} : users'[v] = users[v]
    BY <1>2, <1>5 DEF Writes
  <2>2. \A v \in registered \ {u} : users'[u].email # users[v].email
    BY <1>5, <2>1, WriteFreed DEF RowsInv, SameIdentity, EmailTaken
  <2> QED
    BY <1>1, <1>5, <2>1, <2>2, WriteFreed DEF RowsInv
<1> QED
  BY <1>3, <1>4, <1>5, StepWrites

LEMMA Rows == Spec => [](TypeInv /\ SerialInv /\ LicenseInv /\ RowsInv)
<1>1. Init => LicenseInv /\ RowsInv
  BY InitLicensed, InitRows
<1>2. TypeInv /\ SerialInv /\ LicenseInv /\ RowsInv /\ [Next]_vars => (LicenseInv /\ RowsInv)'
  BY NextLicensed, NextRows
<1> QED
  BY <1>1, <1>2, Typed, Serial, PTL DEF Spec

-----------------------------------------------------------------------------
(* The properties of rows *)

\* However registrations, deletions and stale writes interleave, at most one
\* account that is not deleted has an address.
THEOREM OneLive == Spec => []OneLiveAccountPerAddress
<1>1. TypeInv /\ RowsInv => OneLiveAccountPerAddress
  <2> SUFFICES ASSUME TypeInv, RowsInv,
                      NEW u \in registered, NEW v \in registered,
                      ~users[u].deleted, ~users[v].deleted,
                      users[u].email.addr = users[v].email.addr
               PROVE  u = v
    BY DEF OneLiveAccountPerAddress
  <2>1. users[u].email \in Email /\ users[v].email \in Email
    BY DEF TypeInv, TypeOK, TableType, Row
  <2>2. users[u].email.freed = 0 /\ users[v].email.freed = 0
    BY DEF RowsInv, Freed
  <2>3. users[u].email = users[v].email
    BY <2>1, <2>2 DEF Email
  <2> QED
    BY <2>3 DEF RowsInv
<1> QED
  BY <1>1, Rows, PTL

\* Whatever copies were loaded before a deletion and are written after it, the
\* account stays deleted and its address free.
THEOREM DeletionsLast == Spec => DeletedStaysDeleted
<1>1. TypeInv /\ SerialInv /\ LicenseInv /\ RowsInv /\ [Next]_vars =>
        \A u \in registered :
          users[u].deleted => users'[u].deleted /\ users'[u].email.freed # 0
  <2> SUFFICES ASSUME TypeInv, SerialInv, LicenseInv, RowsInv, [Next]_vars,
                      NEW u \in registered, users[u].deleted
               PROVE  users'[u].deleted /\ users'[u].email.freed # 0
    OBVIOUS
  <2>1. users[u].email.freed # 0 /\ u \in UserId
    BY DEF RowsInv, Freed, TypeInv, TypeOK, TableType
  <2>2. CASE users'[u] = users[u]
    BY <2>1, <2>2
  <2>3. CASE \E r \in Req : Writes(r, open[r]) /\ open[r] = u
    BY <2>1, <2>3 DEF Writes, Wrote, SameIdentity, Frees
  <2> QED
    BY <2>1, <2>2, <2>3, StepWrites DEF Inserts, Writes
<1> QED
  BY <1>1, Rows, PTL DEF Spec, DeletedStaysDeleted

\* A column of an account changes only in a step of a handler that sets it, also
\* where requests write back objects that others have changed since.
THEOREM OwnColumns == Spec => OwnColumnsOnly
<1> DEFINE Own(u) ==
        /\ users'[u].balance # users[u].balance =>
             \E r \in Req : Steps(r, {"login", "withdraw"}, u)
        /\ users'[u].hash # users[u].hash =>
             \E r \in Req : Steps(r, {"login", "password"}, u)
        /\ users'[u].names # users[u].names =>
             \E r \in Req : Steps(r, {"profile"}, u)
        /\ (\/ users'[u].email # users[u].email
            \/ users'[u].deleted # users[u].deleted) =>
             \E r \in Req : Steps(r, {"delete"}, u)
        /\ (\/ users'[u].blocked # users[u].blocked
            \/ users'[u].block_at # users[u].block_at) =>
             \E r \in Req : Steps(r, {"block"}, u)
<1>1. TypeInv /\ SerialInv /\ LicenseInv /\ RowsInv /\ [Next]_vars =>
        \A u \in registered : Own(u)
  <2> SUFFICES ASSUME TypeInv, SerialInv, LicenseInv, RowsInv, [Next]_vars,
                      NEW u \in registered
               PROVE  Own(u)
    OBVIOUS
  <2>1. u \in UserId
    BY DEF TypeInv, TypeOK, TableType
  <2>2. CASE users'[u] = users[u]
    BY <2>2
  <2>3. ASSUME NEW r \in Req, Writes(r, open[r]), open[r] = u PROVE Own(u)
    <3>1. pc'[r] # pc[r] /\ Wrote(r, u)
      BY <2>3 DEF Writes, Holds
    <3>2. \A ops : job[r].op \in ops => Steps(r, ops, u)
      BY <2>3, <3>1 DEF Steps
    <3> QED
      BY <3>1, <3>2 DEF Wrote, At, SameIdentity, SameStanding, SameBalance, SameHash,
         SameNames
  <2> QED
    BY <2>1, <2>2, <2>3, StepWrites DEF Inserts, Writes
<1> QED
  BY <1>1, Rows, PTL DEF Spec, OwnColumnsOnly

-----------------------------------------------------------------------------
(* Who is blocked, and who can unblock *)

StepOf(r) == (\E j \in Job : Begin(r, j)) \/ Locking(r) \/ Running(r) \/ Abort(r)

\* A step of one request leaves the others where they are.
LEMMA OthersStay ==
  ASSUME TypeInv, NEW r \in Req, StepOf(r), NEW q \in Req, q # r
  PROVE  /\ pc'[q] = pc[q] /\ job'[q] = job[q] /\ open'[q] = open[q]
         /\ ~BlockCommit(r) => barred'[q] = barred[q]
<1> USE DEF TypeInv, TypeOK, RequestType, HistoryType, history, ledger
<1>1. \A e, c : End(r, e, c) =>
        pc'[q] = pc[q] /\ job'[q] = job[q] /\ open'[q] = open[q] /\ barred'[q] = barred[q]
  BY DEF End
<1>2. \A row, next : Commit(r, row, next) =>
        pc'[q] = pc[q] /\ job'[q] = job[q] /\ open'[q] = open[q]
  BY DEF Commit
<1>3. \A u \in registered : Load(r, u) => open'[q] = open[q]
  BY DEF Load
<1>4. CASE \E j \in Job : Begin(r, j)
  BY <1>4 DEF Begin
<1>5. CASE Abort(r)
  BY <1>1, <1>5 DEF Abort, Reject
<1>6. CASE Locking(r)
  BY <1>1, <1>2, <1>6 DEF Locking, LoginCommit, LoginOverflow, RefuseWithdrawal,
     WithdrawLock, UpdateProfile, ChangePassword, SoftDelete, BlockCommit, Reject
<1>7. CASE Running(r)
  <2>1. CASE AdmitUser(r)
    BY <1>3, <2>1 DEF AdmitUser, SerialInv, Opened, Load
  <2>2. CASE AcceptLogin(r)
    BY <1>3, <2>2 DEF AcceptLogin, Found
  <2>3. CASE BlockSelect(r)
    BY <1>1, <1>3, <2>3 DEF BlockSelect, Reject
  <2>4. CASE AdmitAdmin(r) \/ RegisterSelect(r)
    BY <1>1, <2>4 DEF AdmitAdmin, RegisterSelect, Reject
  <2>5. CASE RegisterInsert(r)
    BY <1>1, <2>5 DEF RegisterInsert, Reject
  <2>6. CASE WithdrawCommit(r)
    BY <1>2, <2>6 DEF WithdrawCommit
  <2> QED
    BY <1>1, <1>7, <2>1, <2>2, <2>3, <2>4, <2>5, <2>6 DEF Running, RefuseCaller, RefuseLogin,
       LoginSession, RefusePasswordChange, Respond, Reject
<1> QED
  BY <1>4, <1>5, <1>6, <1>7 DEF StepOf

LEMMA OneSteps ==
  [Next]_vars => UNCHANGED vars \/ Tick \/ \E r \in Req : StepOf(r)
BY DEF Next, StepOf

\* Only block_user's commit ends a block request's wait for its row.
LEMMA BlockEnds ==
  ASSUME TypeInv, [Next]_vars, NEW r \in Req, At(r, "block", "commit"),
         pc'[r] \in {"after", "session"}
  PROVE  BlockCommit(r)
<1>1. CASE UNCHANGED vars \/ Tick
  BY <1>1 DEF vars, Tick, requests, At
<1>2. CASE StepOf(r)
  <2> USE DEF TypeInv, TypeOK, RequestType
  <2>1. \A e, c : Reject(r, e, c) => pc'[r] = "idle"
    BY DEF Reject, End
  <2> QED
    BY <1>2, <2>1 DEF StepOf, Begin, Abort, At, Locking, LoginCommit, LoginOverflow,
       RefuseWithdrawal, WithdrawLock, UpdateProfile, ChangePassword, SoftDelete,
       Running, RefuseCaller, AdmitUser, AdmitAdmin, RegisterSelect, RegisterInsert,
       RefuseLogin, AcceptLogin, LoginSession, WithdrawCommit, RefusePasswordChange,
       BlockSelect, Respond
<1>3. CASE \E q \in Req \ {r} : StepOf(q)
  BY <1>3, OthersStay DEF At
<1> QED
  BY <1>1, <1>2, <1>3, OneSteps

LEMMA OneCommits ==
  ASSUME TypeInv, NEW r \in Req, StepOf(r), NEW p \in Req, BlockCommit(p)
  PROVE  p = r
<1> SUFFICES ASSUME p # r PROVE FALSE
  OBVIOUS
<1>1. pc'[p] = pc[p]
  BY OthersStay
<1> QED
  BY <1>1 DEF BlockCommit, At, Commit, TypeInv, TypeOK, RequestType

\* Nothing else blocks or unblocks an account, or brings one back.
LEMMA StepStanding ==
  ASSUME TypeInv, SerialInv, LicenseInv, RowsInv, [Next]_vars,
         NEW u \in registered, \A r \in Req : BlockCommit(r) => open[r] # u
  PROVE  SameStanding(u) /\ (SameIdentity(u) \/ users'[u].deleted)
<1>1. u \in UserId
  BY DEF TypeInv, TypeOK, TableType
<1>2. CASE users'[u] = users[u]
  BY <1>2 DEF SameStanding, SameIdentity
<1>3. ASSUME NEW r \in Req, Writes(r, open[r]), open[r] = u
      PROVE  SameStanding(u) /\ (SameIdentity(u) \/ users'[u].deleted)
  <2>1. ~At(r, "block", "commit")
    BY <1>3, BlockEnds DEF Writes
  <2> QED
    BY <1>3, <2>1 DEF Writes, Wrote, Frees
<1> QED
  BY <1>1, <1>2, <1>3, StepWrites DEF Inserts, Writes

Out(u) == users[u].deleted \/ users[u].blocked

\* A request whose account was out when it was sent waits for the answer of
\* get_current_user_obj, and its account still is.
BarredInv == \A r \in Req : barred[r] => pc[r] = "auth" /\ Out(job[r].uid)

\* What a step does to the marks of the other requests.
LEMMA BarredStay ==
  ASSUME TypeInv, SerialInv, LicenseInv, RowsInv, BarredInv, [Next]_vars,
         NEW r \in Req, StepOf(r), NEW q \in Req, q # r, barred'[q]
  PROVE  pc'[q] = "auth" /\ Out(job[q].uid)' /\ job'[q] = job[q]
<1> DEFINE u == job[q].uid
<1>1. CASE ~BlockCommit(r)
  <2>1. barred[q] /\ pc'[q] = pc[q] /\ job'[q] = job[q]
    BY <1>1, OthersStay
  <2>2. u \in registered /\ Out(u)
    BY <2>1 DEF BarredInv, SerialInv, Opened
  <2>3. \A p \in Req : ~BlockCommit(p)
    BY <1>1, OneCommits
  <2> QED
    BY <2>1, <2>2, <2>3, StepStanding DEF Out, BarredInv, SameStanding, SameIdentity
<1>2. CASE BlockCommit(r)
  <2> DEFINE t == open[r]
  <2>1. /\ barred[q]
        /\ job[r].flag \/ users[t].deleted \/ pc[q] # "auth" \/ job[q].uid # t
    BY <1>2 DEF BlockCommit
  <2>2. pc'[q] = "auth" /\ job'[q] = job[q] /\ pc[q] = "auth" /\ Out(u)
    BY <2>1, OthersStay DEF BarredInv
  <2>3. u \in UserId
    BY <2>2 DEF SerialInv, Opened, TypeInv, TypeOK, TableType
  <2>4. Writes(r, t)
    BY <1>2, BlockWrites
  <2>5. At(r, "block", "commit")
    BY <1>2 DEF BlockCommit
  <2>6. Bars(r, t) /\ SameIdentity(t)
    BY <2>4, <2>5 DEF Writes, Wrote, At
  <2>7. CASE u = t
    BY <2>1, <2>2, <2>6, <2>7 DEF Out, Bars, SameIdentity
  <2>8. CASE u # t
    BY <2>2, <2>3, <2>4, <2>8 DEF Out, Writes
  <2> QED
    BY <2>2, <2>7, <2>8
<1> QED
  BY <1>1, <1>2

\* And to its own: it is marked when it is sent, and unmarked when it ends.
LEMMA BarredOwn ==
  ASSUME TypeInv, SerialInv, BarredInv, NEW r \in Req, StepOf(r), barred'[r]
  PROVE  pc'[r] = "auth" /\ Out(job[r].uid)'
<1> USE DEF TypeInv, TypeOK, RequestType, HistoryType
<1>1. \A e, c : ~End(r, e, c)
  BY DEF End
<1>2. CASE barred' # barred
  <2>1. ~BlockCommit(r)
    BY DEF BlockCommit, At, BarredInv
  <2>2. ~Abort(r)
    BY <1>1 DEF Abort, Reject
  <2>3. ~Locking(r)
    BY <1>1, <1>2, <2>1 DEF Locking, LoginCommit, LoginOverflow, RefuseWithdrawal,
       WithdrawLock, UpdateProfile, ChangePassword, SoftDelete, Reject, history
  <2>4. ~Running(r)
    <3>1. ~(AdmitAdmin(r) \/ RegisterSelect(r))
      BY <1>1, <1>2 DEF AdmitAdmin, RegisterSelect, Reject, history
    <3>2. ~RegisterInsert(r)
      BY <1>1, <1>2 DEF RegisterInsert, Reject
    <3>3. ~(AdmitUser(r) \/ AcceptLogin(r) \/ WithdrawCommit(r) \/ BlockSelect(r))
      BY <1>1, <1>2 DEF AdmitUser, AcceptLogin, WithdrawCommit, BlockSelect, Reject
    <3> QED
      BY <1>1, <3>1, <3>2, <3>3 DEF Running, RefuseCaller, RefuseLogin, LoginSession,
         RefusePasswordChange, Respond, Reject
  <2>5. PICK j \in Job : Begin(r, j)
    BY <2>2, <2>3, <2>4 DEF StepOf
  <2>6. /\ pc'[r] = "auth" /\ job'[r] = j /\ users' = users
        /\ barred'[r] = (users[j.uid].blocked \/ users[j.uid].deleted)
    BY <1>2, <2>5 DEF Begin, table
  <2> QED
    BY <2>6 DEF Out
<1>3. CASE barred' = barred
  <2>1. barred[r] /\ pc[r] = "auth" /\ Out(job[r].uid)
    BY <1>3 DEF BarredInv
  <2>2. ~Active(users[job[r].uid])
    BY <2>1 DEF Out, Active
  <2>3. ~Abort(r) /\ ~\E j \in Job : Begin(r, j)
    BY <1>1, <2>1 DEF Abort, Reject, Begin
  <2>4. ~Locking(r)
    BY <2>1 DEF Locking, LoginCommit, LoginOverflow, RefuseWithdrawal, WithdrawLock,
       UpdateProfile, ChangePassword, SoftDelete, BlockCommit, At
  <2>5. ~RefuseCaller(r) /\ ~AdmitUser(r) /\ ~AdmitAdmin(r)
    BY <1>1, <2>2 DEF RefuseCaller, AdmitUser, AdmitAdmin, Reject
  <2>6. ~Running(r)
    BY <2>1, <2>5 DEF Running, RegisterSelect, RegisterInsert, RefuseLogin, AcceptLogin,
       LoginSession, WithdrawCommit, RefusePasswordChange, BlockSelect, Respond, At
  <2> QED
    BY <2>3, <2>4, <2>6 DEF StepOf
<1> QED
  BY <1>2, <1>3

LEMMA NextBarred ==
  TypeInv /\ SerialInv /\ LicenseInv /\ RowsInv /\ BarredInv /\ [Next]_vars => BarredInv'
<1> SUFFICES ASSUME TypeInv, SerialInv, LicenseInv, RowsInv, BarredInv, [Next]_vars
             PROVE  BarredInv'
  OBVIOUS
<1>1. CASE UNCHANGED vars \/ Tick
  BY <1>1 DEF vars, Tick, table, requests, history, BarredInv, Out
<1>2. ASSUME NEW r \in Req, StepOf(r) PROVE BarredInv'
  <2> SUFFICES ASSUME NEW q \in Req, barred'[q]
               PROVE  pc'[q] = "auth" /\ Out(job[q].uid)'
    BY DEF BarredInv
  <2>1. CASE q = r
    BY <1>2, <2>1, BarredOwn
  <2>2. CASE q # r
    BY <1>2, <2>2, BarredStay DEF Out
  <2> QED
    BY <2>1, <2>2
<1> QED
  BY <1>1, <1>2, OneSteps

\* Whatever runs meanwhile, a request sent when its account was blocked or
\* deleted gets no further than get_current_user_obj.
THEOREM BarredWait == Spec => []BarredNeverActs
<1>1. Init => BarredInv
  BY DEF Init, BarredInv
<1>2. BarredInv => BarredNeverActs
  BY DEF BarredInv, BarredNeverActs
<1>3. Spec => []BarredInv
  BY <1>1, NextBarred, Rows, PTL DEF Spec
<1> QED
  BY <1>2, <1>3, PTL

Blocker(r) == job[r].op = "block" /\ pc[r] \in {"handler", "commit"}

Standing(u) == Active(users[u]) \/ users[u].deleted

\* A block request that runs alone leaves the admin who sent it.
Lone ==
  /\ \A r, q \in Req : Blocker(r) /\ Blocker(q) => r = q
  /\ \A r \in Req : Blocker(r) => /\ job[r].uid \in Admins
                                  /\ job[r].target # job[r].uid
                                  /\ Standing(job[r].uid)
  /\ \A r \in Req : At(r, "block", "commit") => open[r] = job[r].target
  /\ Admins = {} \/ \E a \in Admins : Standing(a)

AdminInv == Admins \subseteq registered /\ (adminOverlap \/ Lone)

LEMMA InitAdmins == Init => AdminInv
<1> SUFFICES ASSUME Init PROVE AdminInv
  OBVIOUS
<1>1. ASSUME NEW u \in Seeded PROVE ~users[u].blocked /\ ~users[u].deleted
  <2>1. PICK addr \in [Seeded -> Address], hash \in [Seeded -> Hash] :
          users[u] = [NewRow(addr[u], hash[u]) EXCEPT
                       !.names = IF u \in Named THEN NameColumn ELSE {}]
    BY RowsAssumption DEF Init
  <2>2. PICK row : users[u] = [NewRow(addr[u], hash[u]) EXCEPT !.names = row]
    BY <2>1
  <2>3. users[u].blocked = FALSE /\ users[u].deleted = FALSE
    BY <2>2 DEF NewRow
  <2> QED
    BY <2>3, Zenon
<1>2. Admins \subseteq Seeded /\ registered = Seeded
  BY RowsAssumption DEF Init
<1>3. \A r \in Req : pc[r] = "idle"
  BY DEF Init
<1> HIDE DEF Init
<1> QED
  BY <1>1, <1>2, <1>3 DEF AdminInv, Lone, Blocker, Standing, Active, At

LEMMA StandingStays ==
  ASSUME TypeInv, SerialInv, LicenseInv, RowsInv, [Next]_vars,
         NEW u \in registered, \A r \in Req : ~BlockCommit(r), Standing(u)
  PROVE  Standing(u)'
BY StepStanding DEF Standing, Active, SameStanding, SameIdentity

\* A request becomes a block request that changes a row by AdmitAdmin only.
LEMMA BlockerStep ==
  ASSUME TypeInv, NEW r \in Req, StepOf(r), ~AdmitAdmin(r), Blocker(r)'
  PROVE  /\ Blocker(r) /\ job'[r] = job[r]
         /\ pc'[r] = "commit" => open'[r] = job[r].target
<1> USE DEF TypeInv, TypeOK, RequestType, Blocker
<1>1. \A e, c : ~End(r, e, c)
  BY DEF End
<1>2. \A row : ~Commit(r, row, "after") /\ ~Commit(r, row, "session")
  BY DEF Commit
<1>3. ~Abort(r) /\ ~\E j \in Job : Begin(r, j)
  BY <1>1 DEF Abort, Reject, Begin
<1>4. ~Locking(r)
  BY <1>1, <1>2 DEF Locking, LoginCommit, LoginOverflow, RefuseWithdrawal, WithdrawLock,
     UpdateProfile, ChangePassword, SoftDelete, BlockCommit, Reject, At
<1>5. ~RegisterInsert(r) /\ ~RegisterSelect(r)
  BY <1>1 DEF RegisterInsert, RegisterSelect, Reject, At
<1>6. ~AdmitUser(r) /\ ~AcceptLogin(r) /\ ~LoginSession(r) /\ ~WithdrawCommit(r)
  BY <1>1, <1>2 DEF AdmitUser, AcceptLogin, LoginSession, WithdrawCommit, At
<1>7. ~RefuseCaller(r) /\ ~RefuseLogin(r) /\ ~RefusePasswordChange(r) /\ ~Respond(r)
  BY <1>1 DEF RefuseCaller, RefuseLogin, RefusePasswordChange, Respond, Reject
<1>8. BlockSelect(r)
  BY <1>3, <1>4, <1>5, <1>6, <1>7 DEF StepOf, Running
<1>9. At(r, "block", "handler") /\ job' = job
  BY <1>1, <1>8 DEF BlockSelect, Reject
<1>10. Load(r, job[r].target)
  BY <1>1, <1>8 DEF BlockSelect, Reject
<1> QED
  BY <1>9, <1>10 DEF Load, At

LEMMA OverlapStays ==
  ASSUME NEW r \in Req, StepOf(r), ~AdmitAdmin(r)
  PROVE  adminOverlap' = adminOverlap
<1> USE DEF history
<1>1. CASE Abort(r) \/ \E j \in Job : Begin(r, j)
  BY <1>1 DEF Abort, Reject, Begin
<1>2. CASE Locking(r)
  BY <1>2 DEF Locking, LoginCommit, LoginOverflow, RefuseWithdrawal, WithdrawLock,
     UpdateProfile, ChangePassword, SoftDelete, BlockCommit, Reject
<1>3. CASE RegisterInsert(r) \/ RegisterSelect(r)
  BY <1>3 DEF RegisterInsert, RegisterSelect, Reject
<1>4. CASE Running(r) /\ ~RegisterInsert(r) /\ ~RegisterSelect(r)
  BY <1>4 DEF Running, RefuseCaller, AdmitUser, RefuseLogin, AcceptLogin, LoginSession,
     WithdrawCommit, RefusePasswordChange, BlockSelect, Respond, Reject
<1> QED
  BY <1>1, <1>2, <1>3, <1>4 DEF StepOf

LEMMA NextAdmins ==
  TypeInv /\ SerialInv /\ LicenseInv /\ RowsInv /\ AdminInv /\ [Next]_vars => AdminInv'
<1> SUFFICES ASSUME TypeInv, SerialInv, LicenseInv, RowsInv, AdminInv, [Next]_vars
             PROVE  AdminInv'
  OBVIOUS
<1>1. CASE UNCHANGED vars \/ Tick
  BY <1>1 DEF vars, Tick, table, requests, history, AdminInv, Lone, Blocker, Standing, At
<1>2. Admins \subseteq registered'
  BY StepWrites DEF AdminInv, Inserts, Writes
<1>3. ASSUME NEW r \in Req, StepOf(r), AdmitAdmin(r), ~adminOverlap' PROVE Lone'
  <2>1. Lone /\ \A q \in Req \ {r} : ~Blocker(q)
    <3>1. adminOverlap' = (\/ adminOverlap
                           \/ \E q \in Req \ {r} : /\ job[q].op = "block"
                                                   /\ pc[q] \in {"handler", "commit"})
      BY <1>3, Zenon DEF AdmitAdmin
    <3>2. ~adminOverlap /\ \A q \in Req \ {r} : ~Blocker(q)
      BY <1>3, <3>1, Zenon DEF Blocker
    <3> QED
      BY <3>2, Zenon DEF AdminInv
  <2>2. users' = users /\ pc'[r] = "handler" /\ job' = job
    BY <1>3 DEF AdmitAdmin, table, TypeInv, TypeOK, RequestType
  <2>3. \A q \in Req \ {r} : ~Blocker(q)' /\ ~At(q, "block", "commit")'
    BY <1>3, <2>1, OthersStay DEF Blocker, At
  <2>4. /\ job[r].uid \in Admins /\ job[r].target # job[r].uid /\ Active(users[job[r].uid])
    BY <1>3 DEF AdmitAdmin, NotOneself
  <2>5. \A u \in Admins : Standing(u) => Standing(u)'
    BY <2>2 DEF Standing
  <2>6. Standing(job[r].uid)' /\ ~At(r, "block", "commit")'
    BY <2>2, <2>4 DEF Standing, At
  <2> QED
    BY <2>2, <2>3, <2>4, <2>5, <2>6 DEF Lone
<1>4. ASSUME NEW r \in Req, StepOf(r), BlockCommit(r), Lone PROVE Lone'
  <2> DEFINE u == job[r].uid
  <2>1. Blocker(r) /\ At(r, "block", "commit")
    BY <1>4 DEF BlockCommit, Blocker, At
  <2>2. u \in Admins /\ open[r] # u /\ Standing(u)
    BY <1>4, <2>1 DEF Lone
  <2>3. u \in UserId
    BY <2>2, RowsAssumption
  <2>4. users'[u] = users[u]
    BY <1>4, <2>2, <2>3, BlockWrites DEF Writes
  <2>5. job' = job
    BY <1>4 DEF BlockCommit, Commit
  <2>6. Standing(u)'
    BY <2>2, <2>4, <2>5 DEF Standing
  <2>7. pc'[r] = "after"
    BY <1>4 DEF BlockCommit, Commit, TypeInv, TypeOK, RequestType
  <2>8. \A q \in Req : ~Blocker(q)' /\ ~At(q, "block", "commit")'
    BY <1>4, <2>1, <2>7, OthersStay DEF Lone, Blocker, At
  <2> QED
    BY <2>2, <2>5, <2>6, <2>8 DEF Lone
<1>5. ASSUME NEW r \in Req, StepOf(r), ~BlockCommit(r), ~AdmitAdmin(r), Lone
      PROVE  Lone'
  <2>1. \A a \in Admins : Standing(a) => Standing(a)'
    BY <1>5, OneCommits, StandingStays DEF AdminInv
  <2>2. ASSUME NEW q \in Req, Blocker(q)'
        PROVE  /\ Blocker(q) /\ job'[q] = job[q]
               /\ At(q, "block", "commit")' => open'[q] = job[q].target
    <3>1. CASE q = r
      BY <1>5, <2>2, <3>1, BlockerStep DEF At
    <3>2. CASE q # r
      BY <1>5, <2>2, <3>2, OthersStay DEF Lone, Blocker, At
    <3> QED
      BY <3>1, <3>2
  <2>3. \A q \in Req : At(q, "block", "commit")' => Blocker(q)'
    BY DEF At, Blocker
  <2> QED
    BY <1>5, <2>1, <2>2, <2>3 DEF Lone
<1> QED
  BY <1>1, <1>2, <1>3, <1>4, <1>5, OneSteps, OverlapStays DEF AdminInv

\* Admins who block one another leave one who can unblock, unless their requests
\* overlap.
THEOREM AdminStays == Spec => []SomeAdminLeft
<1>1. AdminInv => SomeAdminLeft
  BY DEF AdminInv, Lone, Standing, SomeAdminLeft
<1>2. Spec => []AdminInv
  BY InitAdmins, NextAdmins, Rows, PTL DEF Spec
<1> QED
  BY <1>1, <1>2, PTL

-----------------------------------------------------------------------------
(* Sessions and the bonuses they were paid with *)

\* The logins of u that have committed and not yet stored their session.
Unstored(u) == {r \in Req : pc[r] = "session" /\ open[r] = u}

\* Each of them has a bonus that no session has been stored for.
PaidInv ==
  \A u \in UserId :
    /\ IsFiniteSet(Unstored(u))
    /\ sessions[u] + Cardinality(Unstored(u)) <= granted[u]

\* What a request has to do to be counted, and what changes the counters.
LEMMA PaidStep ==
  ASSUME TypeInv, NEW r \in Req, StepOf(r), ~LoginCommit(r)
  PROVE  /\ granted' = granted /\ pc'[r] # "session"
         /\ ~LoginSession(r) => sessions' = sessions
<1> USE DEF TypeInv, TypeOK, RequestType, ledger, history
<1>1. \A e, c : End(r, e, c) => pc'[r] = "idle"
  BY DEF End
<1>2. \A row : Commit(r, row, "after") => pc'[r] = "after"
  BY DEF Commit
<1>3. CASE Abort(r) \/ \E j \in Job : Begin(r, j)
  BY <1>1, <1>3 DEF Abort, Reject, Begin
<1>4. CASE Locking(r)
  BY <1>1, <1>2, <1>4 DEF Locking, LoginOverflow, RefuseWithdrawal, WithdrawLock,
     UpdateProfile, ChangePassword, SoftDelete, BlockCommit, Reject
<1>5. CASE RegisterInsert(r) \/ RegisterSelect(r) \/ AdmitAdmin(r)
  BY <1>1, <1>5 DEF RegisterInsert, RegisterSelect, AdmitAdmin, Reject
<1>6. CASE AdmitUser(r) \/ AcceptLogin(r) \/ LoginSession(r) \/ WithdrawCommit(r)
  BY <1>1, <1>2, <1>6 DEF AdmitUser, AcceptLogin, LoginSession, WithdrawCommit
<1>7. CASE BlockSelect(r)
  BY <1>1, <1>7 DEF BlockSelect, Reject
<1>8. CASE RefuseCaller(r) \/ RefuseLogin(r) \/ RefusePasswordChange(r) \/ Respond(r)
  BY <1>1, <1>8 DEF RefuseCaller, RefuseLogin, RefusePasswordChange, Respond, Reject
<1> QED
  BY <1>3, <1>4, <1>5, <1>6, <1>7, <1>8 DEF StepOf, Running

LEMMA NextPaid == TypeInv /\ SerialInv /\ PaidInv /\ [Next]_vars => PaidInv'
<1> SUFFICES ASSUME TypeInv, SerialInv, PaidInv, [Next]_vars, NEW u \in UserId
             PROVE  /\ IsFiniteSet(Unstored(u)')
                    /\ sessions'[u] + Cardinality(Unstored(u)') <= granted'[u]
  BY DEF PaidInv
<1> DEFINE U == Unstored(u)
           n == Cardinality(U)
<1>1. /\ IsFiniteSet(U) /\ n \in Nat /\ sessions[u] + n <= granted[u]
      /\ sessions[u] \in Nat /\ granted[u] \in Nat
  BY FS_CardinalityType DEF PaidInv, TypeInv, TypeOK, HistoryType
<1>2. CASE UNCHANGED vars \/ Tick
  <2>1. Unstored(u)' = U /\ sessions' = sessions /\ granted' = granted
    BY <1>2 DEF vars, Tick, requests, history, ledger, Unstored
  <2> QED
    BY <1>1, <2>1
<1>3. ASSUME NEW r \in Req, StepOf(r), LoginCommit(r)
      PROVE  /\ IsFiniteSet(Unstored(u)')
             /\ sessions'[u] + Cardinality(Unstored(u)') <= granted'[u]
  <2>1. /\ pc[r] # "session" /\ pc'[r] = "session" /\ open' = open /\ sessions' = sessions
        /\ granted'[u] = IF u = open[r] THEN granted[u] + 1 ELSE granted[u]
    BY <1>1, <1>3 DEF LoginCommit, At, Commit, TypeInv, TypeOK, RequestType, HistoryType
  <2>2. \A q \in Req \ {r} : pc'[q] = pc[q]
    BY <1>3, OthersStay
  <2>3. CASE u = open[r]
    <3>1. Unstored(u)' = U \cup {r} /\ r \notin U
      BY <2>1, <2>2, <2>3 DEF Unstored
    <3>2. IsFiniteSet(U \cup {r}) /\ Cardinality(U \cup {r}) = n + 1
      BY <1>1, <3>1, FS_AddElement
    <3> QED
      BY <1>1, <2>1, <2>3, <3>1, <3>2
  <2>4. CASE u # open[r]
    <3>1. Unstored(u)' = U
      BY <2>1, <2>2, <2>4 DEF Unstored
    <3> QED
      BY <1>1, <2>1, <2>4, <3>1
  <2> QED
    BY <2>3, <2>4
<1>4. ASSUME NEW r \in Req, StepOf(r), ~LoginCommit(r)
      PROVE  /\ IsFiniteSet(Unstored(u)')
             /\ sessions'[u] + Cardinality(Unstored(u)') <= granted'[u]
  <2>1. \A q \in Req \ {r} : pc'[q] = pc[q] /\ open'[q] = open[q]
    BY <1>4, OthersStay
  <2>2. Unstored(u)' = U \ {r}
    BY <1>4, <2>1, PaidStep DEF Unstored
  <2>3. /\ IsFiniteSet(U \ {r})
        /\ Cardinality(U \ {r}) = IF r \in U THEN n - 1 ELSE n
    BY <1>1, FS_RemoveElement
  <2>4. CASE LoginSession(r) /\ u = open[r]
    <3>1. r \in U /\ sessions'[u] = sessions[u] + 1
      BY <1>1, <2>4 DEF LoginSession, At, Unstored, TypeInv, TypeOK, HistoryType
    <3> QED
      BY <1>1, <1>4, <2>2, <2>3, <3>1, PaidStep
  <2>5. CASE ~LoginSession(r) \/ u # open[r]
    <3>1. sessions'[u] = sessions[u]
      BY <1>4, <2>5, PaidStep DEF LoginSession, TypeInv, TypeOK, HistoryType
    <3> QED
      BY <1>1, <1>4, <2>2, <2>3, <3>1, PaidStep
  <2> QED
    BY <2>4, <2>5
<1> QED
  BY <1>2, <1>3, <1>4, OneSteps

\* Wherever logins fail, no account has had more sessions than bonuses.
THEOREM SessionsPaid == Spec => []SessionsArePaidFor
<1>1. Init => PaidInv
  <2> SUFFICES ASSUME Init, NEW u \in UserId
               PROVE  /\ IsFiniteSet(Unstored(u))
                      /\ sessions[u] + Cardinality(Unstored(u)) <= granted[u]
    BY DEF PaidInv
  <2>1. Unstored(u) = {} /\ sessions[u] = 0 /\ granted[u] = 0
    BY DEF Init, Unstored
  <2> QED
    BY <2>1, FS_EmptySet
<1>2. TypeInv /\ PaidInv => SessionsArePaidFor
  <2> SUFFICES ASSUME TypeInv, PaidInv, NEW u \in UserId PROVE sessions[u] <= granted[u]
    BY DEF SessionsArePaidFor
  <2>1. /\ Cardinality(Unstored(u)) \in Nat
        /\ sessions[u] + Cardinality(Unstored(u)) <= granted[u]
        /\ sessions[u] \in Nat /\ granted[u] \in Nat
    BY FS_CardinalityType DEF PaidInv, TypeInv, TypeOK, HistoryType
  <2> QED
    BY <2>1
<1> QED
  BY <1>1, <1>2, NextPaid, Typed, Serial, PTL DEF Spec
-----------------------------------------------------------------------------
(* Row locks *)

\* Only a withdrawal takes a lock and keeps it; every other step of a request that
\* might hold one ends the request.
LEMMA StepLocks ==
  ASSUME TypeInv, NEW r \in Req, StepOf(r), ~WithdrawLock(r), ~WithdrawCommit(r)
  PROVE  \/ lock' = [u \in UserId |-> IF lock[u] = r THEN NoReq ELSE lock[u]]
         \/ lock' = lock /\ ~At(r, "withdraw", "commit")
<1> DEFINE Released == lock' = [u \in UserId |-> IF lock[u] = r THEN NoReq ELSE lock[u]]
<1>1. \A e, c : Reject(r, e, c) \/ End(r, e, c) => Released
  BY DEF Reject, End
<1> SUFFICES Released \/ (lock' = lock /\ ~At(r, "withdraw", "commit"))
  OBVIOUS
<1> HIDE DEF Released
<1>2. CASE Abort(r)
  BY <1>1, <1>2 DEF Abort
<1>3. CASE \E j \in Job : Begin(r, j)
  <2>1. lock' = lock /\ pc[r] = "idle"
    BY <1>3 DEF Begin, table
  <2> QED
    BY <2>1 DEF At
<1>4. CASE Locking(r)
  <2>1. CASE LoginCommit(r) \/ UpdateProfile(r) \/ ChangePassword(r) \/ BlockCommit(r)
    <3>1. lock' = lock
      BY <2>1 DEF LoginCommit, UpdateProfile, ChangePassword, BlockCommit
    <3> QED
      BY <2>1, <3>1 DEF LoginCommit, UpdateProfile, ChangePassword, BlockCommit, At
  <2>2. CASE LoginOverflow(r) \/ RefuseWithdrawal(r)
    BY <1>1, <2>2 DEF LoginOverflow, RefuseWithdrawal
  <2>3. CASE SoftDelete(r)
    BY <1>1, <2>3 DEF SoftDelete, At
  <2> QED
    BY <1>4, <2>1, <2>2, <2>3 DEF Locking
<1>5. CASE RegisterSelect(r) \/ RegisterInsert(r)
  <2>1. Released \/ lock' = lock
    BY <1>1, <1>5 DEF RegisterSelect, RegisterInsert, table
  <2>2. job[r].op = "register"
    BY <1>5 DEF RegisterSelect, RegisterInsert, At
  <2> QED
    BY <2>1, <2>2 DEF At
<1>6. CASE AdmitUser(r) \/ AdmitAdmin(r) \/ AcceptLogin(r) \/ BlockSelect(r)
  <2>1. Released \/ lock' = lock
    BY <1>1, <1>6 DEF AdmitUser, AdmitAdmin, AcceptLogin, BlockSelect, table
  <2>2. pc[r] \in {"auth", "select", "handler"}
    BY <1>6 DEF AdmitUser, AdmitAdmin, AcceptLogin, BlockSelect, At
  <2> QED
    BY <2>1, <2>2 DEF At
<1>7. CASE \/ RefuseCaller(r) \/ RefuseLogin(r) \/ LoginSession(r)
           \/ RefusePasswordChange(r) \/ Respond(r)
  BY <1>1, <1>7 DEF RefuseCaller, RefuseLogin, LoginSession, RefusePasswordChange, Respond
<1> QED
  BY <1>2, <1>3, <1>4, <1>5, <1>6, <1>7 DEF StepOf, Running

LEMMA NextLocks == TypeInv /\ HoldersNeverWait /\ [Next]_vars => HoldersNeverWait'
<1> SUFFICES ASSUME TypeInv, HoldersNeverWait, [Next]_vars, NEW u \in UserId,
                    lock'[u] # NoReq
             PROVE  At(lock[u], "withdraw", "commit")' /\ (open[lock[u]] = u)'
  BY DEF HoldersNeverWait
<1>1. CASE UNCHANGED vars \/ Tick
  BY <1>1 DEF vars, Tick, table, requests, HoldersNeverWait, At
<1>2. lock \in [UserId -> Req \cup {NoReq}] /\ NoReq \notin Req
  BY RowsAssumption DEF TypeInv, TypeOK, TableType
<1>3. ASSUME NEW r \in Req, StepOf(r), lock'[u] = lock[u], lock[u] # r
      PROVE  At(lock[u], "withdraw", "commit")' /\ (open[lock[u]] = u)'
  <2>1. PICK q \in Req : /\ q = lock[u] /\ q # r
                         /\ At(q, "withdraw", "commit") /\ open[q] = u
    BY <1>2, <1>3 DEF HoldersNeverWait
  <2>2. pc'[q] = pc[q] /\ job'[q] = job[q] /\ open'[q] = open[q]
    BY <1>3, <2>1, OthersStay
  <2> QED
    BY <1>3, <2>1, <2>2 DEF At
<1>4. ASSUME NEW r \in Req, StepOf(r), WithdrawLock(r)
      PROVE  At(lock[u], "withdraw", "commit")' /\ (open[lock[u]] = u)'
  <2>1. /\ At(r, "withdraw", "handler") /\ job' = job /\ open' = open
        /\ pc'[r] = "commit"
        /\ lock' = [lock EXCEPT ![open[r]] = r]
    BY <1>4 DEF WithdrawLock, TypeInv, TypeOK, RequestType
  <2>2. CASE u = open[r]
    <3>1. lock'[u] = r
      BY <1>2, <2>1, <2>2
    <3> QED
      BY <2>1, <2>2, <3>1 DEF At
  <2>3. CASE u # open[r]
    <3>1. lock'[u] = lock[u]
      BY <1>2, <2>1, <2>3
    <3>2. lock[u] # r
      BY <1>2, <2>1 DEF HoldersNeverWait, At
    <3> QED
      BY <1>3, <1>4, <3>1, <3>2
  <2> QED
    BY <2>2, <2>3
<1>5. ASSUME NEW r \in Req, StepOf(r), WithdrawCommit(r)
      PROVE  At(lock[u], "withdraw", "commit")' /\ (open[lock[u]] = u)'
  <2>1. lock' = [lock EXCEPT ![open[r]] = NoReq]
    BY <1>5 DEF WithdrawCommit
  <2>2. u # open[r] /\ lock'[u] = lock[u]
    BY <1>2, <2>1
  <2>3. lock[u] # r
    BY <1>2, <1>5, <2>2 DEF HoldersNeverWait
  <2> QED
    BY <1>3, <1>5, <2>2, <2>3
<1>6. ASSUME NEW r \in Req, StepOf(r), ~WithdrawLock(r), ~WithdrawCommit(r)
      PROVE  At(lock[u], "withdraw", "commit")' /\ (open[lock[u]] = u)'
  <2>1. CASE lock' = [v \in UserId |-> IF lock[v] = r THEN NoReq ELSE lock[v]]
    <3>1. lock'[u] = lock[u] /\ lock[u] # r
      BY <2>1
    <3> QED
      BY <1>3, <1>6, <3>1
  <2>2. CASE lock' = lock /\ ~At(r, "withdraw", "commit")
    <3>1. lock[u] # r
      BY <1>2, <2>2 DEF HoldersNeverWait
    <3> QED
      BY <1>3, <1>6, <2>2, <3>1
  <2> QED
    BY <1>6, <2>1, <2>2, StepLocks
<1> QED
  BY <1>1, <1>4, <1>5, <1>6, OneSteps

\* Whatever fails, a row lock is held by a withdrawal that only has its commit to
\* do: no request waits for one that waits for a lock itself, or that is over.
THEOREM HoldersFree == Spec => []HoldersNeverWait
<1>1. Init => HoldersNeverWait
  BY DEF Init, HoldersNeverWait
<1> QED
  BY <1>1, NextLocks, Typed, PTL DEF Spec
=============================================================================
