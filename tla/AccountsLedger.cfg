SPECIFICATION Spec
CONSTANTS
  UserId = {u1}
  Seeded = {u1}
  Admins = {}
  NullBalance = {}
  Named = {u1}
  Scheme = {"bcrypt", "argon2"}
  Address = {a1}
  LongAddress = {}
  Password = {p1, p2}
  Req = {r1, r2}
  NoReq = NoReq
  NoUser = NoUser
  Handlers = {"login", "withdraw", "password"}
  Bonus = 2
  Amount = {1}
  MaxBalance = 3
  MaxLogins = 2
  MaxClock = 1
SYMMETRY ReqSymmetry
INVARIANT TypeOK
INVARIANT BalanceWithinBonuses
INVARIANT SerialLedgerExact
INVARIANT SessionsArePaidFor
INVARIANT SerialPasswordSticks
INVARIANT HoldersNeverWait
PROPERTY OwnColumnsOnly
PROPERTY ImplementsContract
