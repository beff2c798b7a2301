SPECIFICATION Spec
CONSTANTS
  UserId = {u1, u2}
  Seeded = {u1, u2}
  Admins = {u1, u2}
  NullBalance = {u1, u2}
  Named = {u1}
  Scheme = {"argon2"}
  Address = {a1, a2}
  LongAddress = {}
  Password = {p1}
  Req = {r1, r2}
  NoReq = NoReq
  NoUser = NoUser
  Handlers = {"login", "withdraw", "delete", "block"}
  Bonus = 2
  Amount = {1}
  MaxBalance = 2
  MaxLogins = 1
  MaxClock = 1
SYMMETRY ReqSymmetry
INVARIANT BarredNeverActs
INVARIANT SomeAdminLeft
PROPERTY OwnColumnsOnly
PROPERTY ImplementsContract
