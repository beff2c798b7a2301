SPECIFICATION Spec
CONSTANTS
  UserId = {u1, u2}
  Seeded = {}
  Admins = {}
  NullBalance = {}
  Named = {}
  Scheme = {"argon2"}
  Address = {a1, a2}
  LongAddress = {a2}
  Password = {p1}
  Req = {r1, r2}
  NoReq = NoReq
  NoUser = NoUser
  Handlers = {"register", "delete", "profile"}
  Bonus = 2
  Amount = {1}
  MaxBalance = 2
  MaxLogins = 1
  MaxClock = 2
SYMMETRY ReqSymmetry
INVARIANT OneLiveAccountPerAddress
PROPERTY DeletedStaysDeleted
PROPERTY ImplementsContract
