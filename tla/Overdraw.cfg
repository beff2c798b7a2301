SPECIFICATION Spec
CONSTANTS
  UserId = {u1}
  Seeded = {u1}
  Admins = {}
  NullBalance = {}
  Named = {u1}
  Scheme = {"argon2"}
  Address = {a1}
  LongAddress = {}
  Password = {p1}
  Req = {r1, r2}
  NoReq = NoReq
  NoUser = NoUser
  Handlers = {"login", "withdraw"}
  Bonus = 2
  Amount = {1, 2}
  MaxBalance = 4
  MaxLogins = 2
  MaxClock = 1
SYMMETRY ReqSymmetry
INVARIANT PaidWithinBonuses
