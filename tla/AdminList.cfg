SPECIFICATION Spec
CONSTANTS
  Proc = {p1}
  Req = {r1, r2}
  User = {a1, u1}
  Admins = {a1}
  NullBalance = {a1}
  Calls = {"admin", "public", "everyone", "block", "register", "delete"}
  Filters = {"any", "free"}
  TTL = 2
  Latency = 1
SYMMETRY ReqSymmetry
INVARIANT TypeOK
INVARIANT ListsCatchUp
INVARIANT ListsMeetFilter
INVARIANT UncachedListsCurrent
