SPECIFICATION Spec
CONSTANTS
  Proc = {p1}
  Req = {r1, r2}
  User = {a1, u1}
  Admins = {a1}
  NullBalance = {}
  Calls = {"admin", "block"}
  Filters = {"any"}
  TTL = 1
  Latency = 1
SYMMETRY ReqSymmetry
INVARIANT RefreshedOnBlock
