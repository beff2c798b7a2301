SPECIFICATION Spec
CONSTANTS
  Session = {s1}
  User = {u1}
  Req = {r1}
  NoSession = NoSession
  NoUser = NoUser
  Access = 2
  Refresh = 3
  Latency = 1
  LastLogin = 1
  MaxTime = 10
SYMMETRY IdSymmetry
PROPERTY RefreshTokenSuffices
