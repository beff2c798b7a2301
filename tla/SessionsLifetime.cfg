SPECIFICATION FairSpec
CONSTANTS
  Session = {s1}
  User = {u1}
  Req = {r1, r2}
  NoSession = NoSession
  NoUser = NoUser
  Access = 2
  Refresh = 2
  Latency = 1
  LastLogin = 1
  MaxTime = 9
INVARIANT TypeOK
INVARIANT AbsoluteLifetime
INVARIANT BarredSessionDies
INVARIANT LateRequestsRefused
PROPERTY ImplementsContract
PROPERTY SessionsEnd
