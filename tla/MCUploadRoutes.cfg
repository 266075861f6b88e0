CONSTANTS
  Upload = {u1, u2}
  Path = {u1, u2, p1}
  Req = {u1, u2, r1}
  Stream = {s1, s2}
  NoReq = NoReq
  MaxRmFailures = 1
SPECIFICATION RoutesSpec
INVARIANTS FollowActive NothingLeftBehind
PROPERTIES RequestsSettle SupersededIsRemoved
CHECK_DEADLOCK FALSE
