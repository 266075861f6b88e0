CONSTANTS
  Upload = {u1, u2}
  Path = {u1, u2, p1}
  Req = {u1, u2}
  Stream = {}
  NoReq = NoReq
  MaxRmFailures = 0
SPECIFICATION RoutesSpec
INVARIANT ActiveUploadKept
CHECK_DEADLOCK FALSE
