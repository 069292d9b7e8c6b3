SPECIFICATION Spec
CONSTANTS
  a = a
  b = b
  c = c
  IPs = {a, b, c}
  Unknown = c
  Absent = Absent
  Routes = {"authorize", "token", "register"}
  Rate <- MCRate
  Requests <- MCRequests
  Window = 4
  BanDuration = 2
  MaxIPs = 2
  WarnAfter = 1
  MaxTime = 5
INVARIANT TypeOK
INVARIANT WindowLimit
INVARIANT BanHolds
PROPERTY RefusedForCause
CHECK_DEADLOCK FALSE
