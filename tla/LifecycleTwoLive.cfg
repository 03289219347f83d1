CONSTANTS
  Users = {u1}
  Streams = {s1, s2}
  Requests = {r1, r2}
  None = None
SPECIFICATION Spec
CHECK_DEADLOCK FALSE
INVARIANT OneLivePerUser
