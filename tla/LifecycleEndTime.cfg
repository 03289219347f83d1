CONSTANTS
  Users = {u1}
  Streams = {s1}
  Requests = {r1, r2, r3}
  None = None
SPECIFICATION Spec
CHECK_DEADLOCK FALSE
PROPERTY EndTimeStable
