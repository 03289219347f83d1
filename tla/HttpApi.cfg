CONSTANTS
  u1 = u1
  kid1 = kid1
  kid2 = kid2
  Users = {u1, u2}
  Streams = {s1, s2}
  Requests = {r1, r2}
  Kids = {kid1, kid2}
  Served = {kid1}
  None = None
  Blank = Blank
  Garbled = Garbled
  Brought <- MCBrought
SPECIFICATION FairSerialHSpec
CHECK_DEADLOCK FALSE
INVARIANTS OneLivePerUser GaugeDriftsByAbandoned TimedOnce
PROPERTIES ImplementsOnAir EveryRequestAnswered
