CONSTANTS
  Users = {u1, u2}
  Streams = {s1}
  Requests = {r1, r2, r3}
  None = None
SPECIFICATION FairSpec
CHECK_DEADLOCK FALSE
INVARIANTS TypeOK EndAckedOnce AckTruthful
PROPERTIES EndedByOwnerForGood EndTimeMovesInRaceOnly DepartureEnds
