CONSTANTS
  Users = {u1, u2}
  Sockets = {s1}
  Kids = {kid1, kid2}
  Served = {kid1}
  None = None
  Blank = Blank
  Garbled = Garbled
SPECIFICATION Spec
INVARIANT ValidTokenRecognised
