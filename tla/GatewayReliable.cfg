CONSTANTS
  host = host
  alice = alice
  bob = bob
  h1 = h1
  h2 = h2
  a1 = a1
  a2 = a2
  b1 = b1
  st1 = st1
  st2 = st2
  None = None
  Users = {host, alice, bob}
  Streams = {st1}
  Sockets = {a1, a2}
  Calls = {c1, c2}
  Owner <- MCOwner
  UserOf <- MCUserOf
  RoomsAtDisconnect = FALSE
SPECIFICATION FairReliableSpec
CHECK_DEADLOCK FALSE
INVARIANTS LoneViewerCounted
PROPERTIES LoneViewerSettles
