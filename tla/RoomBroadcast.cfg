CONSTANTS
  host = host
  alice = alice
  bob = bob
  h1 = h1
  a1 = a1
  b1 = b1
  p1 = p1
  None = None
  Users = {host, alice, bob}
  Streams = {st1}
  Sockets = {a1, b1}
  Calls = {c1, c2}
  Processes = {p1}
  Owner <- MCOwner
  UserOf <- MCUserOf
  GivenTo <- MCGivenTo
  Odd = {}
  Relays = {"offer", "chat-message"}
  Backlog = 1
  RoomsAtDisconnect = FALSE
SPECIFICATION BSpec
CHECK_DEADLOCK FALSE
INVARIANTS LastCountRight RelayedOnce RelayOnItsWay
SYMMETRY CallSymmetry
