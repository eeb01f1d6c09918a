SPECIFICATION MCSpec
CONSTANTS
  a1 = a1  a2 = a2  b1 = b1  alice = alice  bob = bob
  none = none  waiting = waiting
  Keys = {a1, a2, b1}
  Clients = {alice, bob}
  ClientOf <- MCClientOf
  Candidates = {1, 2}
  MaxAttempts = 2
  MaxPerPeer = 2
  MaxSessions = 2
  MaxParked = 1
  MaxChanges = 4
INVARIANTS TypesOK  WaitsWhileDisconnected
PROPERTIES ImplementsClientStreams
CHECK_DEADLOCK FALSE
