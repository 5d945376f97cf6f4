SPECIFICATION FairSpec
CONSTANTS
  NoPeer = NoPeer
  p1 = p1
  p2 = p2
  p3 = p3
  Peers = {p1, p2, p3}
  Fds = {4, 5}
  MAX_EVENTS = 64
  WINDOW = 1
  MaxUnits <- UnitsOf
  Prompt = {p1, p2, p3}
  Readers = {p1, p2, p3}
INVARIANTS TypeOK ClientsAreConnections EventsBelongToConnections NeverOutOfStep
PROPERTIES EveryoneServed HangUpsNoticed
