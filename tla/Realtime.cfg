SPECIFICATION MCFairSpec
CONSTANTS
  Clients = {c1, c2}
  Capacity = 2
  MaxSubs = 1
  IncomingCap = 1
  MaxPublished = 4
INVARIANTS SubsBounded StreamContinues
PROPERTIES ImplementsLiveFeed EventsArrive ReaderEnds
