\* More clients than connections, all on one invoice.
SPECIFICATION FairSpec
CONSTANTS
  Handlers = {h1, h2}
  Settlers = {s1}
  Dispatchers = {d1}
  MaxConnections = 2
INVARIANTS
  TypeOK
  NoHoldAndWait
PROPERTY WaitEnds
