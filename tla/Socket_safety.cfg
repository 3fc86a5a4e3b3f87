SPECIFICATION Spec
CONSTANTS
  Clients = {c1, c2}
  Handlers = {h1}
  c1 = c1
  c2 = c2
  h1 = h1
  Closers = {k1, k2}
  k1 = k1
  k2 = k2
  MaxFd = 3
  MaxChunks = 1
  MaxModify = 0
  MaxClose = 2
SYMMETRY Symmetry
INVARIANTS TypeOK UnreadIsAnnounced AcceptStartsFirst EventFindsConnection ConnectionIsOpen
CHECK_DEADLOCK FALSE
