SPECIFICATION Spec
CONSTANTS
  Clients = {c1, c2}
  Handlers = {h1}
  c1 = c1
  c2 = c2
  h1 = h1
  Closers = {}
  MaxFd = 3
  MaxChunks = 1
  MaxModify = 0
  MaxClose = 0
SYMMETRY Symmetry
INVARIANT BacklogIsAnnounced
CHECK_DEADLOCK FALSE
