SPECIFICATION FairSpec
CONSTANTS
  Clients = {c1}
  Handlers = {h1, h2}
  c1 = c1
  h1 = h1
  h2 = h2
  Closers = {}
  MaxFd = 2
  MaxChunks = 3
  MaxModify = 1
  MaxClose = 0
INVARIANTS UnreadIsAnnounced ReadIsAnswered
PROPERTIES DataIsAnswered
CHECK_DEADLOCK FALSE
