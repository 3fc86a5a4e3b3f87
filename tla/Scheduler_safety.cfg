SPECIFICATION Spec
CONSTANTS
  ThreadSize = 2
  Callers = {socket}
  Killable = {0}
  nullptr = nullptr
  socket = socket
  MaxServices = 2
  MaxMessages = 3
INVARIANTS TypeOK OneTicket NoStrandedMessage SleepCountExact OnePlace
PROPERTY ImplementsMailboxes
