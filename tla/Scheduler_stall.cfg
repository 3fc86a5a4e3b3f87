SPECIFICATION FairSpec
CONSTANTS
  ThreadSize = 2
  Callers = {socket}
  Killable = {}
  nullptr = nullptr
  socket = socket
  MaxServices = 1
  MaxMessages = 3
PROPERTY NextSendEndsStall
