SPECIFICATION FairSpec
CONSTANTS
  ThreadSize = 2
  Callers = {socket, main}
  Killable = {}
  nullptr = nullptr
  socket = socket
  main = main
  MaxServices = 2
  MaxMessages = 2
PROPERTIES AwakePoolDelivers IdlePoolWakes
