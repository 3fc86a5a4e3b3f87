------------------------- MODULE SocketProperties -------------------------
(***************************************************************************)
(* What must hold between the kernel's edge-triggered events, the          *)
(* connection map and the gateway's messages.                              *)
(***************************************************************************)
EXTENDS SocketServer

(* Messages that wait, that a handler works on, and that are finished.     *)
Posted == Mail!Accepted

(* Every variable has its type, and the messages the handlers work on are  *)
(* the mailbox's running ones.                                             *)
TypeOK ==
  /\ file \in [Fds -> Clients \cup {nobody, listener, unbound}]
  /\ backlog \in Seq(Clients)
  /\ joined \in SUBSET Clients
  /\ written \in [Clients -> 0 .. MaxChunks]
  /\ unread \in [Clients -> 0 .. MaxChunks]
  /\ eof \in [Clients -> BOOLEAN]
  /\ interest \in [Fds -> {"none", "in", "inout"}]
  /\ ready \in SUBSET Fds
  /\ connection_map \in [Fds \cup {Failed} -> {"none", "LISTEN", "CLIENT"}]
  /\ fd \in [{main, socket} \cup Closers -> Fds \cup {Failed}]
  /\ batch \in SUBSET [fd : Fds, can_read : BOOLEAN, can_write : BOOLEAN]
  /\ Posted \subseteq SocketMessages
  /\ running = {<<gateway, handling[h]>> : h \in {k \in Handlers : pc[k] # "idle"}}
  /\ result \in [Handlers -> SUBSET (Clients \X (1 .. MaxChunks))]
  /\ answered \subseteq Clients \X (1 .. MaxChunks)
  /\ closed \in SUBSET Fds
  /\ missed \subseteq closed

------------------------------------------------------------------------------
(* Somebody will read descriptor f: epoll is about to report it, or has,   *)
(* or the gateway has a message to read it, or a handler is in Read's loop.*)
ReadAnnounced(f) ==
  \/ f \in ready
  \/ \E e \in batch : e.fd = f /\ e.can_read
  \/ \E n \in 1 .. Len(mailbox[gateway]) :
       mailbox[gateway][n].fd = f /\ mailbox[gateway][n].can_read
  \/ \E h \in Handlers : pc[h] = "read" /\ handling[h].fd = f

(* epoll reports an edge once.  Data that a client has sent is never left  *)
(* in the socket with nobody to read it, whether it came before accept,    *)
(* between accept and AddEvent, during Read's loop or after it, and with   *)
(* several handlers on the same descriptor.  (This and what follows is for *)
(* descriptors CloseConnection was never called for: its RemoveEvent comes *)
(* after close and may hit the next owner of the descriptor.)              *)
UnreadIsAnnounced ==
  \A f \in Fds \ closed :
    /\ connection_map[f] = "CLIENT"
    /\ \E c \in Clients : file[f] = c /\ unread[c] > 0
    => \/ ReadAnnounced(f)
       \/ pc[socket] = "add_event" /\ fd[socket] = f

(* Every event epoll_wait has returned finds its connection: Listen and    *)
(* OnAccept fill the map before they watch the descriptor.  OnEvent drops  *)
(* an event it finds no connection for, and the edge would be lost.        *)
EventFindsConnection ==
  \A e \in batch : e.fd \notin closed => connection_map[e.fd] # "none"

(* Messages whose handler has been started, and perhaps has returned.      *)
Started == done \cup Mail!Active
IsAccept(m, f) == m.type = "SOCKET_ACCEPT" /\ m.fd = f

(* The gateway is told of a connection before it is told to read it: when  *)
(* the handler of a SOCKET_RW message is started, that of the descriptor's *)
(* SOCKET_ACCEPT message has been, and while it waits, the SOCKET_ACCEPT   *)
(* message is ahead of it.  No more than started: with two workers in the  *)
(* gateway the two handlers may run side by side.                          *)
AcceptStartsFirst ==
  LET queue == mailbox[gateway] IN
  /\ \A m \in Started : m.type = "SOCKET_RW" /\ m.fd \notin closed =>
       \E n \in Started : IsAccept(n, m.fd)
  /\ \A j \in 1 .. Len(queue) : queue[j].type = "SOCKET_RW" /\ queue[j].fd \notin closed =>
       \/ \E n \in Started : IsAccept(n, queue[j].fd)
       \/ \E i \in 1 .. j - 1 : IsAccept(queue[i], queue[j].fd)

(* Every connection in the map is of an open file of its type, also while  *)
(* several CloseConnection and OnAccept race for descriptors: Erase comes  *)
(* before close, so the kernel cannot give the descriptor away while the   *)
(* old entry is there, and Emplace, which keeps an entry that exists,      *)
(* never finds a stale one.  This is not so for a descriptor on which a    *)
(* CloseConnection found no entry: it closes all the same, and if OnAccept *)
(* has just got the descriptor and is about to enter it, the entry is of a *)
(* closed file.                                                            *)
ConnectionIsOpen ==
  \A f \in Fds \ missed :
    /\ connection_map[f] = "LISTEN" => file[f] = listener
    /\ connection_map[f] = "CLIENT" => file[f] \in Clients

(* What has been read is answered: for every chunk of data that has left   *)
(* the socket, the handler that took it has called Write since, or it has  *)
(* the chunk in hand and its Write is still to come.                       *)
ReadIsAnswered ==
  \A f \in Fds \ closed, c \in Clients : file[f] = c =>
    \A k \in 1 .. written[c] - unread[c] :
      \/ <<c, k>> \in answered
      \/ \E h \in Handlers : pc[h] \in {"read", "reply"} /\ <<c, k>> \in result[h]

(* No message waits for ever while no handler runs.  The scheduler keeps   *)
(* this while its pool is awake, and only then.                            *)
GatewayServed == []<>(mailbox[gateway] = <<>> \/ \E h \in Handlers : pc[h] # "idle")

(* Data that reaches a connection of the map is read, and its reader calls *)
(* Write, under FairSpec and as long as the scheduler serves the gateway.  *)
DataIsAnswered ==
  GatewayServed =>
    \A c \in Clients, f \in Fds, k \in 1 .. MaxChunks :
      file[f] = c /\ connection_map[f] = "CLIENT" /\ written[c] >= k
        ~> <<c, k>> \in answered

------------------------------------------------------------------------------
(* socket_worker.h:54 says of OnAccept: when it is triggered, the server   *)
(* stores the connection that was made.  So a connection that waits in the *)
(* backlog is one that OnAccept has yet to be triggered for.               *)
BacklogIsAnnounced ==
  \A f \in Listening :
    backlog # <<>> /\ interest[f] # "none" =>
      \/ f \in ready
      \/ \E e \in batch : e.fd = f
      \/ pc[socket] = "accept"

(* message.h:38 says of client_fd_: the descriptor of the socket of the    *)
(* client that has connected.                                              *)
ClientFdIsASocket ==
  \A m \in Posted :
    m.type = "SOCKET_ACCEPT" => m.fd \in Fds /\ file[m.fd] \in Clients
==============================================================================
