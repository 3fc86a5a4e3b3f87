---------------------------- MODULE SocketProofs ----------------------------
(***************************************************************************)
(* Proofs, for any number of clients, handlers and descriptors, that no    *)
(* event is dropped for want of a connection and that the connection map   *)
(* names a closed or reused descriptor only where CloseConnection has      *)
(* closed one it had no connection for.                                    *)
(***************************************************************************)
EXTENDS SocketProperties, TLAPS

Kernel == {main, socket}     (* the threads that add connections           *)
Threads == Kernel \cup Closers

Labels == {"start", "add_connection", "add_event", "returned", "free", "close", "close_missing",
           "remove_event", "wait", "event", "accept", "announce",
           "idle", "read", "reply", "write", "finish"}

LEMMA Names ==
  /\ main # socket /\ main \notin Handlers /\ socket \notin Handlers
  /\ main \notin Closers /\ socket \notin Closers /\ Closers \cap Handlers = {}
  /\ nobody \notin Clients /\ listener \notin Clients /\ unbound \notin Clients
  /\ nobody # listener /\ nobody # unbound /\ listener # unbound
  /\ Failed \notin Fds /\ Fds \subseteq Nat
  /\ Kernel \subseteq Threads /\ Closers \subseteq Threads /\ main \in Kernel /\ socket \in Kernel
  BY SocketAssumption DEF Kernel, Threads, main, socket, nobody, listener, unbound, Failed, Fds

------------------------------------------------------------------------------
(* The types of the variables the two invariants are about, and that the   *)
(* socket thread accepts on the descriptor of an event.                    *)
Types ==
  /\ file \in [Fds -> Clients \cup {nobody, listener, unbound}]
  /\ backlog \in Seq(Clients)
  /\ interest \in [Fds -> {"none", "in", "inout"}]
  /\ ready \in SUBSET Fds
  /\ connection_map \in [Fds \cup {Failed} -> {"none", "LISTEN", "CLIENT"}]
  /\ pc \in [Threads \cup Handlers -> Labels]
  /\ fd \in [Threads -> Fds \cup {Failed}]
  /\ \A e \in batch : e.fd \in Fds
  /\ closed \in SUBSET Fds /\ missed \subseteq closed
  /\ pc[socket] = "accept" => fd[socket] \in Fds
  /\ \A k \in Closers : pc[k] \in {"close", "close_missing", "remove_event"} => fd[k] \in closed

(* Descriptor f has been, is being, or is about to be watched.             *)
Watched(f) ==
  \/ interest[f] # "none"
  \/ f \in ready
  \/ \E e \in batch : e.fd = f
  \/ \E t \in Kernel : pc[t] = "add_event" /\ fd[t] = f

(* What makes EventFindsConnection inductive.                              *)
WatchedIsConnected == \A f \in Fds \ closed : Watched(f) => connection_map[f] # "none"

(* Somebody is about to enter descriptor f into the map.                   *)
Entering(f) == \E t \in Kernel : pc[t] = "add_connection" /\ fd[t] = f

(* What makes ConnectionIsOpen inductive: nothing is open before Listen; a *)
(* descriptor on its way into the map is open and has no entry; one on its *)
(* way to close is still open, has none either, is not on its way in, and  *)
(* no second CloseConnection closes it.                                    *)
OpenInvariant ==
  /\ ConnectionIsOpen
  /\ pc[main] = "start" =>
       /\ \A f \in Fds : file[f] = nobody /\ connection_map[f] = "none"
       /\ pc[socket] \in {"wait", "event"}
  /\ \A t \in Kernel : pc[t] = "add_connection" /\ fd[t] \in Fds \ missed =>
       /\ connection_map[fd[t]] = "none"
       /\ IF t = main THEN file[fd[t]] = listener ELSE file[fd[t]] \in Clients
  /\ \A k \in Closers : pc[k] = "close" /\ fd[k] \notin missed =>
       /\ connection_map[fd[k]] = "none"
       /\ file[fd[k]] # nobody
       /\ ~Entering(fd[k])
       /\ \A j \in Closers : pc[j] = "close" /\ fd[j] = fd[k] => j = k
  /\ \A k \in Closers : pc[k] = "close_missing" => fd[k] \in missed

SocketInvariant == Types /\ WatchedIsConnected /\ OpenInvariant

LEMMA InitSocketInvariant == Init => SocketInvariant
<1> SUFFICES ASSUME Init PROVE SocketInvariant OBVIOUS
<1> USE Names DEF Init, Kernel, Threads
<1>1. Types BY DEF Types, Fds, Failed, Labels
<1>2. WatchedIsConnected BY DEF WatchedIsConnected, Watched
<1>3. OpenInvariant BY DEF OpenInvariant, ConnectionIsOpen, Fds
<1> QED BY <1>1, <1>2, <1>3 DEF SocketInvariant

------------------------------------------------------------------------------
(* Steps of the clients and of handlers touch none of this but the ready   *)
(* list, the backlog and the handlers' own labels.                         *)
Outside ==
  /\ UNCHANGED <<file, interest, connection_map, fd, batch, closed, missed>>
  /\ \A t \in Threads : pc'[t] = pc[t]
  /\ pc' \in [Threads \cup Handlers -> Labels]
  /\ backlog' \in Seq(Clients)
  /\ ready' \subseteq ready \cup {f \in Fds : interest[f] # "none"}

LEMMA ClientsOutside ==
  ASSUME Types, NEW c \in Clients, Connect(c) \/ SendData(c) \/ CloseEnd(c)
  PROVE  Outside
<1> USE DEF Outside, Types, Edge, calls
<1>1. CASE Connect(c)
  <2>1. backlog' \in Seq(Clients) BY <1>1 DEF Connect
  <2> QED BY <1>1, <2>1 DEF Connect
<1>2. CASE SendData(c) BY <1>2 DEF SendData
<1>3. CASE CloseEnd(c) BY <1>3 DEF CloseEnd
<1> QED BY <1>1, <1>2, <1>3

LEMMA HandlersOutside ==
  ASSUME Types, NEW h \in Handlers,
         StartHandler(h) \/ ReadOnce(h) \/ Write(h) \/ FinishHandler(h)
  PROVE  Outside
<1> USE Names DEF Outside, Types, Goto, kernel, epoll, calls, Kernel, Threads, Labels
<1>1. CASE StartHandler(h)
  <2>1. PICK to \in {"read", "write", "finish"} : Goto(h, to) BY <1>1 DEF StartHandler, FirstStep
  <2> QED BY <1>1, <2>1 DEF StartHandler
<1>2. CASE ReadOnce(h) BY <1>2 DEF ReadOnce, KeepReading
<1>3. CASE Write(h) BY <1>3 DEF Write
<1>4. CASE FinishHandler(h) BY <1>4 DEF FinishHandler
<1> QED BY <1>1, <1>2, <1>3, <1>4

LEMMA OutsideKeepsInvariant ==
  ASSUME SocketInvariant, Outside
  PROVE  SocketInvariant'
<1> USE Names DEF SocketInvariant, Outside
<1>1. Types' BY DEF Types
<1>2. WatchedIsConnected' BY DEF Types, WatchedIsConnected, Watched
<1>3. OpenInvariant' BY DEF Types, OpenInvariant, ConnectionIsOpen, Entering
<1> QED BY <1>1, <1>2, <1>3
------------------------------------------------------------------------------
(* The main thread and the socket thread.                                  *)

LEMMA ListenKeeps == ASSUME SocketInvariant, Listen PROVE SocketInvariant'
<1> USE Names DEF SocketInvariant, Listen, Goto, Kernel, Threads, epoll, calls
<1>b. PICK f \in Fds, x \in {listener, nobody, unbound} :
        /\ file' = [file EXCEPT ![f] = x]
        /\ \/ x = listener /\ fd' = [fd EXCEPT ![main] = f] /\ Goto(main, "add_connection")
           \/ fd' = fd /\ Goto(main, "returned")
  <2> PICK f \in Fds :
        \/ /\ file' = [file EXCEPT ![f] = listener]
           /\ fd' = [fd EXCEPT ![main] = f]
           /\ Goto(main, "add_connection")
        \/ /\ \E left \in {nobody, unbound} : file' = [file EXCEPT ![f] = left]
           /\ Goto(main, "returned")
           /\ UNCHANGED fd
    OBVIOUS
  <2> QED OBVIOUS
<1>c. pc[main] = "start"
      /\ UNCHANGED <<backlog, epoll, connection_map, batch, closed, missed>> OBVIOUS
<1>a. \A g \in Fds : file[g] = nobody /\ connection_map[g] = "none"
  BY DEF OpenInvariant
<1>1. Types' BY <1>b, <1>c DEF Types, Labels
<1>2. WatchedIsConnected' BY <1>b, <1>c DEF Types, WatchedIsConnected, Watched
<1>3. OpenInvariant' BY <1>a, <1>b, <1>c DEF Types, OpenInvariant, ConnectionIsOpen, Entering
<1> QED BY <1>1, <1>2, <1>3

LEMMA AddConnectionKeeps ==
  ASSUME SocketInvariant, NEW t \in Kernel, AddConnection(t) PROVE SocketInvariant'
<1> USE Names DEF SocketInvariant, Kernel, Threads
<1>1. /\ pc[t] = "add_connection" /\ pc' = [pc EXCEPT ![t] = "add_event"]
      /\ connection_map' = [connection_map EXCEPT ![fd[t]] =
                              IF @ # "none" THEN @ ELSE ConnectionType(t)]
      /\ UNCHANGED <<file, backlog, interest, ready, fd, batch, closed, missed>>
  BY DEF AddConnection, Goto, kernel, epoll, calls
<1>2. Types' BY <1>1 DEF Types, Labels, ConnectionType
<1>3. WatchedIsConnected' BY <1>1 DEF Types, WatchedIsConnected, Watched, ConnectionType
<1>4. OpenInvariant'
  <2> USE DEF Types, OpenInvariant
  <2>1. \A f \in Fds \cup {Failed} : f # fd[t] => connection_map'[f] = connection_map[f] BY <1>1
  <2>2. \A s \in Threads \ {t} : pc'[s] = pc[s] BY <1>1
  <2>3. fd[t] \in Fds \ missed => connection_map'[fd[t]] = ConnectionType(t) BY <1>1
  <2>4. ConnectionIsOpen' BY <1>1, <2>1, <2>3 DEF ConnectionIsOpen, ConnectionType
  <2>5. \A s \in Kernel \ {t} : pc[s] = "add_connection" /\ fd[s] \in Fds \ missed => fd[s] # fd[t]
    BY <1>1
  <2>6. \A k \in Closers : pc[k] = "close" /\ fd[k] \notin missed => fd[k] # fd[t]
    BY <1>1 DEF Entering
  <2>7. \A f : Entering(f)' => Entering(f) BY <1>1, <2>2 DEF Entering
  <2>8. pc'[main] # "start" BY <1>1, <2>2
  <2> QED BY <1>1, <2>1, <2>2, <2>4, <2>5, <2>6, <2>7, <2>8
<1> QED BY <1>2, <1>3, <1>4

LEMMA AddEventKeeps ==
  ASSUME SocketInvariant, NEW t \in Kernel, AddEvent(t) PROVE SocketInvariant'
<1> USE Names DEF SocketInvariant, AddEvent, AfterAddEvent, Watch, EpollAdd, Goto, Kernel, Threads,
        kernel, epoll, calls
<1>1. Types'
  <2>1. CASE UNCHANGED epoll BY <2>1 DEF Types, Labels
  <2>2. CASE fd[t] \in Fds /\ interest' = [interest EXCEPT ![fd[t]] = "in"]
             /\ ready' \in {ready, ready \cup {fd[t]}}
    BY <2>2 DEF Types, Labels
  <2> QED BY <2>1, <2>2 DEF Types
<1>2. WatchedIsConnected' BY DEF Types, WatchedIsConnected, Watched
<1>3. OpenInvariant' BY DEF Types, OpenInvariant, ConnectionIsOpen, Entering
<1> QED BY <1>1, <1>2, <1>3

LEMMA WaitForEventsKeeps == ASSUME SocketInvariant, WaitForEvents PROVE SocketInvariant'
<1> USE Names DEF SocketInvariant, WaitForEvents, Continue, Goto, Kernel, Threads, kernel, calls
<1>a. \A e \in batch' : e.fd \in ready OBVIOUS
<1>1. Types' BY <1>a DEF Types, Labels
<1>2. WatchedIsConnected' BY <1>a DEF Types, WatchedIsConnected, Watched
<1>3. OpenInvariant' BY DEF Types, OpenInvariant, ConnectionIsOpen, Entering
<1> QED BY <1>1, <1>2, <1>3

LEMMA OnEventKeeps == ASSUME SocketInvariant, OnEvent PROVE SocketInvariant'
<1> USE Names DEF SocketInvariant, Kernel, Threads, kernel, epoll, calls
<1>1. PICK e \in batch :
        /\ batch' = batch \ {e}
        /\ \/ /\ fd' = [fd EXCEPT ![socket] = e.fd] /\ Goto(socket, "accept")
              /\ connection_map[e.fd] = "LISTEN"
           \/ fd' = fd /\ Continue(batch')
  BY DEF OnEvent
<1>2. UNCHANGED <<kernel, epoll, connection_map, closed, missed>> /\ pc[socket] = "event"
  BY DEF OnEvent
<1>3. Types' BY <1>1, <1>2 DEF Types, Labels, Goto, Continue
<1>4. WatchedIsConnected' BY <1>1, <1>2 DEF Types, WatchedIsConnected, Watched, Goto, Continue
<1>5. OpenInvariant'
  <2> USE DEF Types, OpenInvariant
  <2>1. pc[main] # "start" \/ fd' = fd BY <1>1
  <2>2. PICK to \in {"wait", "event", "accept"} :
          pc' = [pc EXCEPT ![socket] = to] /\ (to = "accept" => pc[main] # "start")
    BY <1>1, <2>1 DEF Goto, Continue
  <2>3. \A t \in Threads \ {socket} : pc'[t] = pc[t] /\ fd'[t] = fd[t] BY <1>1, <2>2
  <2>4. pc'[socket] = to BY <2>2
  <2>5. \A f : Entering(f)' => Entering(f) BY <2>3, <2>4 DEF Entering
  <2>6. ConnectionIsOpen' BY <1>2 DEF ConnectionIsOpen, kernel
  <2> QED BY <1>2, <2>2, <2>3, <2>4, <2>5, <2>6
<1> QED BY <1>3, <1>4, <1>5

LEMMA AcceptKeeps == ASSUME SocketInvariant, Accept PROVE SocketInvariant'
<1> USE Names DEF SocketInvariant, Accept, Goto, Kernel, Threads, epoll, calls
<1>1. CASE fd' = [fd EXCEPT ![socket] = Failed] /\ UNCHANGED <<file, backlog>>
  <2>1. Types' BY <1>1 DEF Types, Labels
  <2>2. WatchedIsConnected' BY <1>1 DEF Types, WatchedIsConnected, Watched
  <2>3. \A f \in Fds : Entering(f)' => Entering(f) BY <1>1 DEF Types, Entering
  <2>4. \A k \in Closers : pc[k] = "close" => fd[k] \in Fds BY DEF Types
  <2>5. \A t \in Threads \ {socket} : pc'[t] = pc[t] /\ fd'[t] = fd[t] BY <1>1 DEF Types
  <2>6. fd'[socket] = Failed /\ pc[socket] = "accept" BY <1>1 DEF Types
  <2>7. OpenInvariant'
    <3> USE DEF OpenInvariant
    <3>1. UNCHANGED <<file, connection_map, missed>> /\ pc[main] # "start" BY <1>1, <2>6
    <3>2. ConnectionIsOpen' BY <3>1 DEF ConnectionIsOpen
    <3>3. ASSUME NEW k \in Closers, pc'[k] = "close", fd'[k] \notin missed'
          PROVE  /\ connection_map'[fd'[k]] = "none"
                 /\ file'[fd'[k]] # nobody
                 /\ ~Entering(fd[k])'
                 /\ \A j \in Closers : pc'[j] = "close" /\ fd'[j] = fd'[k] => j = k
      <4>1. \A j \in Closers : fd'[j] = fd[j] /\ pc'[j] = pc[j] BY <2>5
      <4>2. fd[k] \in Fds \ missed /\ pc[k] = "close" BY <2>4, <3>1, <3>3, <4>1
      <4>3. ~Entering(fd[k]) /\ ~Entering(fd[k])'
        <5>1. ~Entering(fd[k]) BY <4>2
        <5>2. PICK f \in Fds : f = fd[k] BY <4>2
        <5>3. ~Entering(f)' BY <2>3, <5>1, <5>2
        <5> QED BY <4>1, <5>1, <5>2, <5>3 DEF Entering
      <4> QED BY <3>1, <4>1, <4>2, <4>3
    <3> QED BY <2>5, <2>6, <3>1, <3>2, <3>3 DEF Entering
  <2> QED BY <2>1, <2>2, <2>7
<1>2. CASE file[fd[socket]] = listener /\ backlog # <<>> /\ FreeFds # {}
  <2>1. PICK f \in Fds : /\ file[f] = nobody
                         /\ fd' = [fd EXCEPT ![socket] = f]
                         /\ file' = [file EXCEPT ![f] = Head(backlog)]
    BY <1>2 DEF LowestFree, FreeFds
  <2>2. Head(backlog) \in Clients /\ Tail(backlog) \in Seq(Clients) BY <1>2 DEF Types
  <2>3. f \notin missed => connection_map[f] = "none"
    BY <2>1 DEF Types, OpenInvariant, ConnectionIsOpen
  <2>4. Types' BY <1>2, <2>1, <2>2 DEF Types, Labels
  <2>5. WatchedIsConnected' BY <2>1 DEF Types, WatchedIsConnected, Watched
  <2> USE DEF Types, OpenInvariant
  <2>6. ConnectionIsOpen' BY <2>1, <2>2, <2>3 DEF ConnectionIsOpen
  <2>7. pc'[main] # "start" BY <1>2, <2>1
  <2>8. ASSUME NEW t \in Kernel, pc'[t] = "add_connection", fd'[t] \in Fds \ missed'
        PROVE  /\ connection_map'[fd'[t]] = "none"
               /\ IF t = main THEN file'[fd'[t]] = listener ELSE file'[fd'[t]] \in Clients
    <3>1. CASE t = main BY <2>1, <2>8, <3>1
    <3>2. CASE t = socket BY <2>1, <2>2, <2>3, <2>8, <3>2
    <3> QED BY <3>1, <3>2
  <2>9. ASSUME NEW k \in Closers, pc'[k] = "close", fd'[k] \notin missed'
        PROVE  /\ connection_map'[fd'[k]] = "none"
               /\ file'[fd'[k]] # nobody
               /\ ~Entering(fd[k])'
               /\ \A j \in Closers : pc'[j] = "close" /\ fd'[j] = fd'[k] => j = k
    <3>1. fd'[k] = fd[k] /\ pc'[k] = pc[k] /\ \A j \in Closers : fd'[j] = fd[j] /\ pc'[j] = pc[j]
      BY <2>1
    <3>2. /\ file[fd[k]] # nobody /\ ~Entering(fd[k]) /\ connection_map[fd[k]] = "none"
          /\ \A j \in Closers : pc[j] = "close" /\ fd[j] = fd[k] => j = k
      BY <2>9, <3>1
    <3>3. fd[k] # f /\ fd[k] \in Fds BY <2>1, <2>9, <3>1, <3>2
    <3>4. ~Entering(fd[k])' BY <2>1, <3>1, <3>2, <3>3 DEF Entering
    <3> QED BY <2>1, <3>1, <3>2, <3>3, <3>4
  <2>10. \A k \in Closers : pc'[k] = "close_missing" => fd'[k] \in missed' BY <2>1
  <2>11. OpenInvariant' BY <2>6, <2>7, <2>8, <2>9, <2>10
  <2> QED BY <2>4, <2>5, <2>11
<1> QED BY <1>1, <1>2

LEMMA AnnounceKeeps == ASSUME SocketInvariant, Announce PROVE SocketInvariant'
<1> USE Names DEF SocketInvariant, Announce, Continue, Goto, Kernel, Threads, kernel, epoll, calls
<1>1. Types' BY DEF Types, Labels
<1>2. WatchedIsConnected' BY DEF Types, WatchedIsConnected, Watched
<1>3. OpenInvariant' BY DEF Types, OpenInvariant, ConnectionIsOpen, Entering
<1> QED BY <1>1, <1>2, <1>3

------------------------------------------------------------------------------
(* CloseConnection and ModifyEvent.                                        *)

LEMMA RemoveConnectionKeeps ==
  ASSUME SocketInvariant, NEW k \in Closers, RemoveConnection(k) PROVE SocketInvariant'
<1> USE Names DEF SocketInvariant, Kernel, Threads
<1>1. PICK f \in Fds :
        /\ connection_map' = [connection_map EXCEPT ![f] = "none"]
        /\ fd' = [fd EXCEPT ![k] = f]
        /\ closed' = closed \cup {f}
        /\ \/ connection_map[f] # "none" /\ pc' = [pc EXCEPT ![k] = "close"] /\ missed' = missed
           \/ /\ connection_map[f] = "none"
              /\ pc' = [pc EXCEPT ![k] = "close_missing"] /\ missed' = missed \cup {f}
  BY DEF RemoveConnection, Erased, Goto
<1>2. UNCHANGED <<file, backlog, interest, ready, batch>> /\ pc[k] = "free"
  BY DEF RemoveConnection, kernel, epoll
<1>3. Types' BY <1>1, <1>2 DEF Types, Labels
<1>4. WatchedIsConnected' BY <1>1, <1>2 DEF Types, WatchedIsConnected, Watched
<1>5. CASE connection_map[f] # "none"
  <2>1. f \notin missed => file[f] # nobody /\ ~Entering(f)
    BY <1>5 DEF Types, OpenInvariant, ConnectionIsOpen, Entering
  <2>2. f \notin missed => \A j \in Closers : pc[j] = "close" => fd[j] # f
    BY <1>5 DEF OpenInvariant
  <2> QED BY <1>1, <1>2, <1>3, <1>4, <1>5, <2>1, <2>2
        DEF Types, OpenInvariant, ConnectionIsOpen, Entering
<1>6. CASE connection_map[f] = "none"
  BY <1>1, <1>2, <1>3, <1>4, <1>6 DEF Types, OpenInvariant, ConnectionIsOpen, Entering
<1> QED BY <1>5, <1>6

LEMMA CloseKeeps ==
  ASSUME SocketInvariant, NEW k \in Closers, Close(k) PROVE SocketInvariant'
<1> USE Names DEF SocketInvariant, Kernel, Threads
<1>1. PICK f \in closed, to \in {"remove_event", "free"} :
        /\ fd[k] = f
        /\ file' = [file EXCEPT ![f] = nobody]
        /\ interest' = [interest EXCEPT ![f] = "none"] /\ ready' = ready \ {f}
        /\ pc' = [pc EXCEPT ![k] = to]
        /\ UNCHANGED <<connection_map, fd, batch, closed, missed>>
        /\ pc[k] \in {"close", "close_missing"}
  BY DEF Close, EpollDelete, Goto, Types, calls
<1>2. backlog' \in Seq(Clients) BY DEF Close, Types
<1>3. Types' BY <1>1, <1>2 DEF Types, Labels
<1>4. WatchedIsConnected' BY <1>1 DEF Types, WatchedIsConnected, Watched
<1>5. f \notin missed =>
        /\ connection_map[f] = "none" /\ ~Entering(f)
        /\ \A j \in Closers : pc[j] = "close" /\ fd[j] = f => j = k
  BY <1>1 DEF OpenInvariant
<1>6. OpenInvariant' BY <1>1, <1>5 DEF Types, OpenInvariant, ConnectionIsOpen, Entering
<1> QED BY <1>3, <1>4, <1>6

LEMMA RemoveEventKeeps ==
  ASSUME SocketInvariant, NEW k \in Closers, RemoveEvent(k) PROVE SocketInvariant'
<1> USE Names DEF SocketInvariant, RemoveEvent, EpollDelete, Goto, Kernel, Threads, kernel, calls
<1>1. Types' BY DEF Types, Labels
<1>2. WatchedIsConnected' BY DEF Types, WatchedIsConnected, Watched
<1>3. OpenInvariant' BY DEF Types, OpenInvariant, ConnectionIsOpen, Entering
<1> QED BY <1>1, <1>2, <1>3

(* ModifyEvent watches nothing that was not watched.                       *)
LEMMA ModifyEventKeeps == ASSUME SocketInvariant, ModifyEvent PROVE SocketInvariant'
<1> USE DEF SocketInvariant
<1>1. UNCHANGED <<file, backlog, connection_map, pc, fd, batch, closed, missed>>
  BY DEF ModifyEvent, kernel
<1>2. PICK f \in Fds, events \in {"in", "inout"} : EpollModify(f, events) BY DEF ModifyEvent
<1>3. \/ interest' = interest /\ ready' = ready
      \/ /\ interest[f] # "none" /\ interest' = [interest EXCEPT ![f] = events]
         /\ ready' \in {ready, ready \cup {f}}
  BY <1>2 DEF EpollModify, epoll
<1>4. Types'
  <2>1. interest' \in [Fds -> {"none", "in", "inout"}] /\ ready' \in SUBSET Fds
    BY <1>2, <1>3 DEF Types
  <2> QED BY <1>1, <2>1 DEF Types
<1>5. WatchedIsConnected' BY <1>1, <1>2, <1>3 DEF Types, WatchedIsConnected, Watched
<1>6. OpenInvariant' BY <1>1 DEF Types, OpenInvariant, ConnectionIsOpen, Entering
<1> QED BY <1>4, <1>5, <1>6

LEMMA StepSocketInvariant == SocketInvariant /\ [Next]_vars => SocketInvariant'
<1> SUFFICES ASSUME SocketInvariant, [Next]_vars PROVE SocketInvariant' OBVIOUS
<1>1. CASE \E c \in Clients : Connect(c) \/ SendData(c) \/ CloseEnd(c)
  BY <1>1, ClientsOutside, OutsideKeepsInvariant DEF SocketInvariant
<1>2. CASE \E h \in Handlers : StartHandler(h) \/ ReadOnce(h) \/ Write(h) \/ FinishHandler(h)
  BY <1>2, HandlersOutside, OutsideKeepsInvariant DEF SocketInvariant
<1>3. CASE \E t \in Kernel : AddConnection(t) \/ AddEvent(t)
  BY <1>3, AddConnectionKeeps, AddEventKeeps
<1>4. CASE Listen BY <1>4, ListenKeeps
<1>5. CASE WaitForEvents \/ OnEvent \/ Accept \/ Announce
  BY <1>5, WaitForEventsKeeps, OnEventKeeps, AcceptKeeps, AnnounceKeeps
<1>6. CASE \E k \in Closers : RemoveConnection(k) \/ Close(k) \/ RemoveEvent(k)
  BY <1>6, RemoveConnectionKeeps, CloseKeeps, RemoveEventKeeps
<1>7. CASE ModifyEvent BY <1>7, ModifyEventKeeps
<1>8. CASE UNCHANGED vars
  <2>1. Outside BY <1>8 DEF vars, kernel, epoll, calls, Outside, SocketInvariant, Types
  <2> QED BY <2>1, OutsideKeepsInvariant
<1> QED BY <1>1, <1>2, <1>3, <1>4, <1>5, <1>6, <1>7, <1>8 DEF Next, Kernel

------------------------------------------------------------------------------
(* Whatever the interleaving of Listen, OnAccept, epoll_wait and any       *)
(* number of CloseConnection, OnEvent finds the connection of every event  *)
(* of a descriptor that nobody has closed.                                 *)
THEOREM EventsConnected == Spec => []EventFindsConnection
<1>1. SocketInvariant => EventFindsConnection
  BY DEF SocketInvariant, Types, WatchedIsConnected, Watched, EventFindsConnection
<1> QED BY InitSocketInvariant, StepSocketInvariant, <1>1, PTL DEF Spec

(* The connection map holds open files of the right type only, also while  *)
(* several CloseConnection give descriptors back that OnAccept gets again, *)
(* as long as none of them closes a descriptor it had no connection for.   *)
THEOREM MapIsOpen == Spec => []ConnectionIsOpen
<1>1. SocketInvariant => ConnectionIsOpen BY DEF SocketInvariant, OpenInvariant
<1> QED BY InitSocketInvariant, StepSocketInvariant, <1>1, PTL DEF Spec
==============================================================================
