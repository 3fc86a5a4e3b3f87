---------------------------- MODULE SocketServer ----------------------------
(***************************************************************************)
(* XianNet's network side: the main thread that listens, the socket thread *)
(* that turns epoll events into messages, the connection map they share,   *)
(* and the gateway service whose handlers read and answer.  The kernel     *)
(* (descriptors, backlog, edge-triggered epoll) and the clients are the    *)
(* environment.  Between socket thread and handlers stands a mailbox as    *)
(* module Mailboxes specifies it, which is what the scheduler implements;  *)
(* so several workers may run handlers of the gateway at the same time.    *)
(***************************************************************************)
EXTENDS Integers, Sequences, FiniteSets

CONSTANTS
  Clients,       (* remote peers, each connects once                        *)
  Handlers,      (* workers that may run a handler of the gateway           *)
  Closers,       (* threads that call CloseConnection; no code does yet     *)
  MaxFd,         (* bound: descriptors the process may have open            *)
  MaxChunks,     (* bound: pieces of data a client sends                    *)
  MaxModify,     (* bound: calls of ModifyEvent                             *)
  MaxClose       (* bound: calls of CloseConnection                         *)

(* Descriptor 0 is left out: it is the standard input, and Listen refuses  *)
(* it, which leaves the state that a failed bind leaves.                   *)
Fds == 1 .. MaxFd
Failed == -1     (* what accept returns when it fails                       *)
main == "main"
socket == "socket"
gateway == "gateway"
nobody == "nobody"       (* no open file                                    *)
listener == "listener"
unbound == "unbound"     (* a socket that bind or listen has refused        *)

ASSUME SocketAssumption ==
  /\ MaxFd \in Nat \ {0}
  /\ MaxChunks \in Nat
  /\ MaxModify \in Nat
  /\ MaxClose \in Nat
  /\ (Clients \cup Handlers \cup Closers) \cap {main, socket, nobody, listener, unbound} = {}
  /\ Clients \cap Handlers = {} /\ Closers \cap Handlers = {}

VARIABLES
  file,            (* kernel: what is open at each descriptor               *)
  backlog,         (* kernel: established and not yet accepted              *)
  joined,          (* kernel: clients that have connected                   *)
  written,         (* chunks a client has written                           *)
  unread,          (* kernel: chunks received and not yet read              *)
  eof,             (* kernel: the client has closed its end                 *)
  interest,        (* epoll: "none", "in" or "inout", per descriptor        *)
  ready,           (* epoll: descriptors on the ready list                  *)
  connection_map,  (* XianNet::connection_map_: type_, or "none"            *)
  pc,              (* the next step of each thread                          *)
  fd,              (* local descriptor of main, socket thread and closers   *)
  batch,           (* socket thread: events still to be handled             *)
  mailbox, running, done,  (* the gateway's messages, see Mailboxes         *)
  posted,          (* history: messages posted                              *)
  handling,        (* the message each handler works on                     *)
  result,          (* chunks each handler's Read has collected              *)
  answered,        (* history: chunks whose reader has called Write         *)
  modified,        (* history: calls of ModifyEvent                         *)
  closings,        (* history: calls of CloseConnection                     *)
  closed,          (* history: descriptors CloseConnection was called for   *)
  missed           (* history: those of them it found no connection for     *)

kernel  == <<file, backlog, joined, written, unread, eof>>
epoll   == <<interest, ready>>
mail    == <<mailbox, running, done, posted>>
gateway_vars == <<handling, result, answered>>
calls   == <<modified, closings, closed, missed>>
vars == <<kernel, epoll, connection_map, pc, fd, batch, mail, gateway_vars, calls>>

SocketMessages ==
  [id : Nat, type : {"SOCKET_ACCEPT", "SOCKET_RW"}, fd : Fds \cup {Failed},
   can_read : BOOLEAN, can_write : BOOLEAN]
noMessage == [id |-> 0, type |-> "none", fd |-> Failed, can_read |-> FALSE, can_write |-> FALSE]
Mail == INSTANCE Mailboxes WITH Services <- {gateway}, Messages <- SocketMessages

Goto(t, to) == pc' = [pc EXCEPT ![t] = to]

Init ==
  /\ file = [f \in Fds |-> nobody]
  /\ backlog = <<>>
  /\ joined = {}
  /\ written = [c \in Clients |-> 0]
  /\ unread = [c \in Clients |-> 0]
  /\ eof = [c \in Clients |-> FALSE]
  /\ interest = [f \in Fds |-> "none"]
  /\ ready = {}
  /\ connection_map = [f \in Fds \cup {Failed} |-> "none"]
  /\ pc = [t \in {main, socket} \cup Closers \cup Handlers |->
             CASE t = main -> "start" [] t = socket -> "wait"
               [] t \in Closers -> "free" [] OTHER -> "idle"]
  /\ fd = [t \in {main, socket} \cup Closers |-> Failed]
  /\ batch = {}
  /\ Mail!MailboxInit
  /\ posted = 0
  /\ handling = [h \in Handlers |-> noMessage]
  /\ result = [h \in Handlers |-> {}]
  /\ answered = {}
  /\ modified = 0
  /\ closings = 0
  /\ closed = {}
  /\ missed = {}

------------------------------------------------------------------------------
(* The kernel.                                                             *)

(* socket and accept hand out the lowest free descriptor.                  *)
FreeFds == {f \in Fds : file[f] = nobody}
LowestFree(f) == f \in FreeFds /\ \A g \in FreeFds : f <= g
Listening == {f \in Fds : file[f] = listener}

Readable(f) ==
  \/ file[f] = listener /\ backlog # <<>>
  \/ file[f] \in Clients /\ (unread[file[f]] > 0 \/ eof[file[f]])

(* Something happened at file x: epoll notes it where it watches x.        *)
Edge(x) == ready' = ready \cup {f \in Fds : file[f] = x /\ interest[f] # "none"}

Connect(c) ==
  /\ Listening # {}
  /\ c \notin joined
  /\ joined' = joined \cup {c}
  /\ backlog' = Append(backlog, c)
  /\ Edge(listener)
  /\ UNCHANGED <<file, written, unread, eof, interest, connection_map, pc, fd, batch,
                 mail, gateway_vars, calls>>

SendData(c) ==
  /\ c \in joined /\ ~eof[c] /\ written[c] < MaxChunks
  /\ written' = [written EXCEPT ![c] = @ + 1]
  /\ unread' = [unread EXCEPT ![c] = @ + 1]
  /\ Edge(c)
  /\ UNCHANGED <<file, backlog, joined, eof, interest, connection_map, pc, fd, batch,
                 mail, gateway_vars, calls>>

CloseEnd(c) ==
  /\ c \in joined /\ ~eof[c]
  /\ eof' = [eof EXCEPT ![c] = TRUE]
  /\ Edge(c)
  /\ UNCHANGED <<file, backlog, joined, written, unread, interest, connection_map, pc, fd,
                 batch, mail, gateway_vars, calls>>

(* epoll_ctl: ADD fails for a closed or a watched descriptor, MOD and DEL  *)
(* for one that is not watched; ADD and MOD look at once for an event.     *)
EpollAdd(f) ==
  IF f \in Fds /\ file[f] # nobody /\ interest[f] = "none"
    THEN /\ interest' = [interest EXCEPT ![f] = "in"]
         /\ ready' = IF Readable(f) THEN ready \cup {f} ELSE ready
    ELSE UNCHANGED epoll

EpollModify(f, events) ==
  IF interest[f] # "none"
    THEN /\ interest' = [interest EXCEPT ![f] = events]
         /\ ready' = IF Readable(f) \/ events = "inout" THEN ready \cup {f} ELSE ready
    ELSE UNCHANGED epoll

EpollDelete(f) ==
  /\ interest' = [interest EXCEPT ![f] = "none"]
  /\ ready' = ready \ {f}

------------------------------------------------------------------------------
(* XianNet::Listen, called once by Init, and what OnAccept shares with it. *)

(* socket, bind and listen; when one of them fails Listen returns -1 and   *)
(* the descriptor socket gave out, if any, stays open.                     *)
Listen ==
  /\ pc[main] = "start"
  /\ \E f \in Fds :
       /\ LowestFree(f)
       /\ \/ /\ file' = [file EXCEPT ![f] = listener]
             /\ fd' = [fd EXCEPT ![main] = f]
             /\ Goto(main, "add_connection")
          \/ /\ \E left \in {nobody, unbound} : file' = [file EXCEPT ![f] = left]
             /\ Goto(main, "returned")
             /\ UNCHANGED fd
  /\ UNCHANGED <<backlog, joined, written, unread, eof, epoll, connection_map, batch, mail,
                 gateway_vars, calls>>

(* Emplace keeps an entry that exists; the variant forgets the listener.   *)
ClientsOnly(t) == IF t = main THEN "none" ELSE "CLIENT"
ConnectionType(t) == IF t = main THEN "LISTEN" ELSE "CLIENT"

AddConnection(t) ==
  /\ pc[t] = "add_connection"
  /\ connection_map' = [connection_map EXCEPT ![fd[t]] =
                          IF @ # "none" THEN @ ELSE ConnectionType(t)]
  /\ Goto(t, "add_event")
  /\ UNCHANGED <<kernel, epoll, fd, batch, mail, gateway_vars, calls>>

(* What follows AddEvent; the variant does not tell the gateway.           *)
NotAnnounced(t) == IF t = main THEN "returned" ELSE IF batch = {} THEN "wait" ELSE "event"
AfterAddEvent(t) == IF t = main THEN "returned" ELSE "announce"

(* SocketWorker::AddEvent; the variant watches listeners only.             *)
WatchListener(f) == IF file[f] = listener THEN EpollAdd(f) ELSE UNCHANGED epoll
Watch(f) == EpollAdd(f)

AddEvent(t) ==
  /\ pc[t] = "add_event"
  /\ Watch(fd[t])
  /\ Goto(t, AfterAddEvent(t))
  /\ UNCHANGED <<kernel, connection_map, fd, batch, mail, gateway_vars, calls>>

------------------------------------------------------------------------------
(* The socket thread.                                                      *)

Post(type, f, can_read, can_write) ==
  /\ Mail!Post(gateway, [id |-> posted, type |-> type, fd |-> f,
                         can_read |-> can_read, can_write |-> can_write])
  /\ posted' = posted + 1

(* The loop goes on with the next event of the batch, or waits.            *)
Continue(events) == Goto(socket, IF events = {} THEN "wait" ELSE "event")

(* epoll_wait: each ready descriptor is looked at again, reported if there *)
(* still is something to report, and taken off the ready list.             *)
WaitForEvents ==
  /\ pc[socket] = "wait"
  /\ ready # {}
  /\ batch' = {e \in {[fd |-> f, can_read |-> Readable(f),
                       can_write |-> interest[f] = "inout" /\ file[f] # listener] : f \in ready} :
                 e.can_read \/ e.can_write}
  /\ ready' = {}
  /\ Continue(batch')
  /\ UNCHANGED <<kernel, interest, connection_map, fd, mail, gateway_vars, calls>>

(* OnEvent looks the connection up; an event without one is dropped.       *)
OnEvent ==
  /\ pc[socket] = "event"
  /\ \E e \in batch :
       /\ batch' = batch \ {e}
       /\ CASE connection_map[e.fd] = "LISTEN" /\ e.can_read ->
                 /\ fd' = [fd EXCEPT ![socket] = e.fd]
                 /\ Goto(socket, "accept")
                 /\ UNCHANGED mail
            [] connection_map[e.fd] = "CLIENT" ->
                 /\ Post("SOCKET_RW", e.fd, e.can_read, e.can_write)
                 /\ Continue(batch')
                 /\ UNCHANGED fd
            [] OTHER -> Continue(batch') /\ UNCHANGED <<fd, mail>>
  /\ UNCHANGED <<kernel, epoll, connection_map, gateway_vars, calls>>

(* OnAccept takes one connection.  A failed accept is logged only: the     *)
(* rest of OnAccept runs with descriptor -1.                               *)
Accept ==
  /\ pc[socket] = "accept"
  /\ IF file[fd[socket]] = listener /\ backlog # <<>> /\ FreeFds # {}
       THEN /\ \E f \in Fds :
                 /\ LowestFree(f)
                 /\ fd' = [fd EXCEPT ![socket] = f]
                 /\ file' = [file EXCEPT ![f] = Head(backlog)]
            /\ backlog' = Tail(backlog)
       ELSE fd' = [fd EXCEPT ![socket] = Failed] /\ UNCHANGED <<file, backlog>>
  /\ Goto(socket, "add_connection")
  /\ UNCHANGED <<joined, written, unread, eof, epoll, connection_map, batch, mail,
                 gateway_vars, calls>>

Announce ==
  /\ pc[socket] = "announce"
  /\ Post("SOCKET_ACCEPT", fd[socket], FALSE, FALSE)
  /\ Continue(batch)
  /\ UNCHANGED <<kernel, epoll, connection_map, fd, batch, gateway_vars, calls>>

------------------------------------------------------------------------------
(* XianNet::CloseConnection and ModifyEvent, which any thread may call     *)
(* with any descriptor; no code calls them yet.                            *)

(* RwlockUnorderedMap::Erase; the variant erases nothing.                  *)
NotErased(f) == connection_map
Erased(f) == [connection_map EXCEPT ![f] = "none"]

(* CloseConnection goes on to close the descriptor also when there was no  *)
(* connection to remove; only the RemoveEvent at its end is left out then. *)
RemoveConnection(k) ==
  /\ pc[k] = "free" /\ closings < MaxClose
  /\ closings' = closings + 1
  /\ \E f \in Fds :
       /\ connection_map' = Erased(f)
       /\ fd' = [fd EXCEPT ![k] = f]
       /\ closed' = closed \cup {f}
       /\ \/ connection_map[f] # "none" /\ Goto(k, "close") /\ UNCHANGED missed
          \/ /\ connection_map[f] = "none"
             /\ Goto(k, "close_missing")
             /\ missed' = missed \cup {f}
  /\ UNCHANGED <<kernel, epoll, batch, mail, gateway_vars, modified>>

(* close: the kernel stops watching the descriptor, and a listener resets  *)
(* the connections of its backlog.                                         *)
Close(k) ==
  /\ pc[k] \in {"close", "close_missing"}
  /\ file' = [file EXCEPT ![fd[k]] = nobody]
  /\ backlog' = IF file[fd[k]] = listener THEN <<>> ELSE backlog
  /\ EpollDelete(fd[k])
  /\ Goto(k, IF pc[k] = "close" THEN "remove_event" ELSE "free")
  /\ UNCHANGED <<joined, written, unread, eof, connection_map, fd, batch, mail,
                 gateway_vars, calls>>

RemoveEvent(k) ==
  /\ pc[k] = "remove_event"
  /\ EpollDelete(fd[k])
  /\ Goto(k, "free")
  /\ UNCHANGED <<kernel, connection_map, fd, batch, mail, gateway_vars, calls>>

ModifyEvent ==
  /\ modified < MaxModify
  /\ modified' = modified + 1
  /\ \E f \in Fds, events \in {"in", "inout"} : EpollModify(f, events)
  /\ UNCHANGED <<kernel, connection_map, pc, fd, batch, mail, gateway_vars,
                 closings, closed, missed>>

------------------------------------------------------------------------------
(* GatewayService's handlers.                                              *)

(* OnSocketRW reads before it writes.                                      *)
FirstStep(m) == IF m.can_read THEN "read" ELSE IF m.can_write THEN "write" ELSE "finish"

StartHandler(h) ==
  /\ pc[h] = "idle"
  /\ Mail!Start(gateway)
  /\ LET m == Head(mailbox[gateway]) IN
       /\ handling' = [handling EXCEPT ![h] = m]
       /\ Goto(h, FirstStep(m))
  /\ UNCHANGED <<kernel, epoll, connection_map, fd, batch, posted, result, answered, calls>>

(* The client at the other end of the descriptor a handler works on.       *)
Peers(h) == {file[handling[h].fd]} \cap Clients

(* read returns data.  Variant: the loop's condition is always true.       *)
HasPeer(h) == Peers(h) # {}
HasData(h) == \E c \in Peers(h) : unread[c] > 0

(* The loop of Read goes on after data.  Variant: one read and no loop.    *)
ReadNoMore(h) == Goto(h, "reply")
KeepReading(h) == UNCHANGED pc

(* A chunk of data is named by its client and its place in the stream.     *)
NextChunks(h) == {<<c, written[c] - unread[c] + 1>> : c \in Peers(h)}

(* What Read has collected after one more chunk; the variant keeps the     *)
(* last chunk only.                                                        *)
LastReceived(h) == NextChunks(h)
Received(h) == result[h] \cup NextChunks(h)

(* One turn of Read's loop, which ends at EAGAIN, end of file or an error. *)
ReadOnce(h) ==
  /\ pc[h] = "read"
  /\ IF HasData(h)
       THEN /\ unread' = [c \in Clients |-> unread[c] - (IF c \in Peers(h) THEN 1 ELSE 0)]
            /\ result' = [result EXCEPT ![h] = Received(h)]
            /\ KeepReading(h)
       ELSE Goto(h, "reply") /\ UNCHANGED <<unread, result>>
  /\ UNCHANGED <<file, backlog, joined, written, eof, epoll, connection_map, fd, batch, mail,
                 handling, answered, calls>>

(* Who gets the answer; the variant answers only writable sockets.         *)
WritablePeers(h) == IF handling[h].can_write THEN Peers(h) ELSE {}
Answered(h) == Peers(h)

(* Write after a read, whatever the read has got, and when writable.       *)
Write(h) ==
  /\ pc[h] \in {"reply", "write"}
  /\ answered' = answered \cup {x \in result[h] : x[1] \in Answered(h)}
  /\ result' = [result EXCEPT ![h] = {}]
  /\ Goto(h, IF pc[h] = "reply" /\ handling[h].can_write THEN "write" ELSE "finish")
  /\ UNCHANGED <<kernel, epoll, connection_map, fd, batch, mail, handling, calls>>

FinishHandler(h) ==
  /\ pc[h] = "finish"
  /\ Mail!Finish(gateway, handling[h])
  /\ handling' = [handling EXCEPT ![h] = noMessage]
  /\ Goto(h, "idle")
  /\ UNCHANGED <<kernel, epoll, connection_map, fd, batch, posted, result, answered, calls>>

------------------------------------------------------------------------------
Next ==
  \/ \E c \in Clients : Connect(c) \/ SendData(c) \/ CloseEnd(c)
  \/ Listen
  \/ \E t \in {main, socket} : AddConnection(t) \/ AddEvent(t)
  \/ WaitForEvents \/ OnEvent \/ Accept \/ Announce
  \/ \E k \in Closers : RemoveConnection(k) \/ Close(k) \/ RemoveEvent(k)
  \/ ModifyEvent
  \/ \E h \in Handlers :
       StartHandler(h) \/ ReadOnce(h) \/ Write(h) \/ FinishHandler(h)

Spec == Init /\ [][Next]_vars

(* The threads run, and a handler that a worker has started is finished.   *)
(* Nothing here says that a waiting message is ever started: the scheduler *)
(* grants that only while its pool is awake.  Clients, ModifyEvent and     *)
(* CloseConnection owe nothing.                                            *)
Fairness ==
  /\ \A t \in {main, socket} : WF_vars(AddConnection(t) \/ AddEvent(t))
  /\ WF_vars(WaitForEvents \/ OnEvent \/ Accept \/ Announce)
  /\ \A h \in Handlers : WF_vars(ReadOnce(h) \/ Write(h) \/ FinishHandler(h))

FairSpec == Spec /\ Fairness
==============================================================================
