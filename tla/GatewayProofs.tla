---------------------------- MODULE GatewayProofs ----------------------------
(***************************************************************************)
(* Proofs, for any number of clients, handlers, descriptors and chunks,    *)
(* that data in a socket is announced to a handler and every chunk that    *)
(* has been read is answered, and that the gateway is told of a connection *)
(* before it is told to read it.                                           *)
(***************************************************************************)
EXTENDS SocketProofs, MailboxLemmas

Queue == mailbox[gateway]
Busy(h) == pc[h] # "idle"
Working == {handling[h] : h \in {k \in Handlers : Busy(k)}}

(* Messages: every one is in one place, the queue, one handler, or done,   *)
(* and what is to be read or written is a descriptor.                      *)
MailTypes ==
  /\ mailbox \in [{gateway} -> Seq(SocketMessages)]
  /\ done \in SUBSET SocketMessages
  /\ posted \in Nat
  /\ \A h \in Handlers : pc[h] \in {"idle", "read", "reply", "write", "finish"}
  /\ handling \in [Handlers -> SocketMessages \cup {noMessage}]
  /\ \A h \in Handlers : Busy(h) => handling[h] \in SocketMessages
  /\ batch \in SUBSET [fd : Fds, can_read : BOOLEAN, can_write : BOOLEAN]

HandledOnce ==
  /\ Once({gateway}, mailbox, Working, done)
  /\ running = {<<gateway, handling[h]>> : h \in {k \in Handlers : Busy(k)}}
  /\ \A h, k \in Handlers : Busy(h) /\ Busy(k) /\ handling[h] = handling[k] => h = k

ReadsDescriptors ==
  /\ \A m \in Posted : m.can_read \/ m.can_write => m.fd \in Fds
  /\ \A h \in Handlers : pc[h] \in {"read", "reply", "write"} => handling[h].fd \in Fds

(* A connection in the map has been announced, or is about to be; and of   *)
(* the messages S that are started and the queue q, a SOCKET_RW message    *)
(* has its SOCKET_ACCEPT message before it.                                *)
AcceptPosted(f) == \E m \in Posted : IsAccept(m, f)
AcceptAhead(S, q) ==
  /\ \A m \in S : m.type = "SOCKET_RW" => \E n \in S : IsAccept(n, m.fd)
  /\ \A j \in 1 .. Len(q) : q[j].type = "SOCKET_RW" =>
       \/ \E n \in S : IsAccept(n, q[j].fd)
       \/ \E i \in 1 .. j - 1 : IsAccept(q[i], q[j].fd)
ClientsAnnounced ==
  /\ \A f \in Fds : connection_map[f] = "CLIENT" =>
       AcceptPosted(f) \/ (pc[socket] \in {"add_event", "announce"} /\ fd[socket] = f)
  /\ AcceptAhead(Started, Queue)

(* A client waits in the backlog once, and then has one descriptor; until  *)
(* it has, nothing it has written is read.                                 *)
ClientTypes ==
  /\ joined \in SUBSET Clients
  /\ written \in [Clients -> 0 .. MaxChunks]
  /\ unread \in [Clients -> 0 .. MaxChunks]
  /\ \A c \in Clients : unread[c] <= written[c]
  /\ eof \in [Clients -> BOOLEAN]
  /\ result \in [Handlers -> SUBSET (Clients \X (1 .. MaxChunks))]
  /\ answered \subseteq Clients \X (1 .. MaxChunks)

Backlog == Elements(backlog)
AcceptedOnce ==
  /\ Distinct(backlog)
  /\ Backlog \subseteq joined
  /\ \A f \in Fds : file[f] \in Clients => file[f] \in joined /\ file[f] \notin Backlog
  /\ \A f, g \in Fds : file[f] \in Clients /\ file[f] = file[g] => f = g
  /\ \A c \in Clients : c \notin joined \/ c \in Backlog => unread[c] = written[c]

(* The chunks a handler holds have left the socket, and if their client is *)
(* still connected, then at the descriptor the handler works on.           *)
Taken(c) == written[c] - unread[c]
ResultsAreTaken ==
  /\ \A h \in Handlers : pc[h] \notin {"read", "reply"} => result[h] = {}
  /\ \A h \in Handlers, c \in Clients, k \in 1 .. MaxChunks : <<c, k>> \in result[h] =>
       k <= Taken(c) /\ \A f \in Fds : file[f] = c => handling[h].fd = f

(* A client in the map is watched, or is about to be; what is about to be  *)
(* is not watched yet.  The batch is handled to its end before the next.   *)
ConnectedIsWatched ==
  /\ pc[socket] = "wait" => batch = {}
  /\ pc[main] \in {"add_connection", "add_event"} => fd[main] \in Fds
  /\ pc[main] = "add_event" => fd[main] \in closed \/ connection_map[fd[main]] = "LISTEN"
  /\ \A f \in Fds : file[f] = nobody => interest[f] = "none"
  /\ \A f \in Fds \ closed :
       /\ fd[socket] = f /\ pc[socket] \in {"add_connection", "add_event"} => interest[f] = "none"
       /\ fd[socket] = f /\ pc[socket] = "add_event" => connection_map[f] = "CLIENT"
       /\ connection_map[f] = "CLIENT" =>
            interest[f] # "none" \/ (fd[socket] = f /\ pc[socket] = "add_event")

GatewayInvariant ==
  /\ SocketInvariant
  /\ MailTypes /\ HandledOnce /\ ReadsDescriptors /\ ClientsAnnounced
  /\ ClientTypes /\ AcceptedOnce /\ ResultsAreTaken
  /\ ConnectedIsWatched
  /\ UnreadIsAnnounced
  /\ ReadIsAnswered

------------------------------------------------------------------------------
(* What a step does to the messages.                                       *)

LEMMA PostedParts ==
  /\ HandledOnce => /\ Posted = done \cup Working \cup Elements(Queue)
                    /\ Started = done \cup Working
  /\ HandledOnce' => /\ Posted' = done' \cup Working' \cup Elements(Queue')
                     /\ Started' = done' \cup Working'
<1>1. ASSUME NEW r, NEW b, r = <<gateway, b>> PROVE r[2] = b BY <1>1
<1>2. ASSUME HandledOnce PROVE Mail!Active = Working
  <2>1. \A r \in running : \E h \in Handlers : Busy(h) /\ r = <<gateway, handling[h]>>
    BY <1>2 DEF HandledOnce
  <2>2. \A h \in Handlers : Busy(h) => <<gateway, handling[h]>> \in running
    BY <1>2 DEF HandledOnce
  <2>3. ASSUME NEW r \in running PROVE r[2] \in Working
    BY <1>1, <2>1 DEF Working
  <2>4. ASSUME NEW h \in Handlers, Busy(h) PROVE handling[h] \in Mail!Active
    <3>1. <<gateway, handling[h]>>[2] = handling[h] OBVIOUS
    <3> QED BY <2>2, <2>4, <3>1 DEF Mail!Active
  <2>5. Mail!Active \subseteq Working BY <2>3 DEF Mail!Active
  <2>6. Working \subseteq Mail!Active BY <2>4 DEF Working
  <2> QED BY <2>5, <2>6
<1>3. ASSUME HandledOnce' PROVE Mail!Active' = Working'
  <2>1. \A r \in running' : \E h \in Handlers : Busy(h)' /\ r = <<gateway, handling'[h]>>
    BY <1>3 DEF HandledOnce
  <2>2. \A h \in Handlers : Busy(h)' => <<gateway, handling'[h]>> \in running'
    BY <1>3 DEF HandledOnce
  <2>3. ASSUME NEW r \in running' PROVE r[2] \in Working'
    BY <1>1, <2>1 DEF Working
  <2>4. ASSUME NEW h \in Handlers, Busy(h)' PROVE handling'[h] \in Mail!Active'
    <3>1. <<gateway, handling'[h]>>[2] = handling'[h] OBVIOUS
    <3> QED BY <2>2, <2>4, <3>1 DEF Mail!Active
  <2>5. Mail!Active' \subseteq Working' BY <2>3 DEF Mail!Active
  <2>6. Working' \subseteq Mail!Active' BY <2>4 DEF Working
  <2> QED BY <2>5, <2>6
<1>4. Posted = done \cup Mail!Active \cup Elements(Queue)
  BY DEF Posted, Mail!Accepted, Mail!Waiting, Elements, Queue
<1>5. Posted' = done' \cup Mail!Active' \cup Elements(Queue')
  BY DEF Posted, Mail!Accepted, Mail!Waiting, Elements, Queue
<1> QED BY <1>2, <1>3, <1>4, <1>5 DEF Started

(* Steps that leave the messages where they are.                           *)
Quiet ==
  /\ UNCHANGED <<mailbox, running, done, posted, handling>>
  /\ \A h \in Handlers : pc'[h] = pc[h]

LEMMA QuietMail ==
  ASSUME HandledOnce, Quiet
  PROVE  /\ HandledOnce' /\ Posted' = Posted /\ Started' = Started /\ Queue' = Queue
         /\ \A h \in Handlers : Busy(h)' = Busy(h)
<1>1. \A h \in Handlers : Busy(h)' = Busy(h) BY DEF Quiet, Busy
<1>2. Working' = Working BY <1>1 DEF Quiet, Working
<1>3. HandledOnce' BY <1>1, <1>2 DEF Quiet, HandledOnce
<1>4. Posted' = Posted /\ Started' = Started /\ Queue' = Queue
  BY DEF Quiet, Posted, Started, Mail!Accepted, Mail!Active, Mail!Waiting, Queue
<1> QED BY <1>1, <1>3, <1>4

LEMMA KernelQuiet ==
  ASSUME Types,
         \/ \E c \in Clients : Connect(c) \/ SendData(c) \/ CloseEnd(c)
         \/ \E t \in Kernel : AddConnection(t) \/ AddEvent(t)
         \/ Listen \/ WaitForEvents \/ Accept
         \/ \E k \in Closers : RemoveConnection(k) \/ Close(k) \/ RemoveEvent(k)
         \/ ModifyEvent
         \/ UNCHANGED vars
  PROVE  Quiet /\ UNCHANGED <<result, answered>>
<1> USE Names DEF Types, Quiet, Goto, Kernel, Threads, mail, gateway_vars
<1>1. CASE \E c \in Clients : Connect(c) \/ SendData(c) \/ CloseEnd(c)
  BY <1>1 DEF Connect, SendData, CloseEnd
<1>2. CASE \E t \in Kernel : AddConnection(t) \/ AddEvent(t)
  BY <1>2 DEF AddConnection, AddEvent
<1>3. CASE Listen BY <1>3 DEF Listen
<1>4. CASE WaitForEvents \/ Accept BY <1>4 DEF WaitForEvents, Continue, Accept
<1>5. CASE (\E k \in Closers : RemoveConnection(k) \/ Close(k) \/ RemoveEvent(k)) \/ ModifyEvent
  BY <1>5 DEF RemoveConnection, Close, RemoveEvent, ModifyEvent
<1>6. CASE UNCHANGED vars BY <1>6 DEF vars
<1> QED BY <1>1, <1>2, <1>3, <1>4, <1>5, <1>6

(* A message that is posted joins the queue.                               *)
LEMMA PostMail ==
  ASSUME MailTypes, HandledOnce,
         NEW type \in {"SOCKET_ACCEPT", "SOCKET_RW"}, NEW f \in Fds \cup {Failed},
         NEW r \in BOOLEAN, NEW w \in BOOLEAN, Post(type, f, r, w),
         handling' = handling, \A h \in Handlers : pc'[h] = pc[h]
  PROVE  /\ HandledOnce'
         /\ mailbox' \in [{gateway} -> Seq(SocketMessages)] /\ done' = done
         /\ posted' = posted + 1 /\ Started' = Started
         /\ \E m \in SocketMessages :
              /\ m.id = posted /\ m.type = type /\ m.fd = f /\ m.can_read = r /\ m.can_write = w
              /\ Posted' = Posted \cup {m}
              /\ Queue \in Seq(SocketMessages) /\ Queue' = Append(Queue, m)
              /\ Elements(Queue') = Elements(Queue) \cup {m}
<1>1. PICK m : m = [id |-> posted, type |-> type, fd |-> f, can_read |-> r, can_write |-> w] OBVIOUS
<1>2. m \in SocketMessages BY <1>1 DEF SocketMessages, MailTypes
<1>3. /\ m \notin Mail!Accepted /\ posted' = posted + 1
      /\ mailbox' = [mailbox EXCEPT ![gateway] = Append(@, m)]
      /\ UNCHANGED <<running, done>>
  BY <1>1 DEF Post, Mail!Post
<1>4. m \notin done /\ m \notin Working /\ m \notin Elements(Queue)
  BY <1>3, PostedParts DEF Posted
<1>5. \A h \in Handlers : Busy(h)' = Busy(h) BY DEF Busy
<1>6. Working' = Working BY <1>5 DEF Working
<1>7. mailbox' \in [{gateway} -> Seq(SocketMessages)] /\ Once({gateway}, mailbox', Working, done)
  <2>1. mailbox \in [{gateway} -> Seq(SocketMessages)] /\ Once({gateway}, mailbox, Working, done)
    BY DEF MailTypes, HandledOnce
  <2>2. gateway \in {gateway} /\ \A s \in {gateway} : m \notin Elements(mailbox[s])
    BY <1>4 DEF Queue
  <2>3. mailbox' = [mailbox EXCEPT ![gateway] = Append(@, m)] BY <1>3
  <2> QED BY <1>2, <1>4, <2>1, <2>2, <2>3, PostOnce
<1>8. HandledOnce' BY <1>3, <1>5, <1>6, <1>7 DEF HandledOnce
<1>9. /\ Queue \in Seq(SocketMessages) /\ Queue' = Append(Queue, m)
      /\ Elements(Queue') = Elements(Queue) \cup {m}
  <2>1. Queue \in Seq(SocketMessages) /\ Queue' = Append(Queue, m) BY <1>3 DEF MailTypes, Queue
  <2>2. Distinct(Queue) BY DEF HandledOnce, Once, Queue
  <2> QED BY <1>2, <1>4, <2>1, <2>2, AppendDistinct
<1>10. Posted' = Posted \cup {m} /\ Started' = Started BY <1>3, <1>6, <1>8, <1>9, PostedParts
<1> QED BY <1>1, <1>2, <1>3, <1>7, <1>8, <1>9, <1>10

(* The oldest message leaves the queue for a handler.                      *)
LEMMA StartMail ==
  ASSUME Types, MailTypes, HandledOnce, NEW h \in Handlers, StartHandler(h)
  PROVE  /\ HandledOnce' /\ MailTypes' /\ Posted' = Posted
         /\ \E m \in Elements(Queue) :
              /\ handling' = [handling EXCEPT ![h] = m]
              /\ Elements(Queue') = Elements(Queue) \ {m}
              /\ m \in Posted /\ Started' = Started \cup {m}
              /\ Queue \in Seq(SocketMessages) /\ Queue # <<>>
              /\ m = Head(Queue) /\ Queue' = Tail(Queue)
              /\ \A k \in Handlers \ {h} : pc'[k] = pc[k]
              /\ pc'[main] = pc[main] /\ pc'[socket] = pc[socket]
              /\ pc[h] = "idle"
              /\ m.can_read => pc'[h] = "read"
              /\ ~m.can_read /\ m.can_write => pc'[h] = "write"
              /\ ~m.can_read /\ ~m.can_write => pc'[h] = "finish"
<1>1. PICK m : m = Head(mailbox[gateway]) OBVIOUS
<1>2. /\ mailbox[gateway] # <<>> /\ running' = running \cup {<<gateway, m>>}
      /\ mailbox' = [mailbox EXCEPT ![gateway] = Tail(@)] /\ done' = done
      /\ handling' = [handling EXCEPT ![h] = m]
      /\ UNCHANGED <<posted, batch>> /\ pc[h] = "idle"
  BY <1>1 DEF StartHandler, Mail!Start
<1>3. PICK to \in {"read", "write", "finish"} :
        /\ pc' = [pc EXCEPT ![h] = to]
        /\ m.can_read => to = "read"
        /\ ~m.can_read /\ m.can_write => to = "write"
        /\ ~m.can_read /\ ~m.can_write => to = "finish"
  <2> Goto(h, FirstStep(m)) BY <1>1 DEF StartHandler
  <2> QED BY DEF Goto, FirstStep
<1>4. /\ pc'[h] \in {"read", "write", "finish"} /\ \A k \in Handlers \ {h} : pc'[k] = pc[k]
      /\ pc'[main] = pc[main] /\ pc'[socket] = pc[socket]
      /\ m.can_read => pc'[h] = "read"
      /\ ~m.can_read /\ m.can_write => pc'[h] = "write"
      /\ ~m.can_read /\ ~m.can_write => pc'[h] = "finish"
  BY <1>3, Names DEF Types, Kernel, Threads
<1>5. Queue \in Seq(SocketMessages) /\ Queue # <<>> /\ m = Head(Queue) /\ Queue' = Tail(Queue)
  BY <1>1, <1>2 DEF MailTypes, Queue
<1>6. m \in SocketMessages /\ m \in Elements(Queue) BY <1>5, HeadWaits
<1>7. Elements(Queue') = Elements(Queue) \ {m}
  <2>1. Distinct(Queue) BY DEF HandledOnce, Once, Queue
  <2> QED BY <1>5, <2>1, TailDistinct
<1>8. m \notin Working BY <1>6 DEF HandledOnce, Once, Queue
<1>9. /\ \A k \in Handlers \ {h} : Busy(k)' = Busy(k) /\ handling'[k] = handling[k]
      /\ ~Busy(h) /\ Busy(h)'
  BY <1>2, <1>4 DEF Busy
<1>10. Working' = Working \cup {m}
  <2>1. handling'[h] = m BY <1>2 DEF MailTypes
  <2> QED BY <1>9, <2>1 DEF Working
<1>11. mailbox' \in [{gateway} -> Seq(SocketMessages)] /\ Once({gateway}, mailbox', Working', done')
  <2>1. mailbox \in [{gateway} -> Seq(SocketMessages)] /\ Once({gateway}, mailbox, Working, done)
    BY DEF MailTypes, HandledOnce
  <2>2. gateway \in {gateway} /\ mailbox[gateway] # <<>> /\ mailbox' = [mailbox EXCEPT ![gateway] = Tail(@)]
    BY <1>2
  <2>3. mailbox' \in [{gateway} -> Seq(SocketMessages)] /\ Once({gateway}, mailbox', Working \cup {m}, done)
    BY <1>1, <2>1, <2>2, StartOnce
  <2> QED BY <1>2, <1>10, <2>3
<1>12. HandledOnce'
  <2>1. handling'[h] = m BY <1>2 DEF MailTypes
  <2>2. ASSUME NEW r
        PROVE  r \in running' <=> \E k \in Handlers : Busy(k)' /\ r = <<gateway, handling'[k]>>
    <3>1. r \in running <=> \E k \in Handlers : Busy(k) /\ r = <<gateway, handling[k]>>
      BY DEF HandledOnce
    <3> QED BY <1>2, <1>9, <2>1, <3>1
  <2>3. running' = {<<gateway, handling'[k]>> : k \in {j \in Handlers : Busy(j)'}} BY <2>2
  <2>4. ASSUME NEW j \in Handlers, NEW k \in Handlers, Busy(j)', Busy(k)', handling'[j] = handling'[k]
        PROVE  j = k
    <3>1. \A i \in Handlers : Busy(i) => handling[i] # m BY <1>8 DEF Working
    <3> QED BY <1>9, <2>1, <2>4, <3>1 DEF HandledOnce
  <2> QED BY <1>11, <2>3, <2>4 DEF HandledOnce
<1>13. MailTypes'
  <2>1. handling' \in [Handlers -> SocketMessages \cup {noMessage}] BY <1>2, <1>6 DEF MailTypes
  <2>2. \A k \in Handlers : Busy(k)' => handling'[k] \in SocketMessages
    BY <1>2, <1>6, <1>9 DEF MailTypes
  <2>3. \A k \in Handlers : pc'[k] \in {"idle", "read", "reply", "write", "finish"}
    BY <1>4 DEF MailTypes
  <2> QED BY <1>2, <1>11, <2>1, <2>2, <2>3 DEF MailTypes
<1>14. Posted' = Posted /\ m \in Posted /\ Started' = Started \cup {m}
  BY <1>2, <1>6, <1>7, <1>10, <1>12, PostedParts
<1> QED BY <1>2, <1>4, <1>5, <1>6, <1>7, <1>12, <1>13, <1>14

(* A handler reads or writes; its message stays with it.                   *)
LEMMA HandlerMail ==
  ASSUME Types, MailTypes, HandledOnce, NEW h \in Handlers, ReadOnce(h) \/ Write(h)
  PROVE  /\ HandledOnce' /\ MailTypes' /\ Posted' = Posted
         /\ Started' = Started /\ Queue' = Queue
         /\ UNCHANGED <<mailbox, running, done, posted, handling>>
         /\ \A k \in Handlers \ {h} : pc'[k] = pc[k]
         /\ pc'[main] = pc[main] /\ pc'[socket] = pc[socket]
         /\ pc[h] = "read" => pc'[h] \in {"read", "reply"}
         /\ pc[h] \in {"reply", "write"} => pc'[h] \in {"write", "finish"}
<1> USE Names DEF Types, Kernel, Threads
<1>1. UNCHANGED <<mailbox, running, done, posted, handling, batch>>
  BY DEF ReadOnce, Write, mail, gateway_vars
<1>2. /\ \A k \in Handlers \ {h} : pc'[k] = pc[k]
      /\ pc'[main] = pc[main] /\ pc'[socket] = pc[socket]
      /\ pc[h] \in {"read", "reply", "write"}
      /\ pc[h] = "read" => pc'[h] \in {"read", "reply"}
      /\ pc[h] \in {"reply", "write"} => pc'[h] \in {"write", "finish"}
  BY DEF ReadOnce, Write, Goto, KeepReading
<1>3. \A k \in Handlers : Busy(k)' = Busy(k) BY <1>2 DEF Busy
<1>4. Working' = Working BY <1>1, <1>3 DEF Working
<1>5. HandledOnce' BY <1>1, <1>3, <1>4 DEF HandledOnce
<1>6. MailTypes' BY <1>1, <1>2, <1>3 DEF MailTypes
<1>7. Posted' = Posted /\ Started' = Started /\ Queue' = Queue
  BY <1>1 DEF Posted, Started, Mail!Accepted, Mail!Active, Mail!Waiting, Queue
<1> QED BY <1>1, <1>2, <1>5, <1>6, <1>7

(* A handler returns: its message is done.                                 *)
LEMMA FinishMail ==
  ASSUME Types, MailTypes, HandledOnce, NEW h \in Handlers, FinishHandler(h)
  PROVE  /\ HandledOnce' /\ MailTypes' /\ Posted' = Posted
         /\ Started' = Started /\ Queue' = Queue
         /\ posted' = posted
         /\ \A k \in Handlers \ {h} : pc'[k] = pc[k] /\ handling'[k] = handling[k]
         /\ pc'[main] = pc[main] /\ pc'[socket] = pc[socket]
         /\ pc[h] = "finish" /\ pc'[h] = "idle"
<1>1. PICK m : m = handling[h] OBVIOUS
<1>2. /\ pc[h] = "finish" /\ UNCHANGED <<mailbox, posted, batch>>
      /\ running' = running \ {<<gateway, m>>} /\ done' = done \cup {m}
      /\ handling' = [handling EXCEPT ![h] = noMessage]
  BY <1>1 DEF FinishHandler, Mail!Finish
<1>3. /\ pc'[h] = "idle" /\ \A k \in Handlers \ {h} : pc'[k] = pc[k]
      /\ pc'[main] = pc[main] /\ pc'[socket] = pc[socket]
  BY Names DEF FinishHandler, Goto, Types, Kernel, Threads
<1>4. /\ \A k \in Handlers \ {h} : Busy(k)' = Busy(k) /\ handling'[k] = handling[k]
      /\ Busy(h) /\ ~Busy(h)'
  BY <1>2, <1>3 DEF Busy, MailTypes
<1>5. m \in SocketMessages /\ m \in Working BY <1>1, <1>4 DEF MailTypes, Working
<1>6. \A k \in Handlers \ {h} : Busy(k) => handling[k] # m BY <1>1, <1>4 DEF HandledOnce
<1>7. Working' = Working \ {m}
  <2>1. ASSUME NEW b PROVE b \in Working' <=> b \in Working /\ b # m
    BY <1>1, <1>4, <1>6 DEF Working
  <2> QED BY <2>1
<1>8. Once({gateway}, mailbox', Working', done')
  <2>1. Once({gateway}, mailbox, Working, done) BY DEF HandledOnce
  <2>2. Once({gateway}, mailbox, Working \ {m}, done \cup {m}) BY <1>5, <2>1, FinishOnce
  <2> QED BY <1>2, <1>7, <2>2
<1>9. HandledOnce'
  <2>1. ASSUME NEW r
        PROVE  r \in running' <=> \E k \in Handlers : Busy(k)' /\ r = <<gateway, handling'[k]>>
    <3>1. r \in running <=> \E k \in Handlers : Busy(k) /\ r = <<gateway, handling[k]>>
      BY DEF HandledOnce
    <3>2. r = <<gateway, handling[h]>> <=> r = <<gateway, m>> BY <1>1
    <3>3. \A k \in Handlers \ {h} : Busy(k) /\ r = <<gateway, handling[k]>> => r # <<gateway, m>>
      BY <1>6
    <3> QED BY <1>2, <1>4, <3>1, <3>2, <3>3
  <2>2. running' = {<<gateway, handling'[k]>> : k \in {j \in Handlers : Busy(j)'}} BY <2>1
  <2>3. ASSUME NEW j \in Handlers, NEW k \in Handlers, Busy(j)', Busy(k)', handling'[j] = handling'[k]
        PROVE  j = k
    BY <1>4, <2>3 DEF HandledOnce
  <2> QED BY <1>8, <2>2, <2>3 DEF HandledOnce
<1>10. MailTypes'
  <2>1. handling' \in [Handlers -> SocketMessages \cup {noMessage}] BY <1>2 DEF MailTypes
  <2> QED BY <1>2, <1>3, <1>4, <1>5, <2>1 DEF MailTypes
<1>11. Posted' = Posted /\ Started' = Started /\ Queue' = Queue
  BY <1>2, <1>5, <1>7, <1>9, PostedParts DEF Queue
<1> QED BY <1>2, <1>3, <1>4, <1>9, <1>10, <1>11

(* The socket thread handles an event; Quiet unless it posts.              *)
LEMMA EventMail ==
  ASSUME Types, OnEvent
  PROVE  \E e \in batch :
           /\ batch' = batch \ {e}
           /\ UNCHANGED <<kernel, epoll, connection_map, closed, result, answered, handling>>
           /\ \A h \in Handlers : pc'[h] = pc[h]
           /\ pc[socket] = "event" /\ pc'[main] = pc[main] /\ fd'[main] = fd[main]
           /\ pc'[socket] \in {"wait", "event", "accept"}
           /\ pc'[socket] = "wait" => batch' = {}
           /\ IF connection_map[e.fd] = "CLIENT"
                THEN Post("SOCKET_RW", e.fd, e.can_read, e.can_write)
                ELSE Quiet
<1>1. PICK e \in batch :
        /\ batch' = batch \ {e}
        /\ CASE connection_map[e.fd] = "LISTEN" /\ e.can_read ->
                 /\ fd' = [fd EXCEPT ![socket] = e.fd]
                 /\ Goto(socket, "accept")
                 /\ UNCHANGED mail
            [] connection_map[e.fd] = "CLIENT" ->
                 /\ Post("SOCKET_RW", e.fd, e.can_read, e.can_write)
                 /\ Continue(batch')
                 /\ UNCHANGED fd
            [] OTHER -> Continue(batch') /\ UNCHANGED <<fd, mail>>
  BY DEF OnEvent
<1>2. /\ UNCHANGED <<kernel, epoll, connection_map, closed, result, answered, handling>>
      /\ pc[socket] = "event"
  BY DEF OnEvent, gateway_vars, calls
<1>3. \/ /\ connection_map[e.fd] = "LISTEN" /\ fd' = [fd EXCEPT ![socket] = e.fd]
         /\ Goto(socket, "accept") /\ UNCHANGED mail
      \/ /\ connection_map[e.fd] = "CLIENT" /\ Post("SOCKET_RW", e.fd, e.can_read, e.can_write)
         /\ Continue(batch') /\ UNCHANGED fd
      \/ connection_map[e.fd] # "CLIENT" /\ Continue(batch') /\ UNCHANGED <<fd, mail>>
  BY <1>1
<1>4. \/ Goto(socket, "accept")
      \/ Goto(socket, "wait") /\ batch' = {}
      \/ Goto(socket, "event")
  BY <1>3 DEF Continue
<1>5. /\ \A h \in Handlers : pc'[h] = pc[h]
      /\ pc'[main] = pc[main] /\ fd'[main] = fd[main]
      /\ pc'[socket] \in {"wait", "event", "accept"}
      /\ pc'[socket] = "wait" => batch' = {}
  BY <1>3, <1>4, Names DEF Goto, Types, Kernel, Threads
<1>6. connection_map[e.fd] # "CLIENT" => Quiet
  <2>1. connection_map[e.fd] # "CLIENT" => UNCHANGED mail BY <1>3
  <2> QED BY <1>2, <1>5, <2>1 DEF Quiet, mail
<1>7. connection_map[e.fd] = "CLIENT" => Post("SOCKET_RW", e.fd, e.can_read, e.can_write)
  BY <1>3
<1> QED BY <1>1, <1>2, <1>5, <1>6, <1>7

LEMMA AnnounceMail ==
  ASSUME Types, Announce
  PROVE  /\ Post("SOCKET_ACCEPT", fd[socket], FALSE, FALSE)
         /\ UNCHANGED <<kernel, epoll, connection_map, fd, batch, closed, result, answered, handling>>
         /\ \A h \in Handlers : pc'[h] = pc[h]
         /\ pc[socket] = "announce" /\ pc'[main] = pc[main]
         /\ pc'[socket] \in {"wait", "event"}
         /\ pc'[socket] = "wait" => batch = {}
  BY Names DEF Announce, Continue, Goto, Types, Kernel, Threads, gateway_vars, calls

------------------------------------------------------------------------------
(* Each part of the invariant is preserved by every step.                  *)

KernelStep ==
  \/ \E c \in Clients : Connect(c) \/ SendData(c) \/ CloseEnd(c)
  \/ \E t \in Kernel : AddConnection(t) \/ AddEvent(t)
  \/ Listen \/ WaitForEvents \/ Accept
  \/ \E k \in Closers : RemoveConnection(k) \/ Close(k) \/ RemoveEvent(k)
  \/ ModifyEvent
  \/ UNCHANGED vars

LEMMA Steps ==
  [Next]_vars => \/ KernelStep \/ OnEvent \/ Announce
                 \/ \E h \in Handlers : StartHandler(h)
                 \/ \E h \in Handlers : ReadOnce(h) \/ Write(h)
                 \/ \E h \in Handlers : FinishHandler(h)
  BY DEF Next, KernelStep, Kernel

LEMMA KernelBatch ==
  ASSUME Types, MailTypes, KernelStep
  PROVE  batch' \in SUBSET [fd : Fds, can_read : BOOLEAN, can_write : BOOLEAN]
<1>1. CASE WaitForEvents
  <2> SUFFICES ASSUME NEW e \in batch'
               PROVE  e \in [fd : Fds, can_read : BOOLEAN, can_write : BOOLEAN]
    OBVIOUS
  <2>1. PICK f \in ready :
          e = [fd |-> f, can_read |-> Readable(f),
               can_write |-> interest[f] = "inout" /\ file[f] # listener]
    BY <1>1 DEF WaitForEvents
  <2>2. Readable(f) \in BOOLEAN /\ (interest[f] = "inout" /\ file[f] # listener) \in BOOLEAN
    BY DEF Readable
  <2>3. PICK r \in BOOLEAN, w \in BOOLEAN : e = [fd |-> f, can_read |-> r, can_write |-> w]
    BY <2>1, <2>2, Zenon
  <2> QED BY <2>3 DEF Types
<1>2. CASE UNCHANGED batch BY <1>2 DEF MailTypes
<1>3. KernelStep => WaitForEvents \/ UNCHANGED batch
  BY DEF KernelStep, Connect, SendData, CloseEnd, AddConnection, AddEvent, Listen, Accept,
         RemoveConnection, Close, RemoveEvent, ModifyEvent, vars
<1> QED BY <1>1, <1>2, <1>3

LEMMA PostedTypes ==
  ASSUME MailTypes, HandledOnce
  PROVE  Posted \subseteq SocketMessages /\ Elements(Queue) \subseteq Posted
<1>1. Elements(Queue) \subseteq SocketMessages
  <2>1. Queue \in Seq(SocketMessages) BY DEF MailTypes, Queue
  <2> QED BY <2>1 DEF Elements
<1>2. Working \subseteq SocketMessages BY DEF MailTypes, Working
<1>3. Posted \subseteq SocketMessages /\ Elements(Queue) \subseteq Posted
  BY <1>1, <1>2, PostedParts DEF MailTypes
<1> QED BY <1>3 DEF SocketMessages

LEMMA MailStep ==
  ASSUME GatewayInvariant, [Next]_vars
  PROVE  MailTypes' /\ HandledOnce' /\ ReadsDescriptors'
<1> USE DEF GatewayInvariant
<1>0. Types BY DEF SocketInvariant
<1>1. CASE KernelStep
  <2>1. Quiet BY <1>0, <1>1, KernelQuiet DEF KernelStep
  <2>2. HandledOnce' /\ Posted' = Posted /\ \A h \in Handlers : Busy(h)' = Busy(h)
    BY <2>1, QuietMail
  <2>3. MailTypes' BY <1>0, <1>1, <2>1, <2>2, KernelBatch DEF MailTypes, Quiet
  <2>4. ReadsDescriptors' BY <2>1, <2>2 DEF ReadsDescriptors, Quiet
  <2> QED BY <2>2, <2>3, <2>4
<1>2. CASE OnEvent
  <2>1. PICK e \in batch :
           /\ batch' = batch \ {e}
           /\ handling' = handling
           /\ \A h \in Handlers : pc'[h] = pc[h]
           /\ IF connection_map[e.fd] = "CLIENT"
                THEN Post("SOCKET_RW", e.fd, e.can_read, e.can_write)
                ELSE Quiet
    BY <1>0, <1>2, EventMail
  <2>2. e.fd \in Fds /\ e.can_read \in BOOLEAN /\ e.can_write \in BOOLEAN BY DEF MailTypes
  <2>3. CASE Quiet
    <3>1. HandledOnce' /\ Posted' = Posted /\ \A h \in Handlers : Busy(h)' = Busy(h)
      BY <2>3, QuietMail
    <3>2. MailTypes' BY <2>1, <2>3, <3>1 DEF MailTypes, Quiet
    <3>3. ReadsDescriptors' BY <2>3, <3>1 DEF ReadsDescriptors, Quiet
    <3> QED BY <3>1, <3>2, <3>3
  <2>4. CASE Post("SOCKET_RW", e.fd, e.can_read, e.can_write)
    <3>1. /\ HandledOnce' /\ mailbox' \in [{gateway} -> Seq(SocketMessages)] /\ done' = done
          /\ posted' = posted + 1
      BY <2>1, <2>2, <2>4, PostMail
    <3>2. PICK m \in SocketMessages : /\ m.fd = e.fd /\ Posted' = Posted \cup {m}
      BY <2>1, <2>2, <2>4, PostMail
    <3>3. \A h \in Handlers : Busy(h)' = Busy(h) BY <2>1 DEF Busy
    <3>4. MailTypes' BY <2>1, <3>1, <3>3 DEF MailTypes
    <3>5. ReadsDescriptors' BY <2>1, <2>2, <3>1, <3>2 DEF ReadsDescriptors
    <3> QED BY <3>1, <3>4, <3>5
  <2> QED BY <2>1, <2>3, <2>4
<1>3. CASE Announce
  <2> PICK no \in BOOLEAN : no = FALSE OBVIOUS
  <2>1. /\ Post("SOCKET_ACCEPT", fd[socket], no, no) /\ UNCHANGED <<batch, handling>>
        /\ \A h \in Handlers : pc'[h] = pc[h]
    BY <1>0, <1>3, AnnounceMail
  <2>2. fd[socket] \in Fds \cup {Failed} BY <1>0 DEF Types, Kernel, Threads
  <2>3. /\ HandledOnce' /\ mailbox' \in [{gateway} -> Seq(SocketMessages)] /\ done' = done
        /\ posted' = posted + 1
    BY <2>1, <2>2, PostMail
  <2>4. PICK m \in SocketMessages :
          /\ m.can_read = no /\ m.can_write = no /\ Posted' = Posted \cup {m}
    BY <2>1, <2>2, PostMail
  <2>5. \A h \in Handlers : Busy(h)' = Busy(h) BY <2>1 DEF Busy
  <2>6. MailTypes' BY <2>1, <2>3, <2>5 DEF MailTypes
  <2>7. ReadsDescriptors' BY <2>1, <2>3, <2>4 DEF ReadsDescriptors
  <2> QED BY <2>3, <2>6, <2>7
<1>4. ASSUME NEW h \in Handlers, StartHandler(h) PROVE MailTypes' /\ HandledOnce' /\ ReadsDescriptors'
  <2>1. HandledOnce' /\ MailTypes' /\ Posted' = Posted BY <1>0, <1>4, StartMail
  <2>2. PICK m \in Posted :
          /\ handling' = [handling EXCEPT ![h] = m]
          /\ \A k \in Handlers \ {h} : pc'[k] = pc[k]
          /\ ~m.can_read /\ ~m.can_write => pc'[h] = "finish"
    BY <1>0, <1>4, StartMail
  <2>3. posted' = posted BY <1>4 DEF StartHandler
  <2>4. ReadsDescriptors' BY <2>1, <2>2, <2>3 DEF ReadsDescriptors, MailTypes
  <2> QED BY <2>1, <2>4
<1>5. ASSUME NEW h \in Handlers, ReadOnce(h) \/ Write(h)
      PROVE  MailTypes' /\ HandledOnce' /\ ReadsDescriptors'
  <2>1. /\ HandledOnce' /\ MailTypes' /\ Posted' = Posted /\ UNCHANGED <<posted, handling>>
        /\ \A k \in Handlers \ {h} : pc'[k] = pc[k]
        /\ pc[h] \in {"read", "reply", "write"}
    BY <1>0, <1>5, HandlerMail DEF ReadOnce, Write
  <2>2. ReadsDescriptors' BY <2>1 DEF ReadsDescriptors
  <2> QED BY <2>1, <2>2
<1>6. ASSUME NEW h \in Handlers, FinishHandler(h) PROVE MailTypes' /\ HandledOnce' /\ ReadsDescriptors'
  <2>1. /\ HandledOnce' /\ MailTypes' /\ Posted' = Posted /\ posted' = posted
        /\ \A k \in Handlers \ {h} : pc'[k] = pc[k] /\ handling'[k] = handling[k]
        /\ pc'[h] = "idle"
    BY <1>0, <1>6, FinishMail
  <2>2. ReadsDescriptors' BY <2>1 DEF ReadsDescriptors
  <2> QED BY <2>1, <2>2
<1> QED BY <1>1, <1>2, <1>3, <1>4, <1>5, <1>6, Steps

(* A message joins the queue behind its SOCKET_ACCEPT message, or is one.  *)
LEMMA AheadAppend ==
  ASSUME NEW S, NEW M, NEW q \in Seq(M), NEW m \in M, AcceptAhead(S, q),
         m.type = "SOCKET_ACCEPT" \/ \E n \in S \cup Elements(q) : IsAccept(n, m.fd)
  PROVE  AcceptAhead(S, Append(q, m))
<1>1. /\ Len(Append(q, m)) = Len(q) + 1 /\ Len(q) \in Nat
      /\ \A n \in 1 .. Len(q) : Append(q, m)[n] = q[n]
      /\ Append(q, m)[Len(q) + 1] = m
  OBVIOUS
<1> SUFFICES ASSUME NEW j \in 1 .. Len(q) + 1, Append(q, m)[j].type = "SOCKET_RW"
             PROVE  \/ \E n \in S : IsAccept(n, Append(q, m)[j].fd)
                    \/ \E i \in 1 .. j - 1 : IsAccept(Append(q, m)[i], Append(q, m)[j].fd)
  BY <1>1 DEF AcceptAhead
<1>2. CASE j \in 1 .. Len(q)
  <2>1. \A i \in 1 .. j - 1 : i \in 1 .. Len(q) BY <1>1, <1>2
  <2> QED BY <1>1, <1>2, <2>1 DEF AcceptAhead
<1>3. CASE j = Len(q) + 1
  <2>1. PICK n \in S \cup Elements(q) : IsAccept(n, m.fd) BY <1>1, <1>3
  <2>2. n \in Elements(q) => \E i \in 1 .. j - 1 : Append(q, m)[i] = n BY <1>1, <1>3 DEF Elements
  <2> QED BY <1>1, <1>3, <2>1, <2>2
<1> QED BY <1>1, <1>2, <1>3

LEMMA AheadTail ==
  ASSUME NEW S, NEW M, NEW q \in Seq(M), q # <<>>, AcceptAhead(S, q)
  PROVE  AcceptAhead(S \cup {Head(q)}, Tail(q))
<1>1. /\ Len(q) \in Nat \ {0} /\ Len(Tail(q)) = Len(q) - 1 /\ Head(q) = q[1]
      /\ \A n \in 1 .. Len(q) - 1 : Tail(q)[n] = q[n + 1]
  OBVIOUS
<1>2. q[1].type = "SOCKET_RW" => \E n \in S : IsAccept(n, q[1].fd)
  <2>1. 1 \in 1 .. Len(q) /\ 1 .. 1 - 1 = {} BY <1>1
  <2> QED BY <2>1 DEF AcceptAhead
<1>3. ASSUME NEW j \in 1 .. Len(q) - 1, Tail(q)[j].type = "SOCKET_RW"
      PROVE  \/ \E n \in S \cup {Head(q)} : IsAccept(n, Tail(q)[j].fd)
             \/ \E i \in 1 .. j - 1 : IsAccept(Tail(q)[i], Tail(q)[j].fd)
  <2>1. j + 1 \in 1 .. Len(q) /\ Tail(q)[j] = q[j + 1] BY <1>1
  <2>2. CASE \E n \in S : IsAccept(n, q[j + 1].fd) BY <2>1, <2>2
  <2>3. CASE \E i \in 1 .. j : IsAccept(q[i], q[j + 1].fd)
    <3>1. PICK i \in 1 .. j : IsAccept(q[i], q[j + 1].fd) BY <2>3
    <3>2. CASE i = 1 BY <1>1, <2>1, <3>1, <3>2
    <3>3. CASE i # 1
      <4>1. i - 1 \in 1 .. j - 1 /\ i - 1 \in 1 .. Len(q) - 1 /\ (i - 1) + 1 = i BY <1>1, <3>3
      <4>2. Tail(q)[i - 1] = q[i] BY <1>1, <4>1
      <4> QED BY <2>1, <3>1, <4>1, <4>2
    <3> QED BY <3>2, <3>3
  <2> QED BY <1>3, <2>1, <2>2, <2>3 DEF AcceptAhead
<1> QED BY <1>1, <1>2, <1>3 DEF AcceptAhead

LEMMA AnnouncedStep ==
  ASSUME GatewayInvariant, [Next]_vars
  PROVE  ClientsAnnounced'
<1> USE DEF GatewayInvariant
<1>0. /\ Types /\ main # socket /\ Kernel \subseteq Threads /\ Closers \subseteq Threads
      /\ main \in Kernel /\ socket \in Kernel /\ main \notin Closers /\ socket \notin Closers
  BY Names DEF SocketInvariant
<1>a. ASSUME Posted \subseteq Posted' PROVE \A f \in Fds : AcceptPosted(f) => AcceptPosted(f)'
  BY <1>a DEF AcceptPosted
<1>b. ASSUME Posted' = Posted, AcceptAhead(Started, Queue)',
             \A f \in Fds : connection_map'[f] = "CLIENT" =>
               \/ /\ connection_map[f] = "CLIENT"
                  /\ pc[socket] \in {"add_event", "announce"} /\ fd[socket] = f =>
                       pc'[socket] \in {"add_event", "announce"} /\ fd'[socket] = f
               \/ pc'[socket] \in {"add_event", "announce"} /\ fd'[socket] = f
      PROVE  ClientsAnnounced'
  BY <1>a, <1>b DEF ClientsAnnounced
<1>c. ASSUME Posted' = Posted, AcceptAhead(Started, Queue)',
             UNCHANGED <<connection_map, fd[socket], pc[socket]>>
      PROVE  ClientsAnnounced'
  BY <1>b, <1>c
<1>1. CASE KernelStep
  <2>1. Posted' = Posted /\ AcceptAhead(Started, Queue)'
    <3>1. Posted' = Posted /\ Started' = Started /\ Queue' = Queue
      BY <1>0, <1>1, KernelQuiet, QuietMail DEF KernelStep
    <3> QED BY <3>1 DEF ClientsAnnounced, AcceptAhead
  <2>2. CASE \E c \in Clients : Connect(c) \/ SendData(c) \/ CloseEnd(c)
    BY <1>0, <1>c, <2>1, <2>2, ClientsOutside DEF Outside
  <2>3. ASSUME NEW t \in Kernel, AddConnection(t) PROVE ClientsAnnounced'
    <3>1. /\ pc[t] = "add_connection" /\ pc' = [pc EXCEPT ![t] = "add_event"] /\ fd' = fd
          /\ connection_map' = [connection_map EXCEPT ![fd[t]] = IF @ # "none" THEN @ ELSE ConnectionType(t)]
      BY <2>3 DEF AddConnection, Goto
    <3>2. CASE t = main BY <1>0, <1>b, <2>1, <3>1, <3>2 DEF Types, ConnectionType
    <3>3. CASE t = socket BY <1>0, <1>b, <2>1, <3>1, <3>3 DEF Types, ConnectionType
    <3> QED BY <3>2, <3>3 DEF Kernel
  <2>4. ASSUME NEW t \in Kernel, AddEvent(t) PROVE ClientsAnnounced'
    <3>1. /\ pc[t] = "add_event" /\ pc' = [pc EXCEPT ![t] = AfterAddEvent(t)]
          /\ fd' = fd /\ connection_map' = connection_map
      BY <2>4 DEF AddEvent, Goto
    <3> QED BY <1>0, <1>b, <2>1, <3>1 DEF Types, AfterAddEvent, Kernel
  <2>5. CASE Listen
    <3>1. UNCHANGED <<connection_map, fd[socket], pc[socket]>>
      BY <1>0, <2>5 DEF Listen, Goto, Types
    <3> QED BY <1>c, <2>1, <3>1
  <2>6. CASE WaitForEvents
    <3>1. pc[socket] = "wait" /\ UNCHANGED <<fd, connection_map>> BY <2>6 DEF WaitForEvents
    <3> QED BY <1>b, <2>1, <3>1
  <2>7. CASE Accept
    <3>1. pc[socket] = "accept" /\ connection_map' = connection_map BY <2>7 DEF Accept
    <3> QED BY <1>b, <2>1, <3>1
  <2>8. ASSUME NEW k \in Closers, RemoveConnection(k) PROVE ClientsAnnounced'
    <3>1. PICK f \in Fds : /\ connection_map' = [connection_map EXCEPT ![f] = "none"]
                           /\ fd' = [fd EXCEPT ![k] = f]
                           /\ \E to \in Labels : pc' = [pc EXCEPT ![k] = to]
      BY <2>8 DEF RemoveConnection, Erased, Goto, Labels
    <3> QED BY <1>0, <1>b, <2>1, <3>1 DEF Types
  <2>9. ASSUME NEW k \in Closers, Close(k) \/ RemoveEvent(k) PROVE ClientsAnnounced'
    <3>1. UNCHANGED <<connection_map, fd, pc[socket]>>
      BY <1>0, <2>9 DEF Close, RemoveEvent, Goto, Types
    <3> QED BY <1>c, <2>1, <3>1
  <2>10. CASE ModifyEvent \/ UNCHANGED vars
    <3>1. UNCHANGED <<connection_map, fd, pc[socket]>> BY <2>10 DEF ModifyEvent, vars
    <3> QED BY <1>c, <2>1, <3>1
  <2> QED BY <1>1, <2>2, <2>3, <2>4, <2>5, <2>6, <2>7, <2>8, <2>9, <2>10 DEF KernelStep
<1>2. CASE OnEvent
  <2>1. PICK e \in batch :
           /\ connection_map' = connection_map /\ handling' = handling
           /\ \A h \in Handlers : pc'[h] = pc[h]
           /\ pc[socket] = "event"
           /\ IF connection_map[e.fd] = "CLIENT"
                THEN Post("SOCKET_RW", e.fd, e.can_read, e.can_write)
                ELSE Quiet
    BY <1>0, <1>2, EventMail
  <2>2. e.fd \in Fds /\ e.can_read \in BOOLEAN /\ e.can_write \in BOOLEAN BY DEF MailTypes
  <2>3. CASE connection_map[e.fd] # "CLIENT"
    <3>1. Posted' = Posted /\ Started' = Started /\ Queue' = Queue BY <2>1, <2>3, QuietMail
    <3>2. AcceptAhead(Started, Queue)' BY <3>1 DEF ClientsAnnounced, AcceptAhead
    <3> QED BY <1>b, <2>1, <3>1, <3>2
  <2>4. CASE connection_map[e.fd] = "CLIENT"
    <3>1. PICK m \in SocketMessages :
            /\ m.fd = e.fd /\ Posted' = Posted \cup {m} /\ Started' = Started
            /\ Queue \in Seq(SocketMessages) /\ Queue' = Append(Queue, m)
      BY <2>1, <2>2, <2>4, PostMail
    <3>2. AcceptPosted(m.fd) BY <2>1, <2>2, <2>4, <3>1 DEF ClientsAnnounced
    <3>3. PICK n \in Started \cup Elements(Queue) : IsAccept(n, m.fd)
      BY <3>2, PostedParts DEF AcceptPosted
    <3>4. AcceptAhead(Started, Append(Queue, m))
      BY <3>1, <3>3, AheadAppend DEF ClientsAnnounced
    <3>5. \A f \in Fds : connection_map'[f] = "CLIENT" => AcceptPosted(f)'
      BY <1>a, <2>1, <3>1 DEF ClientsAnnounced
    <3> QED BY <3>1, <3>4, <3>5 DEF ClientsAnnounced, AcceptAhead
  <2> QED BY <2>3, <2>4
<1>3. CASE Announce
  <2> PICK no \in BOOLEAN : no = FALSE OBVIOUS
  <2>1. /\ Post("SOCKET_ACCEPT", fd[socket], no, no) /\ UNCHANGED <<connection_map, fd, handling>>
        /\ \A h \in Handlers : pc'[h] = pc[h]
    BY <1>0, <1>3, AnnounceMail
  <2>2. fd[socket] \in Fds \cup {Failed} BY <1>0 DEF Types, Kernel, Threads
  <2>3. PICK m \in SocketMessages :
          /\ m.type = "SOCKET_ACCEPT" /\ m.fd = fd[socket] /\ Posted' = Posted \cup {m}
          /\ Started' = Started /\ Queue \in Seq(SocketMessages) /\ Queue' = Append(Queue, m)
    BY <2>1, <2>2, PostMail
  <2>4. AcceptAhead(Started, Append(Queue, m)) BY <2>3, AheadAppend DEF ClientsAnnounced
  <2>5. \A f \in Fds : connection_map'[f] = "CLIENT" => AcceptPosted(f)'
    BY <1>a, <2>1, <2>3 DEF ClientsAnnounced, AcceptPosted, IsAccept
  <2> QED BY <2>3, <2>4, <2>5 DEF ClientsAnnounced, AcceptAhead
<1>4. ASSUME NEW h \in Handlers,
             StartHandler(h) \/ ReadOnce(h) \/ Write(h) \/ FinishHandler(h)
      PROVE  ClientsAnnounced'
  <2>1. Posted' = Posted BY <1>0, <1>4, StartMail, HandlerMail, FinishMail
  <2>2. UNCHANGED <<connection_map, fd, pc[socket]>> BY <1>0, <1>4, HandlersOutside DEF Outside
  <2>3. CASE StartHandler(h)
    <3>1. /\ Queue \in Seq(SocketMessages) /\ Queue # <<>> /\ Queue' = Tail(Queue)
          /\ Started' = Started \cup {Head(Queue)}
      BY <1>0, <2>3, StartMail
    <3>2. AcceptAhead(Started \cup {Head(Queue)}, Tail(Queue))
      BY <3>1, AheadTail DEF ClientsAnnounced
    <3>3. AcceptAhead(Started, Queue)' BY <3>1, <3>2 DEF AcceptAhead
    <3> QED BY <1>c, <2>1, <2>2, <3>3
  <2>4. CASE ReadOnce(h) \/ Write(h) \/ FinishHandler(h)
    <3>1. Started' = Started /\ Queue' = Queue BY <1>0, <2>4, HandlerMail, FinishMail
    <3>2. AcceptAhead(Started, Queue)' BY <3>1 DEF ClientsAnnounced, AcceptAhead
    <3> QED BY <1>c, <2>1, <2>2, <3>2
  <2> QED BY <1>4, <2>3, <2>4
<1> QED BY <1>1, <1>2, <1>3, <1>4, Steps

LEMMA WatchedStep ==
  ASSUME GatewayInvariant, [Next]_vars
  PROVE  ConnectedIsWatched'
<1> USE DEF GatewayInvariant
<1>0. /\ Types /\ main # socket /\ Kernel \subseteq Threads /\ Closers \subseteq Threads
      /\ main \in Kernel /\ socket \in Kernel /\ main \notin Closers /\ socket \notin Closers
  BY Names DEF SocketInvariant
<1>a. ASSUME Outside PROVE ConnectedIsWatched'
  BY <1>0, <1>a DEF ConnectedIsWatched, Outside
<1>1. CASE \E c \in Clients : Connect(c) \/ SendData(c) \/ CloseEnd(c)
  BY <1>0, <1>1, <1>a, ClientsOutside
<1>2. CASE \E h \in Handlers : StartHandler(h) \/ ReadOnce(h) \/ Write(h) \/ FinishHandler(h)
  BY <1>0, <1>2, <1>a, HandlersOutside
<1>3. ASSUME NEW t \in Kernel, AddConnection(t) PROVE ConnectedIsWatched'
  <2>1. /\ pc[t] = "add_connection" /\ pc' = [pc EXCEPT ![t] = "add_event"]
        /\ UNCHANGED <<fd, file, interest, batch, closed>>
        /\ connection_map' = [connection_map EXCEPT ![fd[t]] = IF @ # "none" THEN @ ELSE ConnectionType(t)]
    BY <1>3 DEF AddConnection, Goto, kernel, epoll, calls
  <2>2. CASE t = main
    BY <1>0, <2>1, <2>2 DEF Types, ConnectionType, ConnectedIsWatched, SocketInvariant, OpenInvariant
  <2>3. CASE t = socket
    BY <1>0, <2>1, <2>3 DEF Types, ConnectionType, ConnectedIsWatched, SocketInvariant, OpenInvariant
  <2> QED BY <2>2, <2>3 DEF Kernel
<1>4. ASSUME NEW t \in Kernel, AddEvent(t) PROVE ConnectedIsWatched'
  <2>1. /\ pc[t] = "add_event" /\ pc' = [pc EXCEPT ![t] = AfterAddEvent(t)]
        /\ UNCHANGED <<fd, file, batch, closed, connection_map>> /\ Watch(fd[t])
    BY <1>4 DEF AddEvent, Goto, kernel, calls
  <2>2. \/ interest' = interest /\ ~(fd[t] \in Fds /\ file[fd[t]] # nobody /\ interest[fd[t]] = "none")
        \/ /\ fd[t] \in Fds /\ file[fd[t]] # nobody
           /\ interest' = [interest EXCEPT ![fd[t]] = "in"]
    BY <2>1 DEF Watch, EpollAdd, epoll
  <2>3. \A f \in Fds \ closed : connection_map[f] = "CLIENT" => file[f] \in Clients /\ file[f] # nobody /\ file[f] # listener
    BY <1>0, Names DEF SocketInvariant, OpenInvariant, ConnectionIsOpen, Types
  <2>4. CASE t = main
    <3>1. fd[main] \in Fds /\ (fd[main] \notin closed => file[fd[main]] = listener)
      BY <1>0, <2>1, <2>4 DEF ConnectedIsWatched, SocketInvariant, OpenInvariant, ConnectionIsOpen, Types
    <3>2. pc[socket] \in {"add_connection", "add_event"} /\ fd[socket] \in Fds \ closed =>
            file[fd[socket]] \in Clients
      BY <1>0, <2>3 DEF ConnectedIsWatched, SocketInvariant, OpenInvariant, Types
    <3>3. pc[socket] \in {"add_connection", "add_event"} /\ fd[socket] \in Fds \ closed =>
            fd[socket] # fd[main]
      BY <3>1, <3>2, Names
    <3> QED BY <1>0, <2>1, <2>2, <2>4, <3>3 DEF Types, AfterAddEvent, ConnectedIsWatched
  <2>5. CASE t = socket
    BY <1>0, <2>1, <2>2, <2>3, <2>5 DEF Types, AfterAddEvent, ConnectedIsWatched
  <2> QED BY <2>4, <2>5 DEF Kernel
<1>5. CASE Listen
  <2>1. UNCHANGED <<interest, connection_map, batch, closed>> /\ pc[main] = "start"
    BY <1>5 DEF Listen, epoll, calls
  <2>2. /\ pc'[main] \in {"add_connection", "returned"} /\ pc'[socket] = pc[socket] /\ fd'[socket] = fd[socket]
        /\ pc'[main] = "add_connection" => fd'[main] \in Fds
    BY <1>0, <1>5 DEF Listen, Goto, Types
  <2>3. \A f \in Fds : file'[f] = nobody => file[f] = nobody
    BY <1>5 DEF SocketInvariant, OpenInvariant, Listen
  <2> QED BY <2>1, <2>2, <2>3 DEF ConnectedIsWatched
<1>6. CASE WaitForEvents
  <2>1. /\ pc[socket] = "wait" /\ UNCHANGED <<file, interest, connection_map, closed, fd>>
        /\ pc'[main] = pc[main]
        /\ IF batch' = {} THEN pc'[socket] = "wait" ELSE pc'[socket] = "event"
    BY <1>0, <1>6 DEF WaitForEvents, Continue, Goto, Types, kernel, calls
  <2> QED BY <2>1 DEF ConnectedIsWatched
<1>7. CASE OnEvent
  <2>1. /\ UNCHANGED <<file, interest, connection_map, closed>>
        /\ pc[socket] = "event" /\ pc'[main] = pc[main] /\ fd'[main] = fd[main]
        /\ pc'[socket] \in {"wait", "event", "accept"}
        /\ pc'[socket] = "wait" => batch' = {}
    BY <1>0, <1>7, EventMail DEF kernel, epoll
  <2> QED BY <2>1 DEF ConnectedIsWatched
<1>8. CASE Accept
  <2>1. /\ UNCHANGED <<interest, connection_map, closed>> /\ pc'[main] = pc[main] /\ fd'[main] = fd[main]
        /\ pc[socket] = "accept" /\ pc'[socket] = "add_connection"
        /\ \/ fd'[socket] = Failed /\ file' = file
           \/ \E f \in Fds, c \in Clients : fd'[socket] = f /\ file[f] = nobody /\ file' = [file EXCEPT ![f] = c]
    <3>1. backlog # <<>> => Head(backlog) \in Clients
      <4>1. backlog \in Seq(Clients) BY <1>0 DEF Types
      <4> QED BY <4>1
    <3> QED BY <1>0, <1>8, <3>1 DEF Accept, LowestFree, FreeFds, Goto, Types, epoll, calls
  <2>2. \A f \in Fds : file'[f] = nobody => file[f] = nobody BY <1>0, <2>1, Names DEF Types
  <2>3. \A f \in Fds : fd'[socket] = f => interest[f] = "none"
    BY <2>1, Names DEF ConnectedIsWatched
  <2> QED BY <2>1, <2>2, <2>3 DEF ConnectedIsWatched
<1>9. CASE Announce
  <2>1. /\ UNCHANGED <<file, interest, connection_map, closed, fd, batch>>
        /\ pc[socket] = "announce" /\ pc'[main] = pc[main]
        /\ pc'[socket] \in {"wait", "event"}
        /\ pc'[socket] = "wait" => batch = {}
    BY <1>0, <1>9, AnnounceMail DEF kernel, epoll
  <2> QED BY <2>1 DEF ConnectedIsWatched
<1>10. ASSUME NEW k \in Closers, RemoveConnection(k) PROVE ConnectedIsWatched'
  <2>1. PICK f \in Fds : /\ connection_map' = [connection_map EXCEPT ![f] = "none"]
                         /\ fd' = [fd EXCEPT ![k] = f] /\ closed' = closed \cup {f}
                         /\ \E to \in Labels : pc' = [pc EXCEPT ![k] = to]
                         /\ UNCHANGED <<file, interest, batch>>
    BY <1>10 DEF RemoveConnection, Erased, Goto, kernel, epoll, Labels
  <2> QED BY <1>0, <2>1 DEF Types, ConnectedIsWatched
<1>11. ASSUME NEW k \in Closers, Close(k) PROVE ConnectedIsWatched'
  <2>1. /\ file' = [file EXCEPT ![fd[k]] = nobody] /\ interest' = [interest EXCEPT ![fd[k]] = "none"]
        /\ fd[k] \in closed /\ \E to \in Labels : pc' = [pc EXCEPT ![k] = to]
        /\ UNCHANGED <<connection_map, closed, fd, batch>>
    BY <1>0, <1>11 DEF Close, EpollDelete, Goto, calls, Types, Labels
  <2> QED BY <1>0, <2>1 DEF Types, ConnectedIsWatched
<1>12. ASSUME NEW k \in Closers, RemoveEvent(k) PROVE ConnectedIsWatched'
  <2>1. /\ interest' = [interest EXCEPT ![fd[k]] = "none"]
        /\ fd[k] \in closed /\ pc' = [pc EXCEPT ![k] = "free"]
        /\ UNCHANGED <<file, connection_map, closed, fd, batch>>
    BY <1>0, <1>12 DEF RemoveEvent, EpollDelete, Goto, calls, kernel, Types
  <2> QED BY <1>0, <2>1 DEF Types, ConnectedIsWatched
<1>13. CASE ModifyEvent
  <2>1. UNCHANGED <<file, connection_map, closed, fd, batch, pc>> BY <1>13 DEF ModifyEvent, kernel
  <2>2. PICK f \in Fds, events \in {"in", "inout"} :
          interest' = interest \/ (interest[f] # "none" /\ interest' = [interest EXCEPT ![f] = events])
    BY <1>13 DEF ModifyEvent, EpollModify, epoll
  <2>3. \A g \in Fds : interest'[g] = "none" <=> interest[g] = "none" BY <1>0, <2>2 DEF Types
  <2> QED BY <2>1, <2>3 DEF ConnectedIsWatched
<1>14. CASE UNCHANGED vars
  <2>1. UNCHANGED <<file, interest, connection_map, closed, fd, batch, pc>>
    BY <1>14 DEF vars, kernel, epoll, calls
  <2> QED BY <2>1 DEF ConnectedIsWatched
<1> QED BY <1>1, <1>2, <1>3, <1>4, <1>5, <1>6, <1>7, <1>8, <1>9, <1>10, <1>11, <1>12, <1>13, <1>14, Steps
        DEF KernelStep

(* Steps that leave alone what the clients and the handlers have done.     *)
LEMMA ClientsUnchanged ==
  ASSUME \/ \E t \in Kernel : AddConnection(t) \/ AddEvent(t)
         \/ Listen \/ WaitForEvents \/ OnEvent \/ Accept \/ Announce
         \/ \E k \in Closers : RemoveConnection(k) \/ Close(k) \/ RemoveEvent(k)
         \/ ModifyEvent
         \/ \E h \in Handlers : StartHandler(h) \/ FinishHandler(h)
         \/ UNCHANGED vars
  PROVE  UNCHANGED <<joined, written, unread, eof, result, answered>>
<1> USE DEF kernel, gateway_vars
<1>1. CASE \E t \in Kernel : AddConnection(t) \/ AddEvent(t) BY <1>1 DEF AddConnection, AddEvent
<1>2. CASE Listen \/ WaitForEvents \/ OnEvent \/ Accept \/ Announce
  BY <1>2 DEF Listen, WaitForEvents, OnEvent, Accept, Announce
<1>3. CASE (\E k \in Closers : RemoveConnection(k) \/ Close(k) \/ RemoveEvent(k)) \/ ModifyEvent
  BY <1>3 DEF RemoveConnection, Close, RemoveEvent, ModifyEvent
<1>4. CASE \E h \in Handlers : StartHandler(h) \/ FinishHandler(h)
  BY <1>4 DEF StartHandler, FinishHandler
<1>5. CASE UNCHANGED vars BY <1>5 DEF vars
<1> QED BY <1>1, <1>2, <1>3, <1>4, <1>5

(* A turn of Read's loop: one chunk of the one peer, or none.              *)
LEMMA ReadTurn ==
  ASSUME MailTypes, ReadsDescriptors, ClientTypes, NEW h \in Handlers, ReadOnce(h)
  PROVE  /\ handling[h].fd \in Fds /\ pc[h] = "read"
         /\ UNCHANGED <<file, backlog, joined, written, eof, answered, handling, fd, connection_map, closed>>
         /\ unread' \in [Clients -> 0 .. MaxChunks]
         /\ \A c \in Clients : unread'[c] <= unread[c]
         /\ \A c \in Clients : file[handling[h].fd] # c => unread'[c] = unread[c]
         /\ IF HasData(h) THEN pc' = pc
                          ELSE pc' = [pc EXCEPT ![h] = "reply"] /\ UNCHANGED <<unread, result>>
         /\ \A k \in Handlers \ {h} : result'[k] = result[k]
         /\ \A c \in Clients : file[handling[h].fd] = c /\ HasData(h) =>
              /\ unread[c] > 0 /\ unread'[c] = unread[c] - 1
              /\ result'[h] = result[h] \cup {<<c, Taken(c) + 1>>}
<1>1. handling[h].fd \in Fds /\ pc[h] = "read" BY DEF ReadOnce, ReadsDescriptors
<1>2. UNCHANGED <<file, backlog, joined, written, eof, answered, handling, fd, connection_map, closed>>
  BY DEF ReadOnce, gateway_vars, calls
<1>3. \A c \in Clients : c \in Peers(h) <=> file[handling[h].fd] = c BY DEF Peers
<1>4. CASE HasData(h)
  <2>1. /\ unread' = [c \in Clients |-> unread[c] - (IF c \in Peers(h) THEN 1 ELSE 0)]
        /\ result' = [result EXCEPT ![h] = Received(h)]
        /\ pc' = pc
    BY <1>4 DEF ReadOnce, KeepReading
  <2>2. \A c \in Clients : c \in Peers(h) => unread[c] > 0 BY <1>3, <1>4 DEF HasData, Peers
  <2>3. \A c \in Clients : /\ unread'[c] \in 0 .. MaxChunks /\ unread'[c] <= unread[c]
                           /\ file[handling[h].fd] # c => unread'[c] = unread[c]
    BY <1>3, <2>1, <2>2, SocketAssumption DEF ClientTypes
  <2>4. \A k \in Handlers \ {h} : result'[k] = result[k] BY <2>1
  <2>5. ASSUME NEW c \in Clients, file[handling[h].fd] = c
        PROVE  /\ unread[c] > 0 /\ unread'[c] = unread[c] - 1
               /\ result'[h] = result[h] \cup {<<c, Taken(c) + 1>>}
    <3>1. Peers(h) = {c} BY <2>5 DEF Peers
    <3>2. Received(h) = result[h] \cup {<<c, Taken(c) + 1>>} BY <3>1 DEF Received, NextChunks, Taken
    <3>3. result'[h] = Received(h) BY <2>1 DEF ClientTypes
    <3> QED BY <2>1, <2>2, <3>1, <3>2, <3>3
  <2> QED BY <1>1, <1>2, <1>4, <2>1, <2>3, <2>4, <2>5
<1>5. CASE ~HasData(h)
  <2>1. pc' = [pc EXCEPT ![h] = "reply"] /\ UNCHANGED <<unread, result>> BY <1>5 DEF ReadOnce, Goto
  <2>2. \A c \in Clients : unread[c] <= unread[c] BY DEF ClientTypes
  <2> QED BY <1>1, <1>2, <1>5, <2>1, <2>2 DEF ClientTypes
<1> QED BY <1>4, <1>5

LEMMA ClientStep ==
  ASSUME GatewayInvariant, [Next]_vars
  PROVE  ClientTypes'
<1> USE DEF GatewayInvariant
<1>1. ASSUME NEW c \in Clients, Connect(c) PROVE ClientTypes'
  BY <1>1 DEF Connect, gateway_vars, ClientTypes
<1>2. ASSUME NEW c \in Clients, SendData(c) PROVE ClientTypes'
  <2>1. /\ written' = [written EXCEPT ![c] = @ + 1] /\ unread' = [unread EXCEPT ![c] = @ + 1]
        /\ written[c] < MaxChunks /\ UNCHANGED <<joined, eof, result, answered>>
    BY <1>2 DEF SendData, gateway_vars
  <2>2. /\ written[c] \in 0 .. MaxChunks /\ unread[c] \in 0 .. MaxChunks /\ unread[c] <= written[c]
        /\ MaxChunks \in Nat
    BY SocketAssumption DEF ClientTypes
  <2>3. written[c] + 1 \in 0 .. MaxChunks /\ unread[c] + 1 \in 0 .. MaxChunks
        /\ unread[c] + 1 <= written[c] + 1
    BY <2>1, <2>2
  <2> QED BY <2>1, <2>3 DEF ClientTypes
<1>3. ASSUME NEW c \in Clients, CloseEnd(c) PROVE ClientTypes'
  BY <1>3 DEF CloseEnd, gateway_vars, ClientTypes
<1>4. ASSUME NEW h \in Handlers, ReadOnce(h) PROVE ClientTypes'
  <2>1. /\ UNCHANGED <<joined, written, eof, answered>> /\ unread' \in [Clients -> 0 .. MaxChunks]
        /\ \A c \in Clients : unread'[c] <= unread[c]
    BY <1>4, ReadTurn
  <2>2. \A c \in Clients : unread'[c] <= written[c] BY <2>1 DEF ClientTypes
  <2>3. result' \in [Handlers -> SUBSET (Clients \X (1 .. MaxChunks))]
    <3>1. CASE ~HasData(h) BY <1>4, <3>1 DEF ReadOnce, ClientTypes
    <3>2. CASE HasData(h)
      <4>1. result' = [result EXCEPT ![h] = Received(h)] BY <1>4, <3>2 DEF ReadOnce
      <4>2. ASSUME NEW c \in Peers(h) PROVE <<c, Taken(c) + 1>> \in Clients \X (1 .. MaxChunks)
        <5>1. c \in Clients /\ unread[c] > 0 BY <3>2 DEF Peers, HasData
        <5>2. /\ written[c] \in 0 .. MaxChunks /\ unread[c] \in 0 .. MaxChunks
              /\ unread[c] <= written[c] /\ MaxChunks \in Nat
          BY <5>1, SocketAssumption DEF ClientTypes
        <5>3. Taken(c) + 1 \in 1 .. MaxChunks BY <5>1, <5>2 DEF Taken
        <5> QED BY <5>1, <5>3
      <4>3. NextChunks(h) \subseteq Clients \X (1 .. MaxChunks) BY <4>2 DEF NextChunks, Taken
      <4>4. Received(h) \in SUBSET (Clients \X (1 .. MaxChunks)) BY <4>3 DEF Received, ClientTypes
      <4> QED BY <4>1, <4>4 DEF ClientTypes
    <3> QED BY <3>1, <3>2
  <2> QED BY <2>1, <2>2, <2>3 DEF ClientTypes
<1>5. ASSUME NEW h \in Handlers, Write(h) PROVE ClientTypes'
  <2>1. /\ UNCHANGED <<joined, written, unread, eof>>
        /\ answered' \subseteq answered \cup result[h] /\ result' = [result EXCEPT ![h] = {}]
    BY <1>5 DEF Write, kernel
  <2> QED BY <2>1 DEF ClientTypes
<1>6. CASE UNCHANGED <<joined, written, unread, eof, result, answered>> BY <1>6 DEF ClientTypes
<1> QED BY <1>1, <1>2, <1>3, <1>4, <1>5, <1>6, ClientsUnchanged, Steps DEF KernelStep

LEMMA AcceptedStep ==
  ASSUME GatewayInvariant, [Next]_vars
  PROVE  AcceptedOnce'
<1> USE DEF GatewayInvariant
<1>0. Types BY DEF SocketInvariant
<1>a. backlog \in Seq(Clients) BY <1>0 DEF Types
<1>1. ASSUME NEW c \in Clients, Connect(c) PROVE AcceptedOnce'
  <2>1. /\ c \notin joined /\ joined' = joined \cup {c} /\ backlog' = Append(backlog, c)
        /\ UNCHANGED <<file, written, unread>>
    BY <1>1 DEF Connect
  <2>2. Distinct(backlog') /\ Backlog' = Backlog \cup {c}
    <3>1. Distinct(backlog) /\ c \notin Elements(backlog) BY <2>1 DEF AcceptedOnce, Backlog
    <3> QED BY <1>a, <2>1, <3>1, AppendDistinct DEF Backlog
  <2> QED BY <2>1, <2>2 DEF AcceptedOnce
<1>2. ASSUME NEW c \in Clients, SendData(c) PROVE AcceptedOnce'
  <2>1. /\ written' = [written EXCEPT ![c] = @ + 1] /\ unread' = [unread EXCEPT ![c] = @ + 1]
        /\ c \in joined /\ UNCHANGED <<file, backlog, joined>> /\ Backlog' = Backlog
    BY <1>2 DEF SendData, Backlog
  <2>2. \A d \in Clients : unread[d] = written[d] => unread'[d] = written'[d]
    BY <2>1 DEF ClientTypes
  <2> QED BY <2>1, <2>2 DEF AcceptedOnce
<1>3. ASSUME NEW h \in Handlers, ReadOnce(h) PROVE AcceptedOnce'
  <2>1. /\ UNCHANGED <<file, backlog, joined, written>> /\ Backlog' = Backlog
        /\ handling[h].fd \in Fds
        /\ \A c \in Clients : file[handling[h].fd] # c => unread'[c] = unread[c]
    BY <1>3, ReadTurn DEF Backlog
  <2> QED BY <2>1 DEF AcceptedOnce
<1>4. CASE Listen
  <2>1. PICK f \in Fds, x \in {listener, nobody, unbound} : file' = [file EXCEPT ![f] = x]
    BY <1>4 DEF Listen
  <2>2. UNCHANGED <<backlog, joined, written, unread>> /\ Backlog' = Backlog
    BY <1>4 DEF Listen, Backlog
  <2>3. \A g \in Fds : file'[g] \in Clients => file'[g] = file[g]
    BY <1>0, <2>1, Names DEF Types
  <2> QED BY <2>2, <2>3 DEF AcceptedOnce
<1>5. CASE Accept
  <2>1. CASE UNCHANGED <<file, backlog>>
    <3>1. UNCHANGED <<joined, written, unread>> /\ Backlog' = Backlog BY <1>5, <2>1 DEF Accept, Backlog
    <3> QED BY <2>1, <3>1 DEF AcceptedOnce
  <2>2. CASE ~UNCHANGED <<file, backlog>>
    <3>1. PICK f \in Fds, c \in {Head(backlog)} :
            /\ file' = [file EXCEPT ![f] = c]
            /\ backlog # <<>> /\ backlog' = Tail(backlog)
            /\ UNCHANGED <<joined, written, unread>>
      BY <1>5, <2>2 DEF Accept
    <3>2. Distinct(backlog') /\ c \in Backlog /\ Backlog' = Backlog \ {c}
      <4>1. Distinct(backlog) BY DEF AcceptedOnce
      <4> QED BY <1>a, <3>1, <4>1, TailDistinct DEF Backlog
    <3>3. file'[f] = c /\ \A g \in Fds \ {f} : file'[g] = file[g] BY <1>0, <3>1 DEF Types
    <3>4. c \in joined /\ \A g \in Fds : file[g] \in Clients => file[g] # c
      BY <3>2 DEF AcceptedOnce
    <3>5. \A g \in Fds : file'[g] \in Clients => file'[g] \in joined /\ file'[g] \notin Backlog'
      BY <3>2, <3>3, <3>4 DEF AcceptedOnce
    <3>6. ASSUME NEW g \in Fds, NEW k \in Fds, file'[g] \in Clients, file'[g] = file'[k] PROVE g = k
      BY <3>3, <3>4, <3>6 DEF AcceptedOnce
    <3> QED BY <3>1, <3>2, <3>5, <3>6 DEF AcceptedOnce
  <2> QED BY <2>1, <2>2
<1>6. ASSUME NEW k \in Closers, Close(k) PROVE AcceptedOnce'
  <2>1. /\ file' = [file EXCEPT ![fd[k]] = nobody] /\ backlog' \in {<<>>, backlog}
        /\ UNCHANGED <<joined, written, unread>>
    BY <1>6 DEF Close
  <2>2. Distinct(backlog') /\ Backlog' \subseteq Backlog
    <3>1. CASE backlog' = <<>> BY <3>1 DEF Distinct, Backlog, Elements
    <3>2. CASE backlog' = backlog BY <3>2 DEF AcceptedOnce, Backlog
    <3> QED BY <2>1, <3>1, <3>2
  <2>3. \A g \in Fds : file'[g] \in Clients => file'[g] = file[g]
    BY <1>0, <2>1, Names DEF Types
  <2> QED BY <2>1, <2>2, <2>3 DEF AcceptedOnce
<1>7. CASE UNCHANGED <<file, backlog, joined, written, unread>>
  <2>1. Backlog' = Backlog BY <1>7 DEF Backlog
  <2> QED BY <1>7, <2>1 DEF AcceptedOnce
<1>8. \/ \E c \in Clients : Connect(c) \/ SendData(c)
      \/ \E h \in Handlers : ReadOnce(h)
      \/ Listen \/ Accept \/ \E k \in Closers : Close(k)
      \/ UNCHANGED <<file, backlog, joined, written, unread>>
  <2> USE DEF kernel
  <2>1. CASE \E c \in Clients : CloseEnd(c) BY <2>1 DEF CloseEnd
  <2>2. CASE \E t \in Kernel : AddConnection(t) \/ AddEvent(t) BY <2>2 DEF AddConnection, AddEvent
  <2>3. CASE WaitForEvents \/ OnEvent \/ Announce BY <2>3 DEF WaitForEvents, OnEvent, Announce
  <2>4. CASE (\E k \in Closers : RemoveConnection(k) \/ RemoveEvent(k)) \/ ModifyEvent
    BY <2>4 DEF RemoveConnection, RemoveEvent, ModifyEvent
  <2>5. CASE \E h \in Handlers : StartHandler(h) \/ Write(h) \/ FinishHandler(h)
    BY <2>5 DEF StartHandler, Write, FinishHandler
  <2>6. CASE UNCHANGED vars BY <2>6 DEF vars
  <2> QED BY <2>1, <2>2, <2>3, <2>4, <2>5, <2>6, Steps DEF KernelStep
<1> QED BY <1>1, <1>2, <1>3, <1>4, <1>5, <1>6, <1>7, <1>8

------------------------------------------------------------------------------
(* Data in a socket: where the announcement of it is.                      *)
Awaited(f) ==
  \/ f \in ready
  \/ \E e \in batch : e.fd = f /\ e.can_read
  \/ \E m \in Elements(Queue) : m.fd = f /\ m.can_read
  \/ \E h \in Handlers : pc[h] = "read" /\ handling[h].fd = f
  \/ pc[socket] = "add_event" /\ fd[socket] = f

Unread(f, c) == connection_map[f] = "CLIENT" /\ file[f] = c /\ unread[c] > 0

LEMMA AwaitedIsAnnounced ==
  /\ UnreadIsAnnounced <=> \A f \in Fds \ closed, c \in Clients : Unread(f, c) => Awaited(f)
  /\ UnreadIsAnnounced' <=> \A f \in Fds \ closed', c \in Clients : Unread(f, c)' => Awaited(f)'
<1>1. ASSUME NEW f
      PROVE  (\E n \in 1 .. Len(mailbox[gateway]) : mailbox[gateway][n].fd = f /\ mailbox[gateway][n].can_read)
               <=> \E m \in Elements(Queue) : m.fd = f /\ m.can_read
  BY DEF Elements, Queue
<1>2. ASSUME NEW f
      PROVE  (\E n \in 1 .. Len(mailbox'[gateway]) : mailbox'[gateway][n].fd = f /\ mailbox'[gateway][n].can_read)
               <=> \E m \in Elements(Queue') : m.fd = f /\ m.can_read
  BY DEF Elements, Queue
<1>3. ASSUME NEW f PROVE Awaited(f) <=> ReadAnnounced(f) \/ (pc[socket] = "add_event" /\ fd[socket] = f)
  BY <1>1 DEF Awaited, ReadAnnounced
<1>4. ASSUME NEW f
      PROVE  Awaited(f)' <=> ReadAnnounced(f)' \/ (pc'[socket] = "add_event" /\ fd'[socket] = f)
  BY <1>2 DEF Awaited, ReadAnnounced
<1>5. UnreadIsAnnounced <=> \A f \in Fds \ closed, c \in Clients : Unread(f, c) => Awaited(f)
  BY <1>3 DEF UnreadIsAnnounced, Unread
<1>6. UnreadIsAnnounced' <=> \A f \in Fds \ closed', c \in Clients : Unread(f, c)' => Awaited(f)'
  BY <1>4 DEF UnreadIsAnnounced, Unread
<1> QED BY <1>5, <1>6

(* A kernel step that loses no announcement of f.                          *)
LEMMA KernelAwaited ==
  ASSUME GatewayInvariant, KernelStep, NEW f, Awaited(f),
         f \in ready => Awaited(f)',
         batch' = batch \/ batch = {},
         pc[socket] = "add_event" /\ fd[socket] = f => Awaited(f)'
  PROVE  Awaited(f)'
<1>1. Quiet BY KernelQuiet DEF KernelStep, GatewayInvariant, SocketInvariant
<1>2. Queue' = Queue BY <1>1, QuietMail DEF GatewayInvariant
<1> QED BY <1>1, <1>2 DEF Awaited, Quiet

LEMMA ClientsAwaited ==
  ASSUME GatewayInvariant, NEW f \in Fds \ closed', NEW c \in Clients, Unread(f, c)',
         NEW d \in Clients, Connect(d) \/ SendData(d) \/ CloseEnd(d)
  PROVE  Awaited(f)'
<1> USE DEF GatewayInvariant
<1>0. Types /\ KernelStep BY DEF SocketInvariant, KernelStep
<1>1. Outside BY <1>0, ClientsOutside
<1>2. batch' = batch /\ fd' = fd /\ pc'[socket] = pc[socket] /\ closed' = closed
  BY <1>1, Names DEF Outside
<1>3. ready \subseteq ready' BY DEF Connect, SendData, CloseEnd, Edge
<1>4. ASSUME Awaited(f) PROVE Awaited(f)'
  BY <1>0, <1>2, <1>3, <1>4, KernelAwaited DEF Awaited
<1>5. CASE unread' = unread
  <2>1. Unread(f, c) BY <1>1, <1>5 DEF Unread, Outside
  <2> QED BY <1>2, <1>4, <2>1, AwaitedIsAnnounced
<1>6. CASE SendData(d)
  <2>1. CASE c = d
    <3>1. connection_map[f] = "CLIENT" /\ file[f] = c /\ file' = file
      BY <1>1 DEF Unread, Outside
    <3>2. CASE interest[f] # "none"
      <4>1. f \in ready' BY <1>6, <2>1, <3>1, <3>2 DEF SendData, Edge
      <4> QED BY <4>1 DEF Awaited
    <3>3. CASE fd[socket] = f /\ pc[socket] = "add_event"
      BY <1>2, <3>3 DEF Awaited
    <3> QED BY <1>2, <3>1, <3>2, <3>3 DEF ConnectedIsWatched
  <2>2. CASE c # d
    <3>1. unread'[c] = unread[c] BY <1>6, <2>2 DEF SendData, ClientTypes
    <3>2. Unread(f, c) BY <1>1, <3>1 DEF Unread, Outside
    <3> QED BY <1>2, <1>4, <3>2, AwaitedIsAnnounced
  <2> QED BY <2>1, <2>2
<1> QED BY <1>5, <1>6 DEF Connect, CloseEnd

LEMMA KernelAnnounced ==
  ASSUME GatewayInvariant, KernelStep,
         NEW f \in Fds \ closed', NEW c \in Clients, Unread(f, c)'
  PROVE  Awaited(f)'
<1> USE DEF GatewayInvariant
<1>0. /\ Types /\ main # socket /\ Kernel \subseteq Threads /\ Closers \subseteq Threads
      /\ main \in Kernel /\ socket \in Kernel /\ main \notin Closers /\ socket \notin Closers
  BY Names DEF SocketInvariant
<1>a. ASSUME f \notin closed, Unread(f, c) PROVE Awaited(f)
  BY <1>a, AwaitedIsAnnounced
<1>1. CASE \E d \in Clients : Connect(d) \/ SendData(d) \/ CloseEnd(d) BY <1>1, ClientsAwaited
<1>2. ASSUME NEW t \in Kernel, AddConnection(t) PROVE Awaited(f)'
  <2>1. /\ pc[t] = "add_connection" /\ pc' = [pc EXCEPT ![t] = "add_event"]
        /\ UNCHANGED <<fd, file, unread, ready, batch, closed>>
        /\ connection_map' = [connection_map EXCEPT ![fd[t]] = IF @ # "none" THEN @ ELSE ConnectionType(t)]
    BY <1>2 DEF AddConnection, Goto, kernel, epoll, calls
  <2>2. CASE connection_map[f] = "CLIENT"
    <3>1. Unread(f, c) /\ f \notin closed BY <2>1, <2>2 DEF Unread
    <3>2. pc[socket] = "add_event" => pc'[socket] = "add_event" BY <1>0, <2>1 DEF Types
    <3> QED BY <1>a, <2>1, <3>1, <3>2, KernelAwaited DEF Awaited
  <2>3. CASE connection_map[f] # "CLIENT"
    <3>1. f = fd[t] /\ t = socket
      BY <1>0, <2>1, <2>3 DEF Unread, Types, ConnectionType, Kernel
    <3>2. pc'[socket] = "add_event" /\ fd'[socket] = f BY <1>0, <2>1, <3>1 DEF Types
    <3> QED BY <3>2 DEF Awaited
  <2> QED BY <2>2, <2>3
<1>3. ASSUME NEW t \in Kernel, AddEvent(t) PROVE Awaited(f)'
  <2>1. /\ pc[t] = "add_event" /\ pc' = [pc EXCEPT ![t] = AfterAddEvent(t)] /\ EpollAdd(fd[t])
        /\ UNCHANGED <<fd, file, unread, connection_map, batch, closed>>
    BY <1>3 DEF AddEvent, Watch, Goto, kernel, calls
  <2>2. ready \subseteq ready' BY <2>1 DEF EpollAdd, epoll
  <2>3. Unread(f, c) /\ f \notin closed /\ Awaited(f) BY <1>a, <2>1 DEF Unread
  <2>4. CASE t = socket /\ fd[socket] = f
    <3>1. interest[f] = "none" BY <2>1, <2>3, <2>4 DEF ConnectedIsWatched
    <3>2. Readable(f) /\ file[f] # nobody BY <2>3, Names DEF Unread, Readable
    <3>3. f \in ready' BY <2>1, <2>4, <3>1, <3>2 DEF EpollAdd
    <3> QED BY <3>3 DEF Awaited
  <2>5. CASE ~(t = socket /\ fd[socket] = f)
    <3>1. pc[socket] = "add_event" /\ fd[socket] = f => pc'[socket] = "add_event"
      BY <1>0, <2>1, <2>5 DEF Types
    <3> QED BY <2>1, <2>2, <2>3, <3>1, KernelAwaited DEF Awaited
  <2> QED BY <2>4, <2>5
<1>4. CASE Listen
  <2>1. /\ UNCHANGED <<unread, ready, connection_map, batch, closed>>
        /\ pc'[socket] = pc[socket] /\ fd'[socket] = fd[socket]
    BY <1>0, <1>4 DEF Listen, Goto, Types, epoll, calls
  <2>2. PICK g \in Fds, x \in {listener, nobody, unbound} : file' = [file EXCEPT ![g] = x]
    BY <1>4 DEF Listen
  <2>3. file[f] = c BY <1>0, <2>2, Names DEF Unread, Types
  <2>4. Awaited(f) BY <1>a, <2>1, <2>3 DEF Unread
  <2> QED BY <2>1, <2>4, KernelAwaited DEF Awaited
<1>5. CASE WaitForEvents
  <2>1. /\ pc[socket] = "wait" /\ UNCHANGED <<file, unread, connection_map, closed>> /\ batch = {}
    BY <1>5 DEF WaitForEvents, kernel, calls, ConnectedIsWatched
  <2>2. Unread(f, c) /\ Awaited(f) BY <1>a, <2>1 DEF Unread
  <2>3. ASSUME f \in ready PROVE Awaited(f)'
    <3>1. PICK e : e = [fd |-> f, can_read |-> Readable(f),
                        can_write |-> interest[f] = "inout" /\ file[f] # listener]
      OBVIOUS
    <3>2. Readable(f) BY <2>2 DEF Unread, Readable
    <3>3. e.fd = f /\ e.can_read BY <3>1, <3>2
    <3>4. e \in batch' BY <1>5, <2>3, <3>1, <3>3 DEF WaitForEvents
    <3> QED BY <3>3, <3>4 DEF Awaited
  <2> QED BY <2>1, <2>2, <2>3, KernelAwaited
<1>6. CASE Accept
  <2>1. /\ pc[socket] = "accept" /\ UNCHANGED <<unread, connection_map, closed, batch, ready>>
        /\ file' = file \/ \E g \in Fds : \E d : file[g] = nobody /\ file' = [file EXCEPT ![g] = d]
    BY <1>6 DEF Accept, LowestFree, FreeFds, epoll, calls
  <2>2. file[f] \in Clients
    BY <1>0, <2>1 DEF Unread, SocketInvariant, OpenInvariant, ConnectionIsOpen, Types
  <2>3. file[f] = c BY <1>0, <2>1, <2>2, Names DEF Unread, Types
  <2>4. Awaited(f) BY <1>a, <2>1, <2>3 DEF Unread
  <2> QED BY <2>1, <2>4, KernelAwaited DEF Awaited
<1>7. ASSUME NEW k \in Closers, RemoveConnection(k) PROVE Awaited(f)'
  <2>1. PICK g \in Fds : /\ connection_map' = [connection_map EXCEPT ![g] = "none"]
                         /\ fd' = [fd EXCEPT ![k] = g] /\ closed' = closed \cup {g}
                         /\ \E to \in Labels : pc' = [pc EXCEPT ![k] = to]
                         /\ UNCHANGED <<file, unread, batch, ready>>
    BY <1>7 DEF RemoveConnection, Erased, Goto, kernel, epoll, Labels
  <2>2. Awaited(f) BY <1>0, <1>a, <2>1 DEF Unread, Types
  <2>3. pc'[socket] = pc[socket] /\ fd'[socket] = fd[socket] BY <1>0, <2>1 DEF Types
  <2> QED BY <2>1, <2>2, <2>3, KernelAwaited DEF Awaited
<1>8. ASSUME NEW k \in Closers, Close(k) \/ RemoveEvent(k) PROVE Awaited(f)'
  <2>1. /\ UNCHANGED <<unread, connection_map, closed, batch, fd>>
        /\ ready' = ready \ {fd[k]} /\ pc'[socket] = pc[socket]
        /\ file' = file \/ file' = [file EXCEPT ![fd[k]] = nobody]
        /\ fd[k] \in closed
    BY <1>0, <1>8 DEF Close, RemoveEvent, EpollDelete, Goto, kernel, calls, Types
  <2>2. f # fd[k] BY <2>1
  <2>3. Awaited(f) BY <1>0, <1>a, <2>1, <2>2 DEF Unread, Types
  <2> QED BY <2>1, <2>2, <2>3, KernelAwaited DEF Awaited
<1>9. CASE ModifyEvent
  <2>1. UNCHANGED <<file, unread, connection_map, closed, batch, fd, pc>>
    BY <1>9 DEF ModifyEvent, kernel
  <2>2. ready \subseteq ready' BY <1>9 DEF ModifyEvent, EpollModify, epoll
  <2>3. Awaited(f) BY <1>a, <2>1 DEF Unread
  <2> QED BY <2>1, <2>2, <2>3, KernelAwaited DEF Awaited
<1>10. CASE UNCHANGED vars
  <2>1. UNCHANGED <<file, unread, connection_map, closed, batch, fd, pc, ready>>
    BY <1>10 DEF vars, kernel, epoll, calls
  <2>2. Awaited(f) BY <1>a, <2>1 DEF Unread
  <2> QED BY <2>1, <2>2, KernelAwaited DEF Awaited
<1> QED BY <1>1, <1>2, <1>3, <1>4, <1>5, <1>6, <1>7, <1>8, <1>9, <1>10 DEF KernelStep

LEMMA UnreadStep ==
  ASSUME GatewayInvariant, [Next]_vars
  PROVE  UnreadIsAnnounced'
<1> USE DEF GatewayInvariant
<1> SUFFICES ASSUME NEW f \in Fds \ closed', NEW c \in Clients, Unread(f, c)'
             PROVE  Awaited(f)'
  BY AwaitedIsAnnounced
<1>0. Types BY DEF SocketInvariant
<1>a. ASSUME f \notin closed, Unread(f, c) PROVE Awaited(f)
  BY <1>a, AwaitedIsAnnounced
<1>1. CASE KernelStep BY <1>1, KernelAnnounced
<1>2. CASE OnEvent
  <2>1. PICK e \in batch :
           /\ batch' = batch \ {e}
           /\ UNCHANGED <<kernel, epoll, connection_map, closed, handling>>
           /\ \A h \in Handlers : pc'[h] = pc[h]
           /\ pc[socket] = "event"
           /\ IF connection_map[e.fd] = "CLIENT"
                THEN Post("SOCKET_RW", e.fd, e.can_read, e.can_write)
                ELSE Quiet
    BY <1>0, <1>2, EventMail
  <2>2. e.fd \in Fds /\ e.can_read \in BOOLEAN /\ e.can_write \in BOOLEAN BY DEF MailTypes
  <2>3. UNCHANGED <<file, unread, ready>> BY <2>1 DEF kernel, epoll
  <2>4. connection_map[f] = "CLIENT" /\ Awaited(f) BY <1>a, <2>1, <2>3 DEF Unread
  <2>5. CASE connection_map[e.fd] # "CLIENT"
    <3>1. Queue' = Queue BY <2>1, <2>5, QuietMail
    <3> QED BY <2>1, <2>3, <2>4, <2>5, <3>1 DEF Awaited
  <2>6. CASE connection_map[e.fd] = "CLIENT"
    <3>1. PICK m \in SocketMessages :
            m.fd = e.fd /\ m.can_read = e.can_read /\ Elements(Queue') = Elements(Queue) \cup {m}
      BY <2>1, <2>2, <2>6, PostMail
    <3> QED BY <2>1, <2>3, <2>4, <3>1 DEF Awaited
  <2> QED BY <2>5, <2>6
<1>3. CASE Announce
  <2> PICK no \in BOOLEAN : no = FALSE OBVIOUS
  <2>1. /\ Post("SOCKET_ACCEPT", fd[socket], no, no)
        /\ UNCHANGED <<kernel, epoll, connection_map, batch, closed, handling>>
        /\ \A h \in Handlers : pc'[h] = pc[h]
        /\ pc[socket] = "announce"
    BY <1>0, <1>3, AnnounceMail
  <2>2. fd[socket] \in Fds \cup {Failed} BY <1>0 DEF Types, Kernel, Threads
  <2>3. Elements(Queue) \subseteq Elements(Queue') BY <2>1, <2>2, PostMail
  <2>4. UNCHANGED <<file, unread, ready>> BY <2>1 DEF kernel, epoll
  <2>5. Awaited(f) BY <1>a, <2>1, <2>4 DEF Unread
  <2> QED BY <2>1, <2>3, <2>4, <2>5 DEF Awaited
<1>4. ASSUME NEW h \in Handlers, StartHandler(h) PROVE Awaited(f)'
  <2>1. PICK m \in Elements(Queue) :
          /\ handling' = [handling EXCEPT ![h] = m]
          /\ Elements(Queue') = Elements(Queue) \ {m}
          /\ \A k \in Handlers \ {h} : pc'[k] = pc[k]
          /\ pc'[socket] = pc[socket] /\ pc[h] = "idle"
          /\ m.can_read => pc'[h] = "read"
    BY <1>0, <1>4, StartMail
  <2>2. UNCHANGED <<file, unread, ready, batch, connection_map, closed, fd>>
    BY <1>4 DEF StartHandler, kernel, epoll, calls
  <2>3. Awaited(f) BY <1>a, <2>2 DEF Unread
  <2>4. handling'[h] = m /\ \A k \in Handlers \ {h} : handling'[k] = handling[k]
    BY <2>1 DEF MailTypes
  <2> QED BY <2>1, <2>2, <2>3, <2>4 DEF Awaited
<1>5. ASSUME NEW h \in Handlers, ReadOnce(h) PROVE Awaited(f)'
  <2>1. /\ UNCHANGED <<file, handling, fd, connection_map, closed>>
        /\ unread'[c] <= unread[c] /\ pc[h] = "read"
        /\ HasData(h) \/ unread' = unread
        /\ HasData(h) => pc' = pc
    BY <1>5, ReadTurn
  <2>2. /\ Queue' = Queue /\ \A k \in Handlers \ {h} : pc'[k] = pc[k]
        /\ pc'[socket] = pc[socket]
    BY <1>0, <1>5, HandlerMail
  <2>3. ready' = ready /\ batch' = batch BY <1>5 DEF ReadOnce, epoll
  <2>4. unread[c] > 0
    <3>1. unread'[c] > 0 BY DEF Unread
    <3>2. unread[c] \in Nat /\ unread'[c] \in Nat
      <4>1. ClientTypes' BY ClientStep
      <4> QED BY <4>1, SocketAssumption DEF ClientTypes
    <3> QED BY <2>1, <3>1, <3>2
  <2>5. Unread(f, c) BY <2>1, <2>4 DEF Unread
  <2>6. Awaited(f) BY <1>a, <2>1, <2>5
  <2>7. CASE HasData(h) BY <2>1, <2>2, <2>3, <2>6, <2>7 DEF Awaited
  <2>8. CASE ~HasData(h)
    <3>1. handling[h].fd # f BY <2>4, <2>5, <2>8 DEF HasData, Peers, Unread
    <3> QED BY <2>1, <2>2, <2>3, <2>6, <3>1 DEF Awaited
  <2> QED BY <2>7, <2>8
<1>6. ASSUME NEW h \in Handlers, Write(h) PROVE Awaited(f)'
  <2>1. /\ Queue' = Queue /\ handling' = handling /\ \A k \in Handlers \ {h} : pc'[k] = pc[k]
        /\ pc'[socket] = pc[socket]
    BY <1>0, <1>6, HandlerMail
  <2>2. UNCHANGED <<file, unread, ready, batch, connection_map, closed, fd>> /\ pc[h] # "read"
    BY <1>6 DEF Write, kernel, epoll, calls
  <2>3. Awaited(f) BY <1>a, <2>2 DEF Unread
  <2> QED BY <2>1, <2>2, <2>3 DEF Awaited
<1>7. ASSUME NEW h \in Handlers, FinishHandler(h) PROVE Awaited(f)'
  <2>1. /\ Queue' = Queue
        /\ \A k \in Handlers \ {h} : pc'[k] = pc[k] /\ handling'[k] = handling[k]
        /\ pc'[socket] = pc[socket] /\ pc[h] = "finish"
    BY <1>0, <1>7, FinishMail
  <2>2. UNCHANGED <<file, unread, ready, batch, connection_map, closed, fd>>
    BY <1>7 DEF FinishHandler, kernel, epoll, calls
  <2>3. Awaited(f) BY <1>a, <2>2 DEF Unread
  <2> QED BY <2>1, <2>2, <2>3 DEF Awaited
<1> QED BY <1>1, <1>2, <1>3, <1>4, <1>5, <1>6, <1>7, Steps

------------------------------------------------------------------------------
(* The chunks that have left the sockets.                                  *)

LEMMA TakenTypes ==
  ASSUME ClientTypes, NEW c \in Clients
  PROVE  Taken(c) \in 0 .. MaxChunks
<1>1. /\ written[c] \in 0 .. MaxChunks /\ unread[c] \in 0 .. MaxChunks
      /\ unread[c] <= written[c] /\ MaxChunks \in Nat
  BY SocketAssumption DEF ClientTypes
<1> QED BY <1>1 DEF Taken

(* A descriptor gets a client from the backlog only.                       *)
LEMMA ClientFiles ==
  ASSUME GatewayInvariant, [Next]_vars, NEW f \in Fds, NEW c \in Clients, file'[f] = c
  PROVE  file[f] = c \/ c \in Backlog
<1> USE DEF GatewayInvariant
<1>0. Types /\ backlog \in Seq(Clients) BY DEF SocketInvariant, Types
<1>1. CASE Accept
  <2>1. CASE file' = file BY <2>1
  <2>2. CASE file' # file
    <3>1. PICK g \in Fds : file' = [file EXCEPT ![g] = Head(backlog)] /\ backlog # <<>>
      BY <1>1, <2>2 DEF Accept
    <3>2. Head(backlog) \in Backlog BY <1>0, <3>1, HeadWaits DEF Backlog
    <3> QED BY <1>0, <3>1, <3>2 DEF Types
  <2> QED BY <2>1, <2>2
<1>2. CASE Listen
  <2>1. PICK g \in Fds, x \in {listener, nobody, unbound} : file' = [file EXCEPT ![g] = x]
    BY <1>2 DEF Listen
  <2> QED BY <1>0, <2>1, Names DEF Types
<1>3. ASSUME NEW k \in Closers, Close(k) PROVE file[f] = c
  <2>1. file' = [file EXCEPT ![fd[k]] = nobody] BY <1>3 DEF Close
  <2> QED BY <1>0, <2>1, Names DEF Types
<1>4. CASE file' = file BY <1>4
<1>5. Accept \/ Listen \/ (\E k \in Closers : Close(k)) \/ file' = file
  <2> USE DEF kernel
  <2>1. CASE \E d \in Clients : Connect(d) \/ SendData(d) \/ CloseEnd(d)
    BY <2>1 DEF Connect, SendData, CloseEnd
  <2>2. CASE \E t \in Kernel : AddConnection(t) \/ AddEvent(t) BY <2>2 DEF AddConnection, AddEvent
  <2>3. CASE WaitForEvents \/ OnEvent \/ Announce BY <2>3 DEF WaitForEvents, OnEvent, Announce
  <2>4. CASE (\E k \in Closers : RemoveConnection(k) \/ RemoveEvent(k)) \/ ModifyEvent
    BY <2>4 DEF RemoveConnection, RemoveEvent, ModifyEvent
  <2>5. CASE \E h \in Handlers : StartHandler(h) \/ ReadOnce(h) \/ Write(h) \/ FinishHandler(h)
    BY <2>5 DEF StartHandler, ReadOnce, Write, FinishHandler
  <2>6. CASE UNCHANGED vars BY <2>6 DEF vars
  <2> QED BY <2>1, <2>2, <2>3, <2>4, <2>5, <2>6, Steps DEF KernelStep
<1> QED BY <1>1, <1>2, <1>3, <1>4, <1>5

(* Data leaves a socket by a read only.                                    *)
LEMMA TakenStays ==
  ASSUME GatewayInvariant, NEW c \in Clients,
         \/ KernelStep \/ OnEvent \/ Announce
         \/ \E h \in Handlers : StartHandler(h) \/ Write(h) \/ FinishHandler(h)
  PROVE  Taken(c)' = Taken(c)
<1> USE DEF GatewayInvariant
<1>1. ASSUME NEW d \in Clients, SendData(d) PROVE Taken(c)' = Taken(c)
  <2>1. /\ written' = [written EXCEPT ![d] = @ + 1] /\ unread' = [unread EXCEPT ![d] = @ + 1]
    BY <1>1 DEF SendData
  <2>2. unread[c] \in Int /\ written[c] \in Int BY DEF ClientTypes
  <2> QED BY <2>1, <2>2 DEF Taken, ClientTypes
<1>2. CASE UNCHANGED <<written, unread>> BY <1>2 DEF Taken
<1>3. (\E d \in Clients : SendData(d)) \/ UNCHANGED <<written, unread>>
  <2>1. CASE \E d \in Clients : Connect(d) \/ CloseEnd(d) BY <2>1 DEF Connect, CloseEnd
  <2>2. CASE \E h \in Handlers : Write(h) BY <2>2 DEF Write, kernel
  <2> QED BY <2>1, <2>2, ClientsUnchanged DEF KernelStep
<1> QED BY <1>1, <1>2, <1>3

(* A client some of whose data has left its socket is not in the backlog.  *)
LEMMA TakenFrom ==
  ASSUME GatewayInvariant, [Next]_vars, NEW f \in Fds, NEW c \in Clients, file'[f] = c, Taken(c) > 0
  PROVE  file[f] = c
<1>1. c \in Backlog => Taken(c) = 0 BY DEF GatewayInvariant, AcceptedOnce, ClientTypes, Taken
<1> QED BY <1>1, ClientFiles

(* What the handlers hold stays theirs until they write.                   *)
LEMMA ResultsStep ==
  ASSUME GatewayInvariant, [Next]_vars
  PROVE  ResultsAreTaken'
<1> USE DEF GatewayInvariant
<1>0. Types BY DEF SocketInvariant
<1>a. ASSUME NEW h \in Handlers, NEW c \in Clients, NEW k \in 1 .. MaxChunks,
             <<c, k>> \in result[h], handling'[h] = handling[h]
      PROVE  /\ k <= Taken(c) /\ Taken(c) \in Nat
             /\ \A f \in Fds : file'[f] = c => handling'[h].fd = f
  <2>1. k <= Taken(c) /\ \A f \in Fds : file[f] = c => handling[h].fd = f
    BY <1>a DEF ResultsAreTaken
  <2>2. Taken(c) \in Nat /\ Taken(c) > 0 BY <2>1, TakenTypes, SocketAssumption
  <2> QED BY <1>a, <2>1, <2>2, TakenFrom
<1>b. ASSUME \A c \in Clients : Taken(c)' = Taken(c),
             \A h \in Handlers : result'[h] = {} \/
               (result'[h] = result[h] /\ handling'[h] = handling[h] /\ pc'[h] = pc[h])
      PROVE  ResultsAreTaken'
  <2>1. \A h \in Handlers : pc'[h] \notin {"read", "reply"} => result'[h] = {}
    BY <1>b DEF ResultsAreTaken
  <2>2. ASSUME NEW h \in Handlers, NEW c \in Clients, NEW k \in 1 .. MaxChunks, <<c, k>> \in result'[h]
        PROVE  k <= Taken(c)' /\ \A f \in Fds : file'[f] = c => handling'[h].fd = f
    <3>1. <<c, k>> \in result[h] /\ handling'[h] = handling[h] BY <1>b, <2>2
    <3>2. Taken(c)' = Taken(c) BY <1>b
    <3> QED BY <1>a, <3>1, <3>2
  <2> QED BY <2>1, <2>2 DEF ResultsAreTaken
<1>1. CASE KernelStep \/ OnEvent \/ Announce
  <2>1. UNCHANGED <<result, handling>> /\ \A h \in Handlers : pc'[h] = pc[h]
    BY <1>0, <1>1, KernelQuiet, EventMail, AnnounceMail DEF KernelStep, Quiet
  <2>2. \A c \in Clients : Taken(c)' = Taken(c) BY <1>1, TakenStays
  <2> QED BY <1>b, <2>1, <2>2
<1>2. ASSUME NEW h \in Handlers, StartHandler(h) PROVE ResultsAreTaken'
  <2>1. \A c \in Clients : Taken(c)' = Taken(c) BY <1>2, TakenStays
  <2>2. /\ pc[h] = "idle" /\ \A k \in Handlers \ {h} : pc'[k] = pc[k]
        /\ \E m : handling' = [handling EXCEPT ![h] = m]
    BY <1>0, <1>2, StartMail
  <2>3. result' = result BY <1>2 DEF StartHandler
  <2>4. result'[h] = {} BY <2>2, <2>3 DEF ResultsAreTaken
  <2>5. \A k \in Handlers \ {h} : handling'[k] = handling[k] BY <2>2 DEF MailTypes
  <2> QED BY <1>b, <2>1, <2>2, <2>3, <2>4, <2>5
<1>3. ASSUME NEW h \in Handlers, Write(h) PROVE ResultsAreTaken'
  <2>1. \A c \in Clients : Taken(c)' = Taken(c) BY <1>3, TakenStays
  <2>2. handling' = handling /\ \A k \in Handlers \ {h} : pc'[k] = pc[k]
    BY <1>0, <1>3, HandlerMail
  <2>3. result'[h] = {} /\ \A k \in Handlers \ {h} : result'[k] = result[k]
    BY <1>3 DEF Write, ClientTypes
  <2> QED BY <1>b, <2>1, <2>2, <2>3
<1>4. ASSUME NEW h \in Handlers, FinishHandler(h) PROVE ResultsAreTaken'
  <2>1. \A c \in Clients : Taken(c)' = Taken(c) BY <1>4, TakenStays
  <2>2. /\ pc[h] = "finish"
        /\ \A k \in Handlers \ {h} : pc'[k] = pc[k] /\ handling'[k] = handling[k]
    BY <1>0, <1>4, FinishMail
  <2>3. result' = result BY <1>4 DEF FinishHandler
  <2>4. result'[h] = {} BY <2>2, <2>3 DEF ResultsAreTaken
  <2> QED BY <1>b, <2>1, <2>2, <2>3, <2>4
<1>5. ASSUME NEW h \in Handlers, ReadOnce(h) PROVE ResultsAreTaken'
  <2>1. /\ handling' = handling /\ pc[h] = "read" /\ UNCHANGED <<file, written>>
        /\ \A k \in Handlers \ {h} : result'[k] = result[k]
        /\ handling[h].fd \in Fds
        /\ \A c \in Clients : unread'[c] <= unread[c]
    BY <1>5, ReadTurn
  <2>2. /\ \A k \in Handlers \ {h} : pc'[k] = pc[k]
        /\ pc'[h] \in {"read", "reply"}
    BY <1>0, <1>5, <2>1, HandlerMail
  <2>3. \A k \in Handlers : pc'[k] \notin {"read", "reply"} => result'[k] = {}
    BY <2>1, <2>2 DEF ResultsAreTaken
  <2>4. \A c \in Clients : Taken(c) <= Taken(c)' /\ Taken(c) \in Nat /\ Taken(c)' \in Nat
    <3>1. ClientTypes /\ ClientTypes' BY ClientStep
    <3> QED BY <2>1, <3>1, SocketAssumption DEF ClientTypes, Taken
  <2>5. ASSUME NEW j \in Handlers, NEW c \in Clients, NEW k \in 1 .. MaxChunks, <<c, k>> \in result'[j]
        PROVE  k <= Taken(c)' /\ \A f \in Fds : file'[f] = c => handling'[j].fd = f
    <3>1. CASE <<c, k>> \in result[j] BY <1>a, <2>1, <2>4, <3>1
    <3>2. CASE <<c, k>> \notin result[j]
      <4>1. j = h BY <2>1, <2>5, <3>2
      <4>2. HasData(h) BY <1>5, <2>5, <3>2, <4>1 DEF ReadOnce
      <4>3. c \in Peers(h) /\ k = Taken(c) + 1
        <5>1. result'[h] = result[h] \cup NextChunks(h)
          BY <1>5, <4>2 DEF ReadOnce, Received, ClientTypes
        <5>2. <<c, k>> \in NextChunks(h) BY <2>5, <3>2, <4>1, <5>1
        <5> QED BY <5>2 DEF NextChunks, Taken
      <4>4. file[handling[h].fd] = c BY <4>3 DEF Peers
      <4>5. unread'[c] = unread[c] - 1 BY <1>5, <4>2, <4>4, ReadTurn
      <4>6. Taken(c)' = Taken(c) + 1 BY <2>1, <4>5 DEF Taken, ClientTypes
      <4>7. \A f \in Fds : file'[f] = c => handling'[h].fd = f BY <2>1, <4>4 DEF AcceptedOnce
      <4> QED BY <2>4, <4>1, <4>3, <4>6, <4>7
    <3> QED BY <3>1, <3>2
  <2> QED BY <2>3, <2>5 DEF ResultsAreTaken
<1> QED BY <1>1, <1>2, <1>3, <1>4, <1>5, Steps

(* The chunk's reader has it in hand and its Write is still to come.       *)
InHand(x) == \E h \in Handlers : pc[h] \in {"read", "reply"} /\ x \in result[h]

LEMMA AnsweredStep ==
  ASSUME GatewayInvariant, [Next]_vars
  PROVE  ReadIsAnswered'
<1> USE DEF GatewayInvariant
<1> SUFFICES ASSUME NEW f \in Fds \ closed', NEW c \in Clients, file'[f] = c,
                    NEW k \in 1 .. Taken(c)'
             PROVE  <<c, k>> \in answered' \/ InHand(<<c, k>>)'
  BY DEF ReadIsAnswered, InHand, Taken
<1> DEFINE x == <<c, k>>
<1>0. Types BY DEF SocketInvariant
<1>a. ASSUME k <= Taken(c) PROVE x \in answered \/ InHand(x)
  <2>1. Taken(c) \in Nat /\ k \in 1 .. Taken(c) /\ Taken(c) > 0 BY <1>a, TakenTypes, SocketAssumption
  <2>2. file[f] = c BY <2>1, TakenFrom
  <2>3. closed \subseteq closed'
    <3>1. ASSUME NEW j \in Closers, RemoveConnection(j) PROVE closed \subseteq closed'
      BY <3>1 DEF RemoveConnection
    <3>2. CASE closed' = closed BY <3>2
    <3>3. (\E j \in Closers : RemoveConnection(j)) \/ closed' = closed
      BY DEF Next, Connect, SendData, CloseEnd, Listen, AddConnection, AddEvent, WaitForEvents, OnEvent,
             Accept, Announce, Close, RemoveEvent, ModifyEvent, StartHandler, ReadOnce, Write,
             FinishHandler, calls, vars
    <3> QED BY <3>1, <3>2, <3>3
  <2> QED BY <2>1, <2>2, <2>3 DEF ReadIsAnswered, InHand, Taken
<1>b. ASSUME Taken(c)' = Taken(c), answered \subseteq answered', InHand(x) => InHand(x)'
      PROVE  x \in answered' \/ InHand(x)'
  <2>1. k <= Taken(c) BY <1>b, TakenTypes, SocketAssumption
  <2> QED BY <1>a, <1>b, <2>1
<1>1. CASE KernelStep \/ OnEvent \/ Announce
  <2>1. UNCHANGED <<result, answered>> /\ \A h \in Handlers : pc'[h] = pc[h]
    BY <1>0, <1>1, KernelQuiet, EventMail, AnnounceMail DEF KernelStep, Quiet
  <2>2. InHand(x) => InHand(x)' BY <2>1 DEF InHand
  <2> QED BY <1>1, <1>b, <2>1, <2>2, TakenStays
<1>2. ASSUME NEW h \in Handlers, StartHandler(h) PROVE x \in answered' \/ InHand(x)'
  <2>1. pc[h] = "idle" /\ \A j \in Handlers \ {h} : pc'[j] = pc[j] BY <1>0, <1>2, StartMail
  <2>2. UNCHANGED <<result, answered>> BY <1>2 DEF StartHandler
  <2>3. InHand(x) => InHand(x)' BY <2>1, <2>2 DEF InHand
  <2> QED BY <1>2, <1>b, <2>2, <2>3, TakenStays
<1>3. ASSUME NEW h \in Handlers, FinishHandler(h) PROVE x \in answered' \/ InHand(x)'
  <2>1. pc[h] = "finish" /\ \A j \in Handlers \ {h} : pc'[j] = pc[j] BY <1>0, <1>3, FinishMail
  <2>2. UNCHANGED <<result, answered>> BY <1>3 DEF FinishHandler
  <2>3. InHand(x) => InHand(x)' BY <2>1, <2>2 DEF InHand
  <2> QED BY <1>3, <1>b, <2>2, <2>3, TakenStays
<1>4. ASSUME NEW h \in Handlers, Write(h) PROVE x \in answered' \/ InHand(x)'
  <2>1. \A j \in Handlers \ {h} : pc'[j] = pc[j] BY <1>0, <1>4, HandlerMail
  <2>2. /\ answered' = answered \cup {y \in result[h] : y[1] \in Peers(h)}
        /\ \A j \in Handlers \ {h} : result'[j] = result[j]
        /\ file' = file
    BY <1>4 DEF Write, Answered, ClientTypes, kernel
  <2>3. CASE x \in result[h]
    <3>1. Taken(c)' = Taken(c) BY <1>4, TakenStays
    <3>2. k \in 1 .. MaxChunks BY <2>3 DEF ClientTypes
    <3>3. handling[h].fd = f BY <2>2, <2>3, <3>2 DEF ResultsAreTaken
    <3>4. c \in Peers(h) BY <2>2, <3>3 DEF Peers
    <3> QED BY <2>2, <2>3, <3>4
  <2>4. CASE x \notin result[h]
    <3>1. InHand(x) => InHand(x)' BY <2>1, <2>2, <2>4 DEF InHand
    <3> QED BY <1>4, <1>b, <2>2, <3>1, TakenStays
  <2> QED BY <2>3, <2>4
<1>5. ASSUME NEW h \in Handlers, ReadOnce(h) PROVE x \in answered' \/ InHand(x)'
  <2>1. /\ UNCHANGED <<file, written, answered>> /\ pc[h] = "read" /\ handling[h].fd \in Fds
        /\ \A j \in Handlers \ {h} : result'[j] = result[j]
    BY <1>5, ReadTurn
  <2>2. /\ \A j \in Handlers \ {h} : pc'[j] = pc[j]
        /\ pc'[h] \in {"read", "reply"}
    BY <1>0, <1>5, <2>1, HandlerMail
  <2>3. result[h] \subseteq result'[h] BY <1>5 DEF ReadOnce, Received, ClientTypes
  <2>4. InHand(x) => InHand(x)' BY <2>1, <2>2, <2>3 DEF InHand
  <2>5. CASE k <= Taken(c) BY <1>a, <2>1, <2>4, <2>5
  <2>6. CASE ~(k <= Taken(c))
    <3>1. Taken(c) \in Nat BY TakenTypes, SocketAssumption
    <3>2. unread'[c] # unread[c] BY <2>1, <2>6, <3>1 DEF Taken
    <3>3. file[handling[h].fd] = c /\ HasData(h) BY <1>5, <3>2, ReadTurn
    <3>4. unread'[c] = unread[c] - 1 /\ result'[h] = result[h] \cup {<<c, Taken(c) + 1>>}
      BY <1>5, <3>3, ReadTurn
    <3>5. Taken(c)' = Taken(c) + 1 BY <2>1, <3>4 DEF Taken, ClientTypes
    <3>6. k = Taken(c) + 1 BY <2>6, <3>1, <3>5
    <3> QED BY <2>2, <3>4, <3>6 DEF InHand
  <2> QED BY <2>5, <2>6
<1> QED BY <1>1, <1>2, <1>3, <1>4, <1>5, Steps

------------------------------------------------------------------------------
LEMMA InitGateway == Init => GatewayInvariant
<1> SUFFICES ASSUME Init PROVE GatewayInvariant OBVIOUS
<1>1. SocketInvariant BY InitSocketInvariant
<1>2. /\ mailbox = [s \in {gateway} |-> <<>>] /\ running = {} /\ done = {}
      /\ handling = [h \in Handlers |-> noMessage] /\ \A h \in Handlers : pc[h] = "idle"
  BY Names DEF Init, Mail!MailboxInit
<1>3. Queue = <<>> /\ Elements(Queue) = {} /\ Distinct(Queue)
  <2>1. Queue = <<>> BY <1>2 DEF Queue
  <2> QED BY <2>1 DEF Elements, Distinct
<1>4. MailTypes
  <2>1. mailbox \in [{gateway} -> Seq(SocketMessages)] BY <1>2
  <2>2. posted \in Nat /\ batch = {} BY DEF Init
  <2> QED BY <1>2, <2>1, <2>2 DEF MailTypes, Busy
<1>5. HandledOnce
  <2>1. \A h \in Handlers : ~Busy(h) BY <1>2 DEF Busy
  <2>2. Working = {} BY <2>1 DEF Working
  <2>3. Once({gateway}, mailbox, {}, {}) BY <1>3 DEF Once, Queue
  <2> QED BY <1>2, <2>1, <2>2, <2>3 DEF HandledOnce
<1>6. Posted = {}
  <2>1. Working = {} BY <1>2 DEF Working, Busy
  <2> QED BY <1>2, <1>3, <1>5, <2>1, PostedParts
<1>7. ReadsDescriptors BY <1>2, <1>6 DEF ReadsDescriptors
<1>8. \A f \in Fds : connection_map[f] = "none" /\ file[f] = nobody /\ interest[f] = "none"
  BY DEF Init
<1>9. ClientsAnnounced
  <2>1. Started = {}
    <3>1. Working = {} BY <1>2 DEF Working, Busy
    <3> QED BY <1>2, <1>5, <3>1, PostedParts
  <2>2. AcceptAhead(Started, Queue) BY <1>3, <2>1 DEF AcceptAhead
  <2> QED BY <1>8, <2>2 DEF ClientsAnnounced
<1>10. ClientTypes BY SocketAssumption DEF Init, ClientTypes
<1>11. AcceptedOnce
  <2>1. Distinct(backlog) /\ Backlog = {} BY DEF Init, Distinct, Backlog, Elements
  <2>2. \A c \in Clients : unread[c] = written[c] BY DEF Init
  <2> QED BY <1>8, <2>1, <2>2, Names DEF AcceptedOnce
<1>12. ConnectedIsWatched
  <2>1. pc[main] = "start" /\ pc[socket] = "wait" /\ batch = {} BY Names DEF Init
  <2> QED BY <1>8, <2>1 DEF ConnectedIsWatched
<1>13. UnreadIsAnnounced BY <1>8 DEF UnreadIsAnnounced
<1>14. ReadIsAnswered BY <1>8, Names DEF ReadIsAnswered
<1>15. ResultsAreTaken BY DEF Init, ResultsAreTaken
<1> QED BY <1>1, <1>4, <1>5, <1>7, <1>9, <1>10, <1>11, <1>12, <1>13, <1>14, <1>15
    DEF GatewayInvariant

LEMMA StepGateway == GatewayInvariant /\ [Next]_vars => GatewayInvariant'
<1> SUFFICES ASSUME GatewayInvariant, [Next]_vars PROVE GatewayInvariant' OBVIOUS
<1>1. SocketInvariant' BY StepSocketInvariant DEF GatewayInvariant
<1> QED BY <1>1, MailStep, AnnouncedStep, ClientStep, AcceptedStep, WatchedStep, UnreadStep,
           ResultsStep, AnsweredStep
    DEF GatewayInvariant

(* The parts of GatewayInvariant hold in every reachable state.            *)
THEOREM GatewayInvariantHolds == Spec => []GatewayInvariant
<1>1. Init => GatewayInvariant BY InitGateway
<1>2. GatewayInvariant /\ [Next]_vars => GatewayInvariant' BY StepGateway
<1> QED BY <1>1, <1>2, PTL DEF Spec

(* The kernel's, the socket thread's and the gateway's state have their    *)
(* types, and what the mailbox calls running is what the handlers work on. *)
THEOREM SocketTypes == Spec => []TypeOK
<1> SUFFICES ASSUME GatewayInvariant PROVE TypeOK BY GatewayInvariantHolds, PTL
<1> USE DEF GatewayInvariant
<1>1. Types BY DEF SocketInvariant
<1>2. Posted \subseteq SocketMessages BY PostedTypes
<1>3. running = {<<gateway, handling[h]>> : h \in {k \in Handlers : pc[k] # "idle"}}
  BY DEF HandledOnce, Busy
<1> QED BY <1>1, <1>2, <1>3 DEF Types, Kernel, Threads, MailTypes, ClientTypes, TypeOK

(* Data that a client has sent is never left in the socket with nobody to  *)
(* read it: it is in epoll's list, in the batch, in the gateway's queue or *)
(* before a handler that still reads.                                      *)
THEOREM UnreadAnnounced == Spec => []UnreadIsAnnounced
<1>1. GatewayInvariant => UnreadIsAnnounced BY DEF GatewayInvariant
<1> QED BY <1>1, GatewayInvariantHolds, PTL

(* When the handler of a SOCKET_RW message starts, the handler of its      *)
(* descriptor's SOCKET_ACCEPT message has been started before it.          *)
THEOREM AcceptFirst == Spec => []AcceptStartsFirst
<1>1. GatewayInvariant => AcceptStartsFirst
  BY DEF GatewayInvariant, ClientsAnnounced, AcceptAhead, Queue, AcceptStartsFirst
<1> QED BY <1>1, GatewayInvariantHolds, PTL

(* Every chunk of data that has left the socket of a connection has been   *)
(* answered by the handler that read it, or that handler holds it and has  *)
(* yet to write.                                                           *)
THEOREM ReadAnswered == Spec => []ReadIsAnswered
<1>1. GatewayInvariant => ReadIsAnswered BY DEF GatewayInvariant
<1> QED BY <1>1, GatewayInvariantHolds, PTL
==============================================================================
