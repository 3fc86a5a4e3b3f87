------------------------- MODULE SchedulerProperties -------------------------
(***************************************************************************)
(* What the scheduler must get right, and the specification it implements. *)
(***************************************************************************)
EXTENDS Scheduler

Labels == {"idle", "handle", "exit", "erase", "enqueue", "mark", "push", "count",
           "size", "signal", "pop", "unset", "process", "exiting", "empty",
           "remark", "repush", "block", "sleep", "wait", "relock"}

(* Labels inside PushMessage .. CheckAndWeakUpWorker; inside the handler    *)
(* of a message; where a worker has a service but handles no message.      *)
Sending  == {"enqueue", "mark", "push", "count", "size", "signal"}
Handling == {"handle", "exit", "erase"}
Serving  == {"unset", "process", "exiting", "empty", "remark", "repush"}

(* A pointer is set exactly while the code that uses it runs: SendMessage  *)
(* has a target, a handler a message, a worker between PopFront and the    *)
(* end of CheckAndPutGlobal a service; none of them is ever nullptr there. *)
SenderLocals(t) ==
  /\ target[t] # nullptr <=> pc[t] \in Sending
  /\ outgoing[t] # nullptr <=> pc[t] = "enqueue"
CallerLocals(c) == pc[c] \in {"idle"} \cup Sending /\ resume[c] = "idle"
WorkerLocals(w) ==
  /\ pc[w] # "idle" /\ resume[w] # "idle"
  /\ message[w] # nullptr <=> pc[w] \in Handling \cup Sending
  /\ service[w] # nullptr <=> pc[w] \in Serving \cup Handling \cup Sending

LocalsSet ==
  /\ \A t \in Threads : SenderLocals(t)
  /\ \A c \in Callers : CallerLocals(c)
  /\ \A w \in Workers : WorkerLocals(w)

(* Every variable holds a value of its C++ type.                           *)
SharedTypes ==
  /\ service_map \in SUBSET Services
  /\ auto_increment_id \in 0 .. MaxServices
  /\ message_queue \in [Services -> Seq(Messages)]
  /\ is_in_global_queue \in [Services -> BOOLEAN]
  /\ is_existing \in [Services -> BOOLEAN]
  /\ global_service_queue \in Seq(Services)
  /\ sleep_count \in Int
  /\ mutex_lock \in Workers \cup {nullptr}
  /\ sent \in 0 .. MaxMessages
  /\ handled \in SUBSET Messages

LocalTypes ==
  /\ pc \in [Threads -> Labels]
  /\ service \in [Workers -> Services \cup {nullptr}]
  /\ i \in [Workers -> Nat]
  /\ message \in [Workers -> Messages \cup {nullptr}]
  /\ target \in [Threads -> Services \cup {nullptr}]
  /\ outgoing \in [Threads -> Messages \cup {nullptr}]
  /\ seen \in [Threads -> Int]
  /\ resume \in [Threads -> UserCode]

(* Every variable has its type, and no pointer that is used is nullptr.    *)
TypeOK == SharedTypes /\ LocalTypes /\ LocalsSet

------------------------------------------------------------------------------
(* A ticket for a service: a place in the global queue, or a thread that   *)
(* has won the flag and has not pushed yet, or one that has popped and not *)
(* cleared the flag yet.                                                   *)
Places(s) == {n \in 1 .. Len(global_service_queue) : global_service_queue[n] = s}
Holds(t, s) ==
  \/ pc[t] = "push" /\ target[t] = s
  \/ pc[t] \in {"unset", "repush"} /\ service[t] = s
Holders(s) == {t \in Threads : Holds(t, s)}

(* CheckAndPushGlobalServiceQueue releases the flag's lock before it       *)
(* pushes, and PopGlobalServiceQueue pops before it clears the flag: even  *)
(* so a service has at most one ticket, and has one exactly while its      *)
(* is_in_global_queue_ is true.                                            *)
Ticket(s) ==
  /\ \A m, n \in Places(s) : m = n
  /\ \A t, u \in Holders(s) : t = u
  /\ Places(s) = {} \/ Holders(s) = {}
  /\ is_in_global_queue[s] <=> Places(s) \cup Holders(s) # {}

OneTicket == \A s \in Services : Ticket(s)

(* Somebody will look at the message queue of s: the service is (or is     *)
(* about to be) in the global queue, or a worker holds it and will look    *)
(* again, or the sender that pushed has not come to the flag yet.  Nobody  *)
(* has to for a service that is exiting: CheckAndPutGlobal returns early.  *)
Attended(s) ==
  \/ is_in_global_queue[s]
  \/ is_existing[s]
  \/ \E w \in Workers : service[w] = s
  \/ \E t \in Threads : pc[t] = "mark" /\ target[t] = s

(* No message is forgotten: SendMessage queues a message before it tests   *)
(* the flag, and a worker clears the flag before it empties the queue and  *)
(* tests the queue before it leaves, so a queue that is not empty is       *)
(* attended at every step of every interleaving.                           *)
NoStrandedMessage ==
  \A s \in Services : message_queue[s] # <<>> => Attended(s)

(* sleep_count_ is the number of workers inside BlockWorker's critical     *)
(* region, so the wake-up test reads a meaningful number.                  *)
Counted == {w \in Workers : pc[w] \in {"sleep", "wait", "relock"}}

SleepCountExact == sleep_count = Cardinality(Counted)

Queued(s) == {message_queue[s][n] : n \in 1 .. Len(message_queue[s])}
InHand    == {outgoing[t] : t \in Threads} \ {nullptr}
Handled   == {message[w] : w \in Workers} \ {nullptr}

(* A message is in one place only and once: in the hand of one sender, at  *)
(* one position of one service's queue, in the handler of one worker, or   *)
(* among those already handled.  Two workers may process one service at    *)
(* the same time; even so no message is handled twice.                     *)
OnePlace ==
  /\ \A t, u \in Threads : outgoing[t] = outgoing[u] /\ outgoing[t] # nullptr => t = u
  /\ \A v, w \in Workers : message[v] = message[w] /\ message[v] # nullptr => v = w
  /\ \A r, s \in Services : r # s => Queued(r) \cap Queued(s) = {}
  /\ \A s \in Services : \A m, n \in 1 .. Len(message_queue[s]) :
       message_queue[s][m] = message_queue[s][n] => m = n
  /\ InHand \cap (Handled \cup handled) = {}
  /\ Handled \cap handled = {}
  /\ \A s \in Services : Queued(s) \cap (InHand \cup Handled \cup handled) = {}

------------------------------------------------------------------------------
(* The mailboxes behind the threads.                                       *)
Mail == INSTANCE Mailboxes
          WITH mailbox <- message_queue,
               running <- {<<service[w], message[w]>> :
                             w \in {v \in Workers : message[v] # nullptr}},
               done <- handled

(* Each message a registered service accepts is handled once and started   *)
(* in arrival order, whatever the workers' interleaving.                   *)
ImplementsMailboxes == Mail!MailboxSpec

------------------------------------------------------------------------------
PoolAsleep == Asleep = Workers
Pending(m) == \E s \in Services : m \in Queued(s) /\ ~is_existing[s]

(* The state a lost wake-up leads to: services wait in the global queue,   *)
(* every worker sleeps, and no sender is on its way to the signal.         *)
Stalled ==
  /\ PoolAsleep
  /\ global_service_queue # <<>>
  /\ \A t \in Threads : pc[t] \notin {"count", "size", "signal"}

(* A message in the queue of a service that is not exiting is taken from   *)
(* it unless the pool stalls: a worker that is awake drains the global     *)
(* queue, a service with messages left is put back, and the lost wake-up   *)
(* is the only way a message waits for ever.                               *)
AwakePoolDelivers ==
  \A m \in Messages : Pending(m) ~> ~Pending(m) \/ Stalled

(* When every worker sleeps and nothing is queued, a send does wake one,   *)
(* whatever other senders push meanwhile, so that GetSize and the count    *)
(* are read while they change: the lost wake-up needs a worker that is on  *)
(* its way to sleep.                                                       *)
IdlePoolWakes ==
  (PoolAsleep /\ global_service_queue = <<>> /\ \E t \in Callers : pc[t] = "mark")
    ~> ~PoolAsleep

(* xian_net.cc:88 says of a missed wake-up: waiting for the next one is    *)
(* enough.  So a pool that sleeps over a non-empty global queue is woken   *)
(* by the next message that is sent.                                       *)
NextSendEndsStall ==
  (Stalled /\ \E t \in Threads : pc[t] = "enqueue") ~> ~Stalled
==============================================================================
