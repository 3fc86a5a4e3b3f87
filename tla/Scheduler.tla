------------------------------ MODULE Scheduler ------------------------------
(***************************************************************************)
(* The heart of XianNet: services with a message queue each, one global    *)
(* queue of services that have messages, a pool of service workers that    *)
(* take services from it, and the sleep and wake-up of that pool.          *)
(*                                                                         *)
(* A thread runs either user code (a message handler, OnInitialization,    *)
(* OnExit, the main thread, the socket thread) or one of the functions of  *)
(* the kernel.  A step of this module is the code between two accesses to  *)
(* shared state; one critical section of a spin lock or of the map's       *)
(* rwlock is one step.  pc[t] names the next step of thread t.             *)
(***************************************************************************)
EXTENDS Integers, Sequences, FiniteSets

CONSTANTS
  ThreadSize,    (* config_.core.thread_size: the number of service workers *)
  Callers,       (* threads outside the pool: the main and the socket one   *)
  Killable,      (* services whose handlers may call KillService            *)
  nullptr,       (* no service, no message, no thread                       *)
  MaxServices,   (* bound: services ever created                            *)
  MaxMessages    (* bound: messages ever allocated                          *)

Workers  == 0 .. ThreadSize - 1
Threads  == Workers \cup Callers
Services == 0 .. MaxServices - 1
Messages == 1 .. MaxMessages

(* 1 << i is an int: 30 is the last i with a positive value.               *)
ASSUME SchedulerAssumption ==
  /\ ThreadSize \in 1 .. 31
  /\ MaxServices \in Nat
  /\ MaxMessages \in Nat
  /\ Killable \subseteq Services
  /\ Callers \cap Int = {}
  /\ nullptr \notin Int \cup Callers

VARIABLES
  service_map,          (* ids in ServiceMap::map_                          *)
  auto_increment_id,    (* ServiceMap::auto_increment_id_                   *)
  message_queue,        (* BaseService::message_queue_, per service         *)
  is_in_global_queue,   (* BaseService::is_in_global_queue_, per service    *)
  is_existing,          (* BaseService::is_existing_, per service           *)
  global_service_queue, (* XianNet::global_service_queue_                   *)
  sleep_count,          (* XianNet::sleep_count_                            *)
  mutex_lock,           (* holder of XianNet::mutex_lock_, or nullptr       *)
  pc,                   (* the next step of each thread                     *)
  service,              (* worker's local: the service taken from the queue *)
  i,                    (* worker's local: loop counter of ProcessMessages  *)
  message,              (* worker's local: the message being handled        *)
  target,               (* SendMessage's local: target_service              *)
  outgoing,             (* SendMessage's argument: message                  *)
  seen,                 (* the sleep_count_ CheckAndWeakUpWorker has read   *)
  resume,               (* the user code that SendMessage returns to        *)
  sent,                 (* history: messages allocated                      *)
  handled               (* history: messages whose handler has returned     *)

registry    == <<service_map, auto_increment_id>>
work        == <<message_queue, is_in_global_queue, is_existing, global_service_queue>>
pool        == <<sleep_count, mutex_lock>>
workerLocal == <<service, i, message>>
sendLocal   == <<target, outgoing, seen, resume>>
history     == <<sent, handled>>
vars == <<registry, work, pool, pc, workerLocal, sendLocal, history>>

(* What thread t does next becomes `to`.                                   *)
Goto(t, to) == pc' = [pc EXCEPT ![t] = to]

(* Places where a thread runs code that may call the kernel's interface.   *)
UserCode == {"idle", "handle", "exit"}

Init ==
  /\ service_map = {}
  /\ auto_increment_id = 0
  /\ message_queue = [s \in Services |-> <<>>]
  /\ is_in_global_queue = [s \in Services |-> FALSE]
  /\ is_existing = [s \in Services |-> FALSE]
  /\ global_service_queue = <<>>
  /\ sleep_count = 0
  /\ mutex_lock = nullptr
  /\ pc = [t \in Threads |-> IF t \in Workers THEN "pop" ELSE "idle"]
  /\ service = [w \in Workers |-> nullptr]
  /\ i = [w \in Workers |-> 0]
  /\ message = [w \in Workers |-> nullptr]
  /\ target = [t \in Threads |-> nullptr]
  /\ outgoing = [t \in Threads |-> nullptr]
  /\ seen = [t \in Threads |-> 0]
  /\ resume = [t \in Threads |-> IF t \in Workers THEN "handle" ELSE "idle"]
  /\ sent = 0
  /\ handled = {}

------------------------------------------------------------------------------
(* The service map.                                                        *)

(* XianNet::NewService: the service enters the map under the next id and   *)
(* its OnInitialization then runs on the calling thread as user code.      *)
NewService(t) ==
  /\ pc[t] \in UserCode
  /\ auto_increment_id < MaxServices
  /\ service_map' = service_map \cup {auto_increment_id}
  /\ auto_increment_id' = auto_increment_id + 1
  /\ UNCHANGED <<work, pool, pc, workerLocal, sendLocal, history>>

(* XianNet::KillService, called by a service from its own handler: OnExit  *)
(* is user code, then is_existing_ is set, then the map entry goes.        *)
KillService(w) ==
  /\ pc[w] = "handle"
  /\ service[w] \in Killable \cap service_map
  /\ Goto(w, "exit")
  /\ UNCHANGED <<registry, work, pool, workerLocal, sendLocal, history>>

SetExisting(w) ==
  /\ pc[w] = "exit"
  /\ is_existing' = [is_existing EXCEPT ![service[w]] = TRUE]
  /\ Goto(w, "erase")
  /\ UNCHANGED <<registry, message_queue, is_in_global_queue,
                 global_service_queue, pool, workerLocal, sendLocal, history>>

EraseService(w) ==
  /\ pc[w] = "erase"
  /\ service_map' = service_map \ {service[w]}
  /\ Goto(w, "handle")
  /\ UNCHANGED <<auto_increment_id, work, pool, workerLocal, sendLocal, history>>

------------------------------------------------------------------------------
(* XianNet::SendMessage and the two functions it calls.                    *)

(* Variant: the target is used without the test for nullptr.               *)
SendUnchecked(t, s) ==
  /\ pc[t] \in UserCode
  /\ sent < MaxMessages
  /\ sent' = sent + 1
  /\ target' = [target EXCEPT ![t] = IF s \in service_map THEN s ELSE nullptr]
  /\ outgoing' = [outgoing EXCEPT ![t] = sent + 1]
  /\ resume' = [resume EXCEPT ![t] = pc[t]]
  /\ Goto(t, "enqueue")
  /\ UNCHANGED <<registry, work, pool, workerLocal, seen, handled>>

(* A message is allocated and its target looked up; with no such service   *)
(* the call returns and the message reaches nobody.                        *)
SendMessage(t, s) ==
  /\ pc[t] \in UserCode
  /\ sent < MaxMessages
  /\ sent' = sent + 1
  /\ IF s \in service_map
       THEN /\ target' = [target EXCEPT ![t] = s]
            /\ outgoing' = [outgoing EXCEPT ![t] = sent + 1]
            /\ resume' = [resume EXCEPT ![t] = pc[t]]
            /\ Goto(t, "enqueue")
       ELSE UNCHANGED <<target, outgoing, resume, pc>>
  /\ UNCHANGED <<registry, work, pool, workerLocal, seen, handled>>

PushMessage(t) ==
  /\ pc[t] = "enqueue"
  /\ message_queue' = [message_queue EXCEPT ![target[t]] = Append(@, outgoing[t])]
  /\ outgoing' = [outgoing EXCEPT ![t] = nullptr]
  /\ Goto(t, "mark")
  /\ UNCHANGED <<registry, is_in_global_queue, is_existing, global_service_queue,
                 pool, workerLocal, target, seen, resume, history>>

(* SendMessage returns to the user code that called it.                    *)
ReturnFromSend(t) ==
  /\ Goto(t, resume[t])
  /\ target' = [target EXCEPT ![t] = nullptr]
  /\ seen' = [seen EXCEPT ![t] = 0]

(* SpinlockObject::SetCurrentAndGetPrevious(true) on the service's flag;   *)
(* the variant forgets the assignment.                                     *)
LeaveUnmarked(s) == is_in_global_queue' = is_in_global_queue
Mark(s) == is_in_global_queue' = [is_in_global_queue EXCEPT ![s] = TRUE]

CheckAndMark(t) ==
  /\ pc[t] = "mark"
  /\ Mark(target[t])
  /\ IF is_in_global_queue[target[t]]
       THEN ReturnFromSend(t)
       ELSE Goto(t, "push") /\ UNCHANGED <<target, seen>>
  /\ UNCHANGED <<registry, message_queue, is_existing, global_service_queue, pool,
                 workerLocal, outgoing, resume, history>>

PushGlobal(t) ==
  /\ pc[t] = "push"
  /\ global_service_queue' = Append(global_service_queue, target[t])
  /\ Goto(t, "count")
  /\ UNCHANGED <<registry, message_queue, is_in_global_queue, is_existing, pool,
                 workerLocal, sendLocal, history>>

(* CheckAndWeakUpWorker reads sleep_count_ without the mutex.              *)
ReadSleepCount(t) ==
  /\ pc[t] = "count"
  /\ IF sleep_count = 0
       THEN ReturnFromSend(t)
       ELSE /\ seen' = [seen EXCEPT ![t] = sleep_count]
            /\ Goto(t, "size")
            /\ UNCHANGED target
  /\ UNCHANGED <<registry, work, pool, workerLocal, outgoing, resume, history>>

(* Another thread may write the global queue while t reads its size.       *)
SizeRace(t) ==
  \E u \in Threads \ {t} :
    \/ pc[u] \in {"push", "repush"}
    \/ pc[u] = "pop" /\ global_service_queue # <<>>

(* The test for a wake-up; the variant does not subtract the sleepers.     *)
WakeForWholePool(asleep) == ThreadSize <= Len(global_service_queue)
WakeNeeded(asleep) == ThreadSize - asleep <= Len(global_service_queue)

(* SpinlockQueue::GetSize takes no lock, and the compiler may use the      *)
(* sleep_count_ of the first read or read it again: a racing size is any   *)
(* number, a racing sleep_count_ the old or the current one.               *)
ReadQueueSize(t) ==
  /\ pc[t] = "size"
  /\ \E asleep \in {seen[t], sleep_count}, wake \in BOOLEAN :
       /\ ~SizeRace(t) => wake = WakeNeeded(asleep)
       /\ IF wake THEN Goto(t, "signal") /\ UNCHANGED <<target, seen>>
                  ELSE ReturnFromSend(t)
  /\ UNCHANGED <<registry, work, pool, workerLocal, outgoing, resume, history>>

Asleep == {w \in Workers : pc[w] = "wait"}

(* pthread_cond_signal: wakes one waiter, and nobody when none waits.      *)
Signal(t) ==
  /\ pc[t] = "signal"
  /\ IF Asleep = {}
       THEN Goto(t, resume[t])
       ELSE \E w \in Asleep : pc' = [pc EXCEPT ![t] = resume[t], ![w] = "relock"]
  /\ target' = [target EXCEPT ![t] = nullptr]
  /\ seen' = [seen EXCEPT ![t] = 0]
  /\ UNCHANGED <<registry, work, pool, workerLocal, outgoing, resume, history>>

------------------------------------------------------------------------------
(* ServiceWorker::operator() and the functions it calls.                   *)

(* How many messages worker w handles at most before it moves on.          *)
ShiftedTooLittle(w) == 2 ^ w - 1
ProcessingNum(w) == 2 ^ w

(* SpinlockQueue::PopFront on a queue that is not empty: what it returns   *)
(* and what it leaves.  Variants: the wrong end, and front() with no pop().*)
Back(queue)   == queue[Len(queue)]
Front(queue)  == Head(queue)
Unpopped(queue) == queue
Popped(queue) == Tail(queue)

(* PopGlobalServiceQueue takes the service first and clears its flag next. *)
PopGlobal(w) ==
  /\ pc[w] = "pop"
  /\ IF global_service_queue = <<>>
       THEN Goto(w, "block") /\ UNCHANGED <<global_service_queue, service>>
       ELSE /\ service' = [service EXCEPT ![w] = Front(global_service_queue)]
            /\ global_service_queue' = Popped(global_service_queue)
            /\ Goto(w, "unset")
  /\ UNCHANGED <<registry, message_queue, is_in_global_queue, is_existing, pool,
                 i, message, sendLocal, history>>

UnsetInGlobal(w) ==
  /\ pc[w] = "unset"
  /\ is_in_global_queue' = [is_in_global_queue EXCEPT ![service[w]] = FALSE]
  /\ i' = [i EXCEPT ![w] = 0]
  /\ Goto(w, "process")
  /\ UNCHANGED <<registry, message_queue, is_existing, global_service_queue, pool,
                 service, message, sendLocal, history>>

(* One turn of ProcessMessages' loop.  An empty queue does not end it.     *)
ProcessNext(w) ==
  /\ pc[w] = "process"
  /\ i[w] < ProcessingNum(w)
  /\ LET queue == message_queue[service[w]] IN
       IF queue = <<>>
         THEN i' = [i EXCEPT ![w] = @ + 1] /\ UNCHANGED <<message_queue, message, pc>>
         ELSE /\ message' = [message EXCEPT ![w] = Front(queue)]
              /\ message_queue' = [message_queue EXCEPT ![service[w]] = Popped(queue)]
              /\ Goto(w, "handle")
              /\ UNCHANGED i
  /\ UNCHANGED <<registry, is_in_global_queue, is_existing, global_service_queue,
                 pool, service, sendLocal, history>>

FinishHandler(w) ==
  /\ pc[w] = "handle"
  /\ handled' = handled \cup {message[w]}
  /\ message' = [message EXCEPT ![w] = nullptr]
  /\ i' = [i EXCEPT ![w] = @ + 1]
  /\ Goto(w, "process")
  /\ UNCHANGED <<registry, work, pool, service, sendLocal, sent>>

(* The worker has done with its service and takes the next one.            *)
LeaveService(w) == Goto(w, "pop") /\ service' = [service EXCEPT ![w] = nullptr]

EndBatch(w) ==
  /\ pc[w] = "process"
  /\ i[w] >= ProcessingNum(w)
  /\ Goto(w, "exiting")
  /\ UNCHANGED <<registry, work, pool, workerLocal, sendLocal, history>>

(* ServiceWorker::CheckAndPutGlobal: is_existing_, then IsMessageQueueEmpty *)
(* (variant: off by one), then the flag.                                   *)
CheckExiting(w) ==
  /\ pc[w] = "exiting"
  /\ IF is_existing[service[w]]
       THEN LeaveService(w)
       ELSE Goto(w, "empty") /\ UNCHANGED service
  /\ UNCHANGED <<registry, work, pool, i, message, sendLocal, history>>

MoreThanOneMessage(s) == Len(message_queue[s]) > 1
HasMessages(s) == message_queue[s] # <<>>

CheckEmpty(w) ==
  /\ pc[w] = "empty"
  /\ IF HasMessages(service[w])
       THEN Goto(w, "remark") /\ UNCHANGED service
       ELSE LeaveService(w)
  /\ UNCHANGED <<registry, work, pool, i, message, sendLocal, history>>

(* CheckAndPushGlobalServiceQueue as the worker calls it: no wake-up.      *)
Remark(w) ==
  /\ pc[w] = "remark"
  /\ Mark(service[w])
  /\ IF is_in_global_queue[service[w]]
       THEN LeaveService(w)
       ELSE Goto(w, "repush") /\ UNCHANGED service
  /\ UNCHANGED <<registry, message_queue, is_existing, global_service_queue, pool,
                 i, message, sendLocal, history>>

Repush(w) ==
  /\ pc[w] = "repush"
  /\ global_service_queue' = Append(global_service_queue, service[w])
  /\ LeaveService(w)
  /\ UNCHANGED <<registry, message_queue, is_in_global_queue, is_existing, pool,
                 i, message, sendLocal, history>>

------------------------------------------------------------------------------
(* XianNet::BlockWorker.  The queue is not looked at again under the lock. *)

Block(w) ==
  /\ pc[w] = "block"
  /\ mutex_lock = nullptr
  /\ mutex_lock' = w
  /\ sleep_count' = sleep_count + 1
  /\ Goto(w, "sleep")
  /\ UNCHANGED <<registry, work, workerLocal, sendLocal, history>>

(* pthread_cond_wait releases the mutex and waits, in one step.            *)
Sleep(w) ==
  /\ pc[w] = "sleep"
  /\ mutex_lock' = nullptr
  /\ Goto(w, "wait")
  /\ UNCHANGED <<registry, work, sleep_count, workerLocal, sendLocal, history>>

(* POSIX lets pthread_cond_wait return with no signal; no loop guards it.  *)
SpuriousWakeup(w) ==
  /\ pc[w] = "wait"
  /\ Goto(w, "relock")
  /\ UNCHANGED <<registry, work, pool, workerLocal, sendLocal, history>>

(* Variant: sleep_count_ is not counted down.                              *)
WakeUncounted(w) ==
  /\ pc[w] = "relock"
  /\ mutex_lock = nullptr
  /\ Goto(w, "pop")
  /\ UNCHANGED <<registry, work, pool, workerLocal, sendLocal, history>>

(* The wait returns with the mutex, sleep_count_ drops, the mutex is freed. *)
Wake(w) ==
  /\ pc[w] = "relock"
  /\ mutex_lock = nullptr
  /\ sleep_count' = sleep_count - 1
  /\ Goto(w, "pop")
  /\ UNCHANGED <<registry, work, mutex_lock, workerLocal, sendLocal, history>>

------------------------------------------------------------------------------
SendStep(t) ==
  \/ PushMessage(t)
  \/ CheckAndMark(t)
  \/ PushGlobal(t)
  \/ ReadSleepCount(t)
  \/ ReadQueueSize(t)
  \/ Signal(t)

ServeStep(w) ==
  \/ PopGlobal(w)
  \/ UnsetInGlobal(w)
  \/ ProcessNext(w)
  \/ FinishHandler(w)
  \/ EndBatch(w)
  \/ CheckExiting(w)
  \/ CheckEmpty(w)
  \/ Remark(w)
  \/ Repush(w)

SleepStep(w) == Block(w) \/ Sleep(w) \/ Wake(w)

KillStep(w) == SetExisting(w) \/ EraseService(w)

Next ==
  \/ \E t \in Threads :
       \/ NewService(t)
       \/ \E s \in Services : SendMessage(t, s)
       \/ SendStep(t)
  \/ \E w \in Workers :
       \/ ServeStep(w)
       \/ SleepStep(w)
       \/ KillService(w)
       \/ KillStep(w)
       \/ SpuriousWakeup(w)

Spec == Init /\ [][Next]_vars

(* Every running thread is scheduled and every handler returns; creating,  *)
(* sending and killing are the user code's choice.                         *)
Fairness ==
  /\ \A t \in Threads : WF_vars(SendStep(t))
  /\ \A w \in Workers : WF_vars(ServeStep(w)) /\ WF_vars(SleepStep(w)) /\ WF_vars(KillStep(w))

FairSpec == Spec /\ Fairness
==============================================================================
