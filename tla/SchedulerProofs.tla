--------------------------- MODULE SchedulerProofs ---------------------------
(***************************************************************************)
(* Proofs, for every number of workers, callers, services and messages, of *)
(* the invariants that SchedulerProperties states.                         *)
(***************************************************************************)
EXTENDS SchedulerProperties, FiniteSetTheorems, TLAPS

(* Names for parts of a step that no proof reasons about on their own.     *)
USE DEF work, Front, Popped, HasMessages

LEMMA Domains ==
  /\ Threads = Workers \cup Callers
  /\ Workers \cap Callers = {}
  /\ nullptr \notin Workers \cup Callers \cup Services \cup Messages
  BY SchedulerAssumption DEF Threads, Workers, Services, Messages

(* Below their bounds the two counters yield ids of services and messages. *)
LEMMA Counters ==
  /\ \A n \in 0 .. MaxServices :
       n < MaxServices => n \in Services /\ n + 1 \in 0 .. MaxServices
  /\ \A n \in 0 .. MaxMessages :
       n < MaxMessages => n + 1 \in Messages /\ n + 1 \in 0 .. MaxMessages
  BY SchedulerAssumption DEF Services, Messages

------------------------------------------------------------------------------
(* Type correctness.  The locals come first: that no pointer is nullptr    *)
(* where it is used is what keeps the queues and flags well typed.         *)

LEMMA InitTypeOK == Init => TypeOK
  BY Domains, SchedulerAssumption DEF Init, TypeOK, SharedTypes, LocalTypes, LocalsSet, SenderLocals,
     CallerLocals, WorkerLocals, Labels, UserCode, Sending, Handling, Serving

LEMMA SendKeepsLocals ==
  ASSUME LocalTypes, LocalsSet, NEW t \in Threads, SendStep(t)
  PROVE  LocalsSet'
<1> DEFINE Locals(u) == /\ SenderLocals(u)
                        /\ u \in Callers => CallerLocals(u)
                        /\ u \in Workers => WorkerLocals(u)
<1> SUFFICES ASSUME NEW u \in Threads PROVE Locals(u)'
  BY Domains DEF LocalsSet
<1> USE Domains DEF LocalTypes, LocalsSet, SenderLocals, CallerLocals, WorkerLocals,
        Sending, Handling, Serving, Goto, workerLocal, sendLocal
<1>1. CASE PushMessage(t) BY <1>1 DEF PushMessage
<1>2. CASE CheckAndMark(t) BY <1>2 DEF CheckAndMark, ReturnFromSend, UserCode
<1>3. CASE PushGlobal(t) BY <1>3 DEF PushGlobal
<1>4. CASE ReadSleepCount(t) BY <1>4 DEF ReadSleepCount, ReturnFromSend, UserCode
<1>5. CASE ReadQueueSize(t)
  <2>1. CASE Goto(t, "signal") /\ UNCHANGED <<target, seen>>
    BY <1>5, <2>1 DEF ReadQueueSize
  <2>2. CASE ReturnFromSend(t) BY <1>5, <2>2 DEF ReadQueueSize, ReturnFromSend, UserCode
  <2> QED BY <1>5, <2>1, <2>2 DEF ReadQueueSize
<1>6. CASE Signal(t) BY <1>6 DEF Signal, Asleep, UserCode
<1> QED BY <1>1, <1>2, <1>3, <1>4, <1>5, <1>6 DEF SendStep

LEMMA WorkerKeepsLocals ==
  ASSUME TypeOK, NEW w \in Workers,
         \/ ServeStep(w) \/ SleepStep(w) \/ KillService(w) \/ KillStep(w) \/ SpuriousWakeup(w)
  PROVE  LocalsSet'
<1> DEFINE Locals(u) == /\ SenderLocals(u)
                        /\ u \in Callers => CallerLocals(u)
                        /\ u \in Workers => WorkerLocals(u)
<1> SUFFICES ASSUME NEW u \in Threads PROVE Locals(u)'
  BY Domains DEF LocalsSet
<1> USE Domains DEF LocalTypes, LocalsSet, SenderLocals, CallerLocals, WorkerLocals,
        Sending, Handling, Serving, Goto, LeaveService, workerLocal, sendLocal
<1>a. LocalTypes /\ LocalsSet BY DEF TypeOK
<1>b. /\ global_service_queue \in Seq(Services)
      /\ message_queue \in [Services -> Seq(Messages)]
  BY DEF TypeOK, SharedTypes
<1> USE <1>a
<1>1. CASE PopGlobal(w)
  <2>1. CASE global_service_queue = <<>> BY <1>1, <2>1 DEF PopGlobal
  <2>2. CASE global_service_queue # <<>>
    <3>1. Head(global_service_queue) \in Services BY <1>b, <2>2
    <3> QED BY <1>1, <2>2, <3>1 DEF PopGlobal
  <2> QED BY <2>1, <2>2
<1>2. CASE UnsetInGlobal(w) BY <1>2 DEF UnsetInGlobal
<1>3. CASE ProcessNext(w)
  <2>1. CASE message_queue[service[w]] = <<>> BY <1>3, <2>1 DEF ProcessNext
  <2>2. CASE message_queue[service[w]] # <<>>
    <3>1. service[w] \in Services BY <1>3 DEF ProcessNext
    <3>2. Head(message_queue[service[w]]) \in Messages BY <1>b, <2>2, <3>1
    <3> QED BY <1>3, <2>2, <3>2 DEF ProcessNext
  <2> QED BY <2>1, <2>2
<1>4. CASE FinishHandler(w) BY <1>4 DEF FinishHandler
<1>5. CASE EndBatch(w) BY <1>5 DEF EndBatch
<1>6. CASE CheckExiting(w) BY <1>6 DEF CheckExiting
<1>7. CASE CheckEmpty(w)
  <2>1. CASE message_queue[service[w]] = <<>> BY <1>7, <2>1 DEF CheckEmpty
  <2>2. CASE message_queue[service[w]] # <<>> BY <1>7, <2>2 DEF CheckEmpty
  <2> QED BY <2>1, <2>2
<1>8. CASE Remark(w) BY <1>8 DEF Remark
<1>9. CASE Repush(w) BY <1>9 DEF Repush
<1>10. CASE SleepStep(w) BY <1>10 DEF SleepStep, Block, Sleep, Wake
<1>11. CASE KillService(w) \/ KillStep(w)
  BY <1>11 DEF KillService, KillStep, SetExisting, EraseService
<1>12. CASE SpuriousWakeup(w) BY <1>12 DEF SpuriousWakeup
<1> QED BY <1>1, <1>2, <1>3, <1>4, <1>5, <1>6, <1>7, <1>8, <1>9, <1>10, <1>11, <1>12
        DEF ServeStep

LEMMA UserKeepsLocals ==
  ASSUME TypeOK, NEW t \in Threads, NewService(t) \/ \E s \in Services : SendMessage(t, s)
  PROVE  LocalsSet'
<1> DEFINE Locals(u) == /\ SenderLocals(u)
                        /\ u \in Callers => CallerLocals(u)
                        /\ u \in Workers => WorkerLocals(u)
<1> SUFFICES ASSUME NEW u \in Threads PROVE Locals(u)'
  BY Domains DEF LocalsSet
<1>a. LocalTypes /\ LocalsSet BY DEF TypeOK
<1>b. sent < MaxMessages => sent + 1 \in Messages BY Counters DEF TypeOK, SharedTypes
<1> USE <1>a, Domains DEF LocalTypes, LocalsSet, SenderLocals, CallerLocals, WorkerLocals,
        Sending, Handling, Serving, UserCode, Goto, workerLocal, sendLocal
<1>1. CASE NewService(t) BY <1>1 DEF NewService
<1>2. CASE \E s \in Services : SendMessage(t, s)
  <2> PICK s \in Services : SendMessage(t, s) BY <1>2
  <2>1. CASE s \in service_map BY <1>b, <2>1 DEF SendMessage
  <2>2. CASE s \notin service_map BY <2>2 DEF SendMessage
  <2> QED BY <2>1, <2>2
<1> QED BY <1>1, <1>2

LEMMA SendKeepsTypes ==
  ASSUME TypeOK, NEW t \in Threads, SendStep(t)
  PROVE  SharedTypes' /\ LocalTypes'
<1>a. SharedTypes /\ LocalTypes /\ SenderLocals(t) BY DEF TypeOK, LocalsSet
<1>b. pc[t] \in Sending => target[t] \in Services
  BY <1>a DEF LocalTypes, SenderLocals
<1>c. pc[t] = "enqueue" => outgoing[t] \in Messages
  BY <1>a DEF LocalTypes, SenderLocals
<1>1. SharedTypes'
  <2> USE <1>a, <1>b DEF SharedTypes, Sending, Mark, registry, pool, sendLocal, history
  <2>1. CASE PushMessage(t) BY <1>c, <2>1 DEF PushMessage
  <2>2. CASE CheckAndMark(t) BY <2>2 DEF CheckAndMark
  <2>3. CASE PushGlobal(t) BY <2>3 DEF PushGlobal
  <2>4. CASE ReadSleepCount(t) \/ ReadQueueSize(t) \/ Signal(t)
    BY <2>4 DEF ReadSleepCount, ReadQueueSize, Signal
  <2> QED BY <2>1, <2>2, <2>3, <2>4 DEF SendStep
<1>2. LocalTypes'
  <2> USE <1>a DEF LocalTypes, Labels, UserCode, Goto, ReturnFromSend, workerLocal, sendLocal
  <2>1. CASE PushMessage(t) BY <2>1 DEF PushMessage
  <2>2. CASE CheckAndMark(t) BY <2>2 DEF CheckAndMark
  <2>3. CASE PushGlobal(t) BY <2>3 DEF PushGlobal
  <2>4. CASE ReadSleepCount(t)
    <3>1. sleep_count \in Int BY <1>a DEF SharedTypes
    <3>2. CASE sleep_count = 0 BY <2>4, <3>2 DEF ReadSleepCount
    <3>3. CASE sleep_count # 0 BY <2>4, <3>1, <3>3 DEF ReadSleepCount
    <3> QED BY <3>2, <3>3
  <2>5. CASE ReadQueueSize(t)
    <3>1. CASE Goto(t, "signal") /\ UNCHANGED <<target, seen>>
      BY <2>5, <3>1 DEF ReadQueueSize
    <3>2. CASE ReturnFromSend(t) BY <2>5, <3>2 DEF ReadQueueSize
    <3> QED BY <2>5, <3>1, <3>2 DEF ReadQueueSize
  <2>6. CASE Signal(t) BY <2>6 DEF Signal, Asleep
  <2> QED BY <2>1, <2>2, <2>3, <2>4, <2>5, <2>6 DEF SendStep
<1> QED BY <1>1, <1>2

LEMMA WorkerKeepsTypes ==
  ASSUME TypeOK, NEW w \in Workers,
         \/ ServeStep(w) \/ SleepStep(w) \/ KillService(w) \/ KillStep(w) \/ SpuriousWakeup(w)
  PROVE  SharedTypes' /\ LocalTypes'
<1>a. SharedTypes /\ LocalTypes /\ WorkerLocals(w) BY DEF TypeOK, LocalsSet
<1>b. pc[w] \in Serving \cup Handling => service[w] \in Services
  BY <1>a DEF LocalTypes, WorkerLocals
<1>c. pc[w] \in Handling => message[w] \in Messages
  BY <1>a DEF LocalTypes, WorkerLocals
<1>d. /\ global_service_queue # <<>> => Head(global_service_queue) \in Services
      /\ \A s \in Services :
           message_queue[s] # <<>> => Head(message_queue[s]) \in Messages
  BY <1>a DEF SharedTypes
<1>1. SharedTypes'
  <2> USE <1>a, <1>b DEF SharedTypes, Serving, Handling, Mark, registry, pool, history
  <2>1. CASE PopGlobal(w)
    <3>1. CASE global_service_queue = <<>> BY <2>1, <3>1 DEF PopGlobal
    <3>2. CASE global_service_queue # <<>>
      <4>1. Tail(global_service_queue) \in Seq(Services) BY <3>2
      <4> QED BY <2>1, <3>2, <4>1 DEF PopGlobal
    <3> QED BY <3>1, <3>2
  <2>2. CASE UnsetInGlobal(w) BY <2>2 DEF UnsetInGlobal
  <2>3. CASE ProcessNext(w)
    <3>1. service[w] \in Services BY <2>3 DEF ProcessNext
    <3>2. CASE message_queue[service[w]] = <<>> BY <2>3, <3>2 DEF ProcessNext
    <3>3. CASE message_queue[service[w]] # <<>>
      <4>1. Tail(message_queue[service[w]]) \in Seq(Messages) BY <3>1, <3>3
      <4> QED BY <2>3, <3>1, <3>3, <4>1 DEF ProcessNext
    <3> QED BY <3>2, <3>3
  <2>4. CASE FinishHandler(w) BY <1>c, <2>4 DEF FinishHandler
  <2>5. CASE EndBatch(w) \/ CheckExiting(w) \/ CheckEmpty(w)
    BY <2>5 DEF EndBatch, CheckExiting, CheckEmpty
  <2>6. CASE Remark(w) BY <2>6 DEF Remark
  <2>7. CASE Repush(w) BY <2>7 DEF Repush
  <2>8. CASE SleepStep(w) BY <2>8 DEF SleepStep, Block, Sleep, Wake
  <2>9. CASE KillService(w) \/ KillStep(w)
    BY <2>9 DEF KillService, KillStep, SetExisting, EraseService
  <2>10. CASE SpuriousWakeup(w) BY <2>10 DEF SpuriousWakeup
  <2> QED BY <2>1, <2>2, <2>3, <2>4, <2>5, <2>6, <2>7, <2>8, <2>9, <2>10 DEF ServeStep
<1>2. LocalTypes'
  <2> USE <1>a, <1>d DEF LocalTypes, Labels, Goto, LeaveService, workerLocal, sendLocal
  <2>1. CASE PopGlobal(w) BY <2>1 DEF PopGlobal
  <2>2. CASE UnsetInGlobal(w) BY <2>2 DEF UnsetInGlobal
  <2>3. CASE ProcessNext(w)
    <3>1. service[w] \in Services BY <1>b, <2>3 DEF ProcessNext, Serving
    <3>2. CASE message_queue[service[w]] = <<>> BY <2>3, <3>2 DEF ProcessNext
    <3>3. CASE message_queue[service[w]] # <<>> BY <2>3, <3>1, <3>3 DEF ProcessNext
    <3> QED BY <3>2, <3>3
  <2>4. CASE FinishHandler(w)
    <3>1. i' \in [Workers -> Nat] BY <2>4 DEF FinishHandler
    <3>2. message' \in [Workers -> Messages \cup {nullptr}] BY <2>4 DEF FinishHandler
    <3> QED BY <2>4, <3>1, <3>2 DEF FinishHandler
  <2>5. CASE EndBatch(w) \/ CheckExiting(w) \/ CheckEmpty(w)
    BY <2>5 DEF EndBatch, CheckExiting, CheckEmpty
  <2>6. CASE Remark(w) BY <2>6 DEF Remark
  <2>7. CASE Repush(w) BY <2>7 DEF Repush
  <2>8. CASE SleepStep(w) BY <2>8 DEF SleepStep, Block, Sleep, Wake
  <2>9. CASE KillService(w) \/ KillStep(w)
    BY <2>9 DEF KillService, KillStep, SetExisting, EraseService
  <2>10. CASE SpuriousWakeup(w) BY <2>10 DEF SpuriousWakeup
  <2> QED BY <2>1, <2>2, <2>3, <2>4, <2>5, <2>6, <2>7, <2>8, <2>9, <2>10 DEF ServeStep
<1> QED BY <1>1, <1>2

LEMMA UserKeepsTypes ==
  ASSUME TypeOK, NEW t \in Threads, NewService(t) \/ \E s \in Services : SendMessage(t, s)
  PROVE  SharedTypes' /\ LocalTypes'
<1> USE Counters DEF TypeOK, SharedTypes, LocalTypes, Labels, UserCode, Goto, registry, pool,
        workerLocal, sendLocal, history
<1>1. CASE NewService(t) BY <1>1 DEF NewService
<1>2. ASSUME NEW s \in Services, SendMessage(t, s)
      PROVE  SharedTypes' /\ LocalTypes'
  <2>1. SharedTypes' BY <1>2 DEF SendMessage
  <2>2. CASE s \in service_map
    <3>1. sent + 1 \in Messages BY <1>2 DEF SendMessage
    <3>2. LocalTypes' BY <1>2, <2>2, <3>1 DEF SendMessage
    <3> QED BY <2>1, <3>2
  <2>3. CASE s \notin service_map BY <1>2, <2>1, <2>3 DEF SendMessage
  <2> QED BY <2>2, <2>3
<1> QED BY <1>1, <1>2

LEMMA StepTypeOK ==
  ASSUME TypeOK, [Next]_vars
  PROVE  TypeOK'
<1>1. ASSUME NEW t \in Threads, NewService(t) \/ \E s \in Services : SendMessage(t, s)
      PROVE  TypeOK'
  BY <1>1, UserKeepsLocals, UserKeepsTypes DEF TypeOK
<1>2. ASSUME NEW t \in Threads, SendStep(t)
      PROVE  TypeOK'
  <2>1. LocalTypes /\ LocalsSet BY DEF TypeOK
  <2> QED BY <1>2, <2>1, SendKeepsLocals, SendKeepsTypes DEF TypeOK
<1>3. ASSUME NEW w \in Workers,
             \/ ServeStep(w) \/ SleepStep(w) \/ KillService(w) \/ KillStep(w) \/ SpuriousWakeup(w)
      PROVE  TypeOK'
  BY <1>3, WorkerKeepsLocals, WorkerKeepsTypes DEF TypeOK
<1>4. CASE UNCHANGED vars
  BY <1>4 DEF vars, registry, pool, workerLocal, sendLocal, history, TypeOK, SharedTypes, LocalTypes,
     LocalsSet, SenderLocals, CallerLocals, WorkerLocals
<1> QED BY <1>1, <1>2, <1>3, <1>4 DEF Next

(* Every variable keeps its type and no pointer that SendMessage, the      *)
(* handlers or the workers use is ever nullptr.                            *)
THEOREM TypeCorrect == Spec => []TypeOK
  BY InitTypeOK, StepTypeOK, PTL DEF Spec

------------------------------------------------------------------------------
(* One ticket per service.  Most steps neither touch the global queue or a *)
(* flag nor move a ticket; six of them do.                                 *)

LEMMA QuietSend ==
  ASSUME TypeOK, NEW t \in Threads,
         \/ PushMessage(t) \/ ReadSleepCount(t) \/ ReadQueueSize(t) \/ Signal(t)
         \/ CheckAndMark(t) /\ is_in_global_queue[target[t]]
         \/ NewService(t) \/ \E s \in Services : SendMessage(t, s),
         NEW s \in Services, NEW u \in Threads
  PROVE  Holds(u, s)' <=> Holds(u, s)
<1> USE Domains DEF TypeOK, LocalTypes, LocalsSet, CallerLocals, WorkerLocals, Holds, Goto,
        UserCode, workerLocal, sendLocal
<1>1. CASE PushMessage(t) BY <1>1 DEF PushMessage
<1>2. CASE ReadSleepCount(t) BY <1>2 DEF ReadSleepCount, ReturnFromSend
<1>3. CASE ReadQueueSize(t)
  <2>1. CASE Goto(t, "signal") /\ UNCHANGED <<target, seen>>
    BY <1>3, <2>1 DEF ReadQueueSize
  <2>2. CASE ReturnFromSend(t) BY <1>3, <2>2 DEF ReadQueueSize, ReturnFromSend
  <2> QED BY <1>3, <2>1, <2>2 DEF ReadQueueSize
<1>4. CASE Signal(t) BY <1>4 DEF Signal, Asleep
<1>5. CASE CheckAndMark(t) /\ is_in_global_queue[target[t]]
  BY <1>5 DEF CheckAndMark, ReturnFromSend
<1>6. CASE NewService(t) BY <1>6 DEF NewService
<1>7. CASE \E r \in Services : SendMessage(t, r) BY <1>7 DEF SendMessage
<1> QED BY <1>1, <1>2, <1>3, <1>4, <1>5, <1>6, <1>7

LEMMA QuietWorker ==
  ASSUME TypeOK, NEW w \in Workers,
         \/ ProcessNext(w) \/ FinishHandler(w) \/ EndBatch(w)
         \/ CheckExiting(w) \/ CheckEmpty(w)
         \/ PopGlobal(w) /\ global_service_queue = <<>>
         \/ Remark(w) /\ is_in_global_queue[service[w]]
         \/ SleepStep(w) \/ KillService(w) \/ KillStep(w) \/ SpuriousWakeup(w),
         NEW s \in Services, NEW u \in Threads
  PROVE  Holds(u, s)' <=> Holds(u, s)
<1> USE Domains DEF TypeOK, LocalTypes, LocalsSet, CallerLocals, Sending, Holds, Goto,
        LeaveService, workerLocal, sendLocal
<1>1. CASE ProcessNext(w) BY <1>1 DEF ProcessNext
<1>2. CASE FinishHandler(w) BY <1>2 DEF FinishHandler
<1>3. CASE EndBatch(w) BY <1>3 DEF EndBatch
<1>4. CASE CheckExiting(w)
  <2>1. CASE is_existing[service[w]]
    <3>1. LeaveService(w) /\ UNCHANGED target /\ pc[w] = "exiting"
      BY <1>4, <2>1 DEF CheckExiting
    <3> QED BY <3>1
  <2>2. CASE ~is_existing[service[w]] BY <1>4, <2>2 DEF CheckExiting
  <2> QED BY <2>1, <2>2
<1>5. CASE CheckEmpty(w)
  <2>1. CASE message_queue[service[w]] = <<>>
    <3>1. LeaveService(w) /\ UNCHANGED target /\ pc[w] = "empty"
      BY <1>5, <2>1 DEF CheckEmpty
    <3> QED BY <3>1
  <2>2. CASE message_queue[service[w]] # <<>>
    <3>1. Goto(w, "remark") /\ UNCHANGED <<service, target>> /\ pc[w] = "empty"
      BY <1>5, <2>2 DEF CheckEmpty
    <3> QED BY <3>1
  <2> QED BY <2>1, <2>2
<1>6. CASE PopGlobal(w) /\ global_service_queue = <<>> BY <1>6 DEF PopGlobal
<1>7. CASE Remark(w) /\ is_in_global_queue[service[w]]
  <2>1. LeaveService(w) /\ UNCHANGED target /\ pc[w] = "remark" BY <1>7 DEF Remark
  <2> QED BY <2>1
<1>8. CASE SleepStep(w) BY <1>8 DEF SleepStep, Block, Sleep, Wake
<1>9. CASE KillService(w) \/ KillStep(w)
  BY <1>9 DEF KillService, KillStep, SetExisting, EraseService
<1>10. CASE SpuriousWakeup(w) BY <1>10 DEF SpuriousWakeup
<1> QED BY <1>1, <1>2, <1>3, <1>4, <1>5, <1>6, <1>7, <1>8, <1>9, <1>10

(* A step that wins the flag of r: thread t becomes the holder.            *)
LEMMA TakeTicket ==
  ASSUME TypeOK, OneTicket, NEW t \in Threads,
         \/ CheckAndMark(t) /\ ~is_in_global_queue[target[t]]
         \/ t \in Workers /\ Remark(t) /\ ~is_in_global_queue[service[t]]
  PROVE  OneTicket'
<1> USE Domains DEF TypeOK, LocalTypes, LocalsSet, SenderLocals, CallerLocals, WorkerLocals,
        Sending, Serving, Goto, Mark, workerLocal, sendLocal
<1> DEFINE r == IF pc[t] = "mark" THEN target[t] ELSE service[t]
<1>1. /\ r \in Services /\ ~is_in_global_queue[r]
      /\ is_in_global_queue' = [is_in_global_queue EXCEPT ![r] = TRUE]
      /\ global_service_queue' = global_service_queue
  BY DEF CheckAndMark, Remark
<1>2. ASSUME NEW s \in Services, NEW u \in Threads
      PROVE  Holds(u, s)' <=> Holds(u, s) \/ (u = t /\ s = r)
  BY DEF CheckAndMark, Remark, Holds
<1>3. ASSUME NEW s \in Services PROVE Ticket(s)'
  <2>1. Places(s)' = Places(s) BY <1>1 DEF Places
  <2>2. is_in_global_queue \in [Services -> BOOLEAN] BY DEF TypeOK, SharedTypes
  <2>3. CASE s = r BY <1>1, <1>2, <2>1, <2>2, <2>3 DEF OneTicket, Ticket, Holders
  <2>4. CASE s # r BY <1>1, <1>2, <2>1, <2>2, <2>4 DEF OneTicket, Ticket, Holders
  <2> QED BY <2>3, <2>4
<1> QED BY <1>3 DEF OneTicket
LEMMA PlacesAfterPush ==
  ASSUME global_service_queue \in Seq(Services), NEW r \in Services, NEW s \in Services,
         global_service_queue' = Append(global_service_queue, r)
  PROVE  Places(s)' = IF s = r THEN Places(s) \cup {Len(global_service_queue) + 1}
                               ELSE Places(s)
  BY DEF Places

LEMMA PlacesAfterPop ==
  ASSUME global_service_queue \in Seq(Services), global_service_queue # <<>>,
         global_service_queue' = Tail(global_service_queue), NEW s \in Services
  PROVE  /\ \A n \in Places(s)' : n \in Nat /\ n >= 1 /\ n + 1 \in Places(s)
         /\ \A n \in Places(s) : n \in Nat /\ (n # 1 => n - 1 \in Places(s)')
         /\ 1 \in Places(s) <=> s = Head(global_service_queue)
  BY DEF Places

(* A step that pushes r: the holder's ticket becomes a place in the queue. *)
LEMMA QueueTicket ==
  ASSUME TypeOK, OneTicket, NEW t \in Threads,
         PushGlobal(t) \/ (t \in Workers /\ Repush(t))
  PROVE  OneTicket'
<1> USE Domains DEF TypeOK, LocalTypes, LocalsSet, SenderLocals, CallerLocals, WorkerLocals,
        Sending, Serving, Goto, LeaveService, workerLocal, sendLocal
<1> DEFINE r == IF pc[t] = "push" THEN target[t] ELSE service[t]
<1>1. /\ r \in Services /\ Holds(t, r)
      /\ global_service_queue' = Append(global_service_queue, r)
      /\ is_in_global_queue' = is_in_global_queue
  BY DEF PushGlobal, Repush, Holds
<1>2. ASSUME NEW s \in Services, NEW u \in Threads
      PROVE  Holds(u, s)' <=> Holds(u, s) /\ u # t
  BY DEF PushGlobal, Repush, Holds
<1>3. global_service_queue \in Seq(Services) BY DEF TypeOK, SharedTypes
<1>4. ASSUME NEW s \in Services PROVE Ticket(s)'
  <2>1. CASE s = r
    <3> HIDE DEF r
    <3>1. Places(s) = {} BY <1>1, <2>1 DEF OneTicket, Ticket, Holders
    <3>2. Places(s)' = {Len(global_service_queue) + 1}
      BY <1>1, <1>3, <2>1, <3>1, PlacesAfterPush
    <3>3. Holders(s)' = {} BY <1>1, <1>2, <2>1 DEF OneTicket, Ticket, Holders
    <3>4. is_in_global_queue[s] BY <1>1, <2>1 DEF OneTicket, Ticket, Holders
    <3> QED BY <1>1, <3>2, <3>3, <3>4 DEF Ticket
  <2>2. CASE s # r
    <3>1. Places(s)' = Places(s) BY <1>1, <1>3, <2>2, PlacesAfterPush
    <3>2. ~Holds(t, s) BY <1>1, <2>2 DEF Holds
    <3>3. Holders(s)' = Holders(s) BY <1>2, <3>2 DEF Holders
    <3>4. Ticket(s) BY DEF OneTicket
    <3> HIDE DEF r
    <3> QED BY <1>1, <3>1, <3>3, <3>4 DEF Ticket
  <2> QED BY <2>1, <2>2
<1> QED BY <1>4 DEF OneTicket

(* A worker pops r: the place becomes a ticket the worker holds.           *)
LEMMA PopTicket ==
  ASSUME TypeOK, OneTicket, NEW w \in Workers, PopGlobal(w), global_service_queue # <<>>
  PROVE  OneTicket'
<1> DEFINE r == Head(global_service_queue)
<1>1. /\ global_service_queue \in Seq(Services)
      /\ global_service_queue' = Tail(global_service_queue)
      /\ is_in_global_queue' = is_in_global_queue
  BY DEF PopGlobal, TypeOK, SharedTypes
<1>2. ASSUME NEW s \in Services, NEW u \in Threads
      PROVE  Holds(u, s)' <=> Holds(u, s) \/ (u = w /\ s = r)
  <2> USE Domains DEF PopGlobal, Holds, Goto, TypeOK, LocalTypes, LocalsSet, CallerLocals,
          Sending, sendLocal
  <2>1. CASE u = w BY <2>1
  <2>2. CASE u # w BY <2>2
  <2> QED BY <2>1, <2>2
<1>3. ASSUME NEW s \in Services PROVE Ticket(s)'
  <2> USE PlacesAfterPop, <1>1
  <2>1. \A m, n \in Places(s)' : m = n
    <3>1. \A m, n \in Places(s) : m = n BY DEF OneTicket, Ticket
    <3> QED BY <3>1
  <2>2. CASE s = r
    <3>1. 1 \in Places(s) BY <2>2
    <3>2. Holders(s) = {} /\ is_in_global_queue[s] BY <3>1 DEF OneTicket, Ticket
    <3>3. Holders(s)' = {w} BY <1>2, <2>2, <3>2, Domains DEF Holders
    <3>4. Places(s)' = {}
      <4>1. \A n \in Places(s) : n = 1 BY <3>1 DEF OneTicket, Ticket
      <4> QED BY <4>1
    <3> QED BY <3>2, <3>3, <3>4 DEF Ticket
  <2>3. CASE s # r
    <3>1. Places(s)' = {} <=> Places(s) = {} BY <2>3
    <3>2. Holders(s)' = Holders(s) BY <1>2, <2>3 DEF Holders
    <3> QED BY <2>1, <3>1, <3>2 DEF OneTicket, Ticket
  <2> QED BY <2>2, <2>3
<1> QED BY <1>3 DEF OneTicket

(* A worker clears the flag of the service it popped: the ticket is gone.  *)
LEMMA DropTicket ==
  ASSUME TypeOK, OneTicket, NEW w \in Workers, UnsetInGlobal(w)
  PROVE  OneTicket'
<1> DEFINE r == service[w]
<1>1. /\ r \in Services /\ Holds(w, r)
      /\ global_service_queue' = global_service_queue
      /\ is_in_global_queue' = [is_in_global_queue EXCEPT ![r] = FALSE]
      /\ is_in_global_queue \in [Services -> BOOLEAN]
  BY DEF UnsetInGlobal, Holds, TypeOK, SharedTypes, LocalTypes, LocalsSet, WorkerLocals, Serving
<1>2. ASSUME NEW s \in Services, NEW u \in Threads
      PROVE  Holds(u, s)' <=> Holds(u, s) /\ u # w
  BY Domains DEF UnsetInGlobal, Holds, Goto, TypeOK, LocalTypes, sendLocal
<1>3. ASSUME NEW s \in Services PROVE Ticket(s)'
  <2>1. Places(s)' = Places(s) BY <1>1 DEF Places
  <2>2. CASE s = r
    <3>1. Places(s) = {} BY <1>1, <2>2, Domains DEF OneTicket, Ticket, Holders
    <3>2. Holders(s)' = {} BY <1>1, <1>2, <2>2, Domains DEF OneTicket, Ticket, Holders
    <3> QED BY <1>1, <2>1, <2>2, <3>1, <3>2 DEF Ticket
  <2>3. CASE s # r
    <3>1. ~Holds(w, s) BY <1>1, <2>3 DEF Holds
    <3>2. Holders(s)' = Holders(s) BY <1>2, <3>1 DEF Holders
    <3> QED BY <1>1, <2>1, <2>3, <3>2 DEF OneTicket, Ticket
  <2> QED BY <2>2, <2>3
<1> QED BY <1>3 DEF OneTicket

(* A step that moves no ticket, touches no flag it has not found set, and  *)
(* leaves the global queue alone.                                          *)
LEMMA QuietKeepsTicket ==
  ASSUME OneTicket,
         global_service_queue' = global_service_queue,
         \A s \in Services : is_in_global_queue'[s] = is_in_global_queue[s],
         \A s \in Services, u \in Threads : Holds(u, s)' <=> Holds(u, s)
  PROVE  OneTicket'
  BY DEF OneTicket, Ticket, Places, Holders
LEMMA InitOneTicket == Init => OneTicket
<1> SUFFICES ASSUME Init, NEW s \in Services PROVE Ticket(s)
  BY DEF OneTicket
<1>1. Places(s) = {} BY DEF Init, Places
<1>2. Holders(s) = {} BY DEF Init, Holders, Holds
<1>3. is_in_global_queue[s] = FALSE BY DEF Init
<1> QED BY <1>1, <1>2, <1>3 DEF Ticket

LEMMA StepOneTicket ==
  ASSUME TypeOK, OneTicket, [Next]_vars
  PROVE  OneTicket'
<1>a. is_in_global_queue \in [Services -> BOOLEAN] BY DEF TypeOK, SharedTypes
<1>1. ASSUME NEW t \in Threads,
             \/ NewService(t) \/ (\E s \in Services : SendMessage(t, s)) \/ SendStep(t)
      PROVE  OneTicket'
  <2>1. CASE CheckAndMark(t) /\ ~is_in_global_queue[target[t]] BY <2>1, TakeTicket
  <2>2. CASE PushGlobal(t) BY <2>2, QueueTicket
  <2>3. CASE \/ PushMessage(t) \/ ReadSleepCount(t) \/ ReadQueueSize(t) \/ Signal(t)
             \/ NewService(t) \/ \E s \in Services : SendMessage(t, s)
    <3>1. UNCHANGED <<global_service_queue, is_in_global_queue>>
      BY <2>3 DEF PushMessage, ReadSleepCount, ReadQueueSize, Signal, NewService, SendMessage
    <3> QED BY <2>3, <3>1, QuietSend, QuietKeepsTicket
  <2>4. CASE CheckAndMark(t) /\ is_in_global_queue[target[t]]
    <3>1. target[t] \in Services
      BY <2>4 DEF CheckAndMark, TypeOK, LocalTypes, LocalsSet, SenderLocals, Sending
    <3>2. /\ global_service_queue' = global_service_queue
          /\ \A s \in Services : is_in_global_queue'[s] = is_in_global_queue[s]
      BY <1>a, <2>4, <3>1 DEF CheckAndMark, Mark
    <3> QED BY <2>4, <3>2, QuietSend, QuietKeepsTicket
  <2> QED BY <1>1, <2>1, <2>2, <2>3, <2>4 DEF SendStep
<1>2. ASSUME NEW w \in Workers,
             \/ ServeStep(w) \/ SleepStep(w) \/ KillService(w) \/ KillStep(w) \/ SpuriousWakeup(w)
      PROVE  OneTicket'
  <2>a. w \in Threads BY Domains
  <2>1. CASE PopGlobal(w) /\ global_service_queue # <<>> BY <2>1, PopTicket
  <2>2. CASE UnsetInGlobal(w) BY <2>2, DropTicket
  <2>3. CASE Remark(w) /\ ~is_in_global_queue[service[w]] BY <2>a, <2>3, TakeTicket
  <2>4. CASE Repush(w) BY <2>a, <2>4, QueueTicket
  <2>5. CASE \/ ProcessNext(w) \/ FinishHandler(w) \/ EndBatch(w)
             \/ CheckExiting(w) \/ CheckEmpty(w)
             \/ PopGlobal(w) /\ global_service_queue = <<>>
             \/ SleepStep(w) \/ KillService(w) \/ KillStep(w) \/ SpuriousWakeup(w)
    <3>1. UNCHANGED <<global_service_queue, is_in_global_queue>>
      BY <2>5 DEF ProcessNext, FinishHandler, EndBatch, CheckExiting, CheckEmpty, PopGlobal,
         SleepStep, Block, Sleep, Wake, KillService, KillStep, SetExisting, EraseService,
         SpuriousWakeup
    <3> QED BY <2>5, <3>1, QuietWorker, QuietKeepsTicket
  <2>6. CASE Remark(w) /\ is_in_global_queue[service[w]]
    <3>1. service[w] \in Services
      BY <2>6 DEF Remark, TypeOK, LocalTypes, LocalsSet, WorkerLocals, Serving
    <3>2. /\ global_service_queue' = global_service_queue
          /\ \A s \in Services : is_in_global_queue'[s] = is_in_global_queue[s]
      BY <1>a, <2>6, <3>1 DEF Remark, Mark
    <3> QED BY <2>6, <3>2, QuietWorker, QuietKeepsTicket
  <2> QED BY <1>2, <2>1, <2>2, <2>3, <2>4, <2>5, <2>6 DEF ServeStep
<1>3. CASE UNCHANGED vars
  BY <1>3, QuietKeepsTicket DEF vars, workerLocal, sendLocal, Holds
<1> QED BY <1>1, <1>2, <1>3 DEF Next

(* For any number of threads a service has at most one ticket, and has one *)
(* exactly while its flag is set.                                          *)
THEOREM TicketUnique == Spec => []OneTicket
  BY InitTypeOK, InitOneTicket, StepTypeOK, StepOneTicket, PTL DEF Spec
------------------------------------------------------------------------------
(* No stranded message.  An attended service stays attended as long as     *)
(* nothing in the definition is lost; what is lost in a step is replaced.  *)

LEMMA StaysAttended ==
  ASSUME NEW s \in Services, Attended(s),
         is_in_global_queue[s] => is_in_global_queue'[s],
         is_existing[s] => is_existing'[s],
         \A w \in Workers : service[w] = s => service'[w] = s,
         \A u \in Threads : pc[u] = "mark" /\ target[u] = s => pc'[u] = "mark" /\ target'[u] = s
  PROVE  Attended(s)'
  BY DEF Attended

LEMMA SendKeepsAttended ==
  ASSUME TypeOK, NoStrandedMessage, NEW t \in Threads,
         \/ NewService(t) \/ (\E s \in Services : SendMessage(t, s)) \/ SendStep(t)
  PROVE  NoStrandedMessage'
<1> SUFFICES ASSUME NEW s \in Services, message_queue'[s] # <<>>
             PROVE  Attended(s)'
  BY DEF NoStrandedMessage
<1>a. /\ LocalTypes /\ SenderLocals(t)
      /\ message_queue \in [Services -> Seq(Messages)]
      /\ is_in_global_queue \in [Services -> BOOLEAN]
  BY DEF TypeOK, SharedTypes, LocalsSet
<1>b. pc[t] \in Sending => target[t] \in Services
  BY <1>a DEF LocalTypes, SenderLocals
<1> USE <1>a DEF LocalTypes, Goto, workerLocal, sendLocal, registry
<1>1. CASE PushMessage(t)
  <2>1. CASE s = target[t] BY <1>1, <2>1 DEF PushMessage, Attended
  <2>2. CASE s # target[t]
    <3>1. Attended(s) BY <1>1, <2>2, <1>b DEF NoStrandedMessage, PushMessage, Sending
    <3> QED BY <1>1, <2>2, <3>1, StaysAttended DEF PushMessage
  <2> QED BY <2>1, <2>2
<1>2. CASE CheckAndMark(t)
  <2>1. Attended(s) BY <1>2 DEF NoStrandedMessage, CheckAndMark
  <2>2. CASE s = target[t] BY <1>2, <2>2 DEF CheckAndMark, Mark, Attended
  <2>3. CASE s # target[t]
    <3>1. is_in_global_queue'[s] = is_in_global_queue[s]
      BY <1>2, <2>3 DEF CheckAndMark, Mark
    <3>2. \A u \in Threads : pc[u] = "mark" /\ target[u] = s => pc'[u] = "mark" /\ target'[u] = s
      BY <1>2, <2>3 DEF CheckAndMark, ReturnFromSend
    <3> QED BY <1>2, <2>1, <3>1, <3>2, StaysAttended DEF CheckAndMark
  <2> QED BY <2>2, <2>3
<1>3. CASE \/ PushGlobal(t) \/ ReadSleepCount(t) \/ ReadQueueSize(t) \/ Signal(t)
           \/ NewService(t) \/ \E r \in Services : SendMessage(t, r)
  <2>1. UNCHANGED <<message_queue, is_in_global_queue, is_existing, service>>
    BY <1>3 DEF PushGlobal, ReadSleepCount, ReadQueueSize, Signal, NewService, SendMessage
  <2>2. \A u \in Threads : pc[u] = "mark" /\ target[u] = s => pc'[u] = "mark" /\ target'[u] = s
    <3>1. CASE PushGlobal(t) BY <3>1 DEF PushGlobal
    <3>2. CASE ReadSleepCount(t) BY <3>2 DEF ReadSleepCount, ReturnFromSend
    <3>3. CASE ReadQueueSize(t) BY <3>3 DEF ReadQueueSize, ReturnFromSend
    <3>4. CASE Signal(t) BY <3>4 DEF Signal, Asleep
    <3>5. CASE NewService(t) BY <3>5 DEF NewService
    <3>6. CASE \E r \in Services : SendMessage(t, r) BY <3>6 DEF SendMessage, UserCode
    <3> QED BY <1>3, <3>1, <3>2, <3>3, <3>4, <3>5, <3>6
  <2>3. Attended(s) BY <2>1 DEF NoStrandedMessage
  <2> QED BY <2>1, <2>2, <2>3, StaysAttended
<1> QED BY <1>1, <1>2, <1>3 DEF SendStep

LEMMA WorkerKeepsAttended ==
  ASSUME TypeOK, OneTicket, NoStrandedMessage, NEW w \in Workers,
         \/ ServeStep(w) \/ SleepStep(w) \/ KillService(w) \/ KillStep(w) \/ SpuriousWakeup(w)
  PROVE  NoStrandedMessage'
<1> SUFFICES ASSUME NEW s \in Services, message_queue'[s] # <<>>
             PROVE  Attended(s)'
  BY DEF NoStrandedMessage
<1>a. /\ LocalTypes /\ WorkerLocals(w)
      /\ message_queue \in [Services -> Seq(Messages)]
      /\ is_in_global_queue \in [Services -> BOOLEAN]
      /\ is_existing \in [Services -> BOOLEAN]
  BY DEF TypeOK, SharedTypes, LocalsSet
<1>b. pc[w] \in Serving \cup Handling => service[w] \in Services
  BY <1>a DEF LocalTypes, WorkerLocals
<1>c. w \in Threads BY Domains
<1> USE <1>a, <1>c DEF LocalTypes, Goto, workerLocal, sendLocal
<1>1. pc[w] # "mark" /\ UNCHANGED target /\ \A u \in Threads : pc[u] = "mark" => pc'[u] = "mark"
  <2>1. CASE ServeStep(w)
    BY <2>1 DEF ServeStep, PopGlobal, UnsetInGlobal, ProcessNext, FinishHandler, EndBatch,
       CheckExiting, CheckEmpty, Remark, Repush, LeaveService
  <2>2. CASE SleepStep(w) \/ KillService(w) \/ KillStep(w) \/ SpuriousWakeup(w)
    BY <2>2 DEF SleepStep, Block, Sleep, Wake, KillService, KillStep, SetExisting, EraseService,
       SpuriousWakeup
  <2> QED BY <2>1, <2>2
<1>2. CASE PopGlobal(w)
  <2>1. Attended(s) BY <1>2 DEF NoStrandedMessage, PopGlobal
  <2>2. service[w] # s BY <1>2, Domains DEF PopGlobal, WorkerLocals, Serving, Handling, Sending
  <2>3. \A v \in Workers : service[v] = s => service'[v] = s
    BY <1>2, <2>2 DEF PopGlobal
  <2> QED BY <1>1, <1>2, <2>1, <2>3, StaysAttended DEF PopGlobal
<1>3. CASE UnsetInGlobal(w)
  <2>1. Attended(s) BY <1>3 DEF NoStrandedMessage, UnsetInGlobal
  <2>2. CASE s = service[w] BY <1>3, <2>2 DEF UnsetInGlobal, Attended
  <2>3. CASE s # service[w]
    BY <1>1, <1>3, <2>1, <2>3, StaysAttended DEF UnsetInGlobal
  <2> QED BY <2>2, <2>3
<1>4. CASE ProcessNext(w)
  <2>1. message_queue[s] # <<>>
    BY <1>4, <1>b DEF ProcessNext, Serving
  <2>2. Attended(s) BY <2>1 DEF NoStrandedMessage
  <2> QED BY <1>1, <1>4, <2>2, StaysAttended DEF ProcessNext
<1>5. CASE FinishHandler(w) \/ EndBatch(w)
  <2>1. Attended(s) BY <1>5 DEF NoStrandedMessage, FinishHandler, EndBatch
  <2> QED BY <1>1, <1>5, <2>1, StaysAttended DEF FinishHandler, EndBatch
<1>6. CASE CheckExiting(w)
  <2>1. Attended(s) BY <1>6 DEF NoStrandedMessage, CheckExiting
  <2>2. UNCHANGED <<is_in_global_queue, is_existing>> BY <1>6 DEF CheckExiting
  <2>3. CASE is_existing[s] BY <2>2, <2>3 DEF Attended
  <2>4. CASE ~is_existing[s]
    <3>1. \A v \in Workers : service[v] = s => service'[v] = s
      BY <1>6, <2>4 DEF CheckExiting, LeaveService
    <3> QED BY <1>1, <2>1, <2>2, <3>1, StaysAttended
  <2> QED BY <2>3, <2>4
<1>7. CASE CheckEmpty(w)
  <2>1. message_queue[s] # <<>> /\ Attended(s) BY <1>7 DEF NoStrandedMessage, CheckEmpty
  <2>2. \A v \in Workers : service[v] = s => service'[v] = s
    BY <1>7, <2>1 DEF CheckEmpty, LeaveService
  <2> QED BY <1>1, <1>7, <2>1, <2>2, StaysAttended DEF CheckEmpty
<1>8. CASE Remark(w)
  <2>1. Attended(s) BY <1>8 DEF NoStrandedMessage, Remark
  <2>2. CASE s = service[w] BY <1>8, <2>2 DEF Remark, Mark, Attended
  <2>3. CASE s # service[w]
    <3>1. is_in_global_queue'[s] = is_in_global_queue[s] BY <1>8, <2>3 DEF Remark, Mark
    <3>2. \A v \in Workers : service[v] = s => service'[v] = s
      BY <1>8, <2>3 DEF Remark, LeaveService
    <3> QED BY <1>1, <1>8, <2>1, <3>1, <3>2, StaysAttended DEF Remark
  <2> QED BY <2>2, <2>3
<1>9. CASE Repush(w)
  <2>1. Attended(s) BY <1>9 DEF NoStrandedMessage, Repush
  <2>2. UNCHANGED <<is_in_global_queue, is_existing>> BY <1>9 DEF Repush
  <2>3. CASE s = service[w]
    <3>1. is_in_global_queue[s]
      BY <1>9, <2>3 DEF OneTicket, Ticket, Holders, Holds, Repush
    <3> QED BY <2>2, <3>1 DEF Attended
  <2>4. CASE s # service[w]
    <3>1. \A v \in Workers : service[v] = s => service'[v] = s
      BY <1>9, <2>4 DEF Repush, LeaveService
    <3> QED BY <1>1, <2>1, <2>2, <3>1, StaysAttended
  <2> QED BY <2>3, <2>4
<1>10. CASE SleepStep(w) \/ KillService(w) \/ KillStep(w) \/ SpuriousWakeup(w)
  <2>1. /\ UNCHANGED <<message_queue, is_in_global_queue, service>>
        /\ is_existing[s] => is_existing'[s]
    BY <1>10 DEF SleepStep, Block, Sleep, Wake, KillService, KillStep, SetExisting,
       EraseService, SpuriousWakeup
  <2>2. Attended(s) BY <2>1 DEF NoStrandedMessage
  <2> QED BY <1>1, <2>1, <2>2, StaysAttended
<1> QED BY <1>2, <1>3, <1>4, <1>5, <1>6, <1>7, <1>8, <1>9, <1>10 DEF ServeStep

LEMMA InitNoStranded == Init => NoStrandedMessage
  BY DEF Init, NoStrandedMessage

LEMMA StepNoStranded ==
  ASSUME TypeOK, OneTicket, NoStrandedMessage, [Next]_vars
  PROVE  NoStrandedMessage'
<1>1. CASE UNCHANGED vars
  BY <1>1 DEF vars, workerLocal, sendLocal, NoStrandedMessage, Attended
<1> QED BY <1>1, SendKeepsAttended, WorkerKeepsAttended DEF Next

(* For any number of threads, a message in a queue is attended.            *)
THEOREM NothingStranded == Spec => []NoStrandedMessage
  BY InitTypeOK, InitOneTicket, InitNoStranded, StepTypeOK, StepOneTicket, StepNoStranded,
     PTL DEF Spec
------------------------------------------------------------------------------
(* The sleep counter.                                                      *)

LEMMA CountedFinite == IsFiniteSet(Counted)
<1>1. IsFiniteSet(Workers) BY SchedulerAssumption, FS_Interval DEF Workers
<1> QED BY <1>1, FS_Subset DEF Counted

LEMMA InitSleepCount == Init => SleepCountExact
<1> SUFFICES ASSUME Init PROVE SleepCountExact OBVIOUS
<1>1. Counted = {} BY Domains DEF Init, Counted
<1> QED BY <1>1, FS_EmptySet DEF Init, SleepCountExact

LEMMA StepSleepCount ==
  ASSUME TypeOK, SleepCountExact, [Next]_vars
  PROVE  SleepCountExact'
<1> USE Domains DEF TypeOK, LocalTypes, Goto
<1>1. ASSUME NEW w \in Workers, Block(w) PROVE SleepCountExact'
  <2>1. Counted' = Counted \cup {w} /\ w \notin Counted BY <1>1 DEF Block, Counted
  <2>2. Cardinality(Counted') = Cardinality(Counted) + 1
    BY <2>1, CountedFinite, FS_AddElement
  <2> QED BY <1>1, <2>2 DEF Block, SleepCountExact
<1>2. ASSUME NEW w \in Workers, Wake(w) PROVE SleepCountExact'
  <2>1. Counted' = Counted \ {w} /\ w \in Counted BY <1>2 DEF Wake, Counted
  <2>2. Cardinality(Counted') = Cardinality(Counted) - 1
    BY <2>1, CountedFinite, FS_RemoveElement
  <2> QED BY <1>2, <2>2 DEF Wake, SleepCountExact
<1>3. ASSUME UNCHANGED sleep_count, Counted' = Counted PROVE SleepCountExact'
  BY <1>3 DEF SleepCountExact
<1>4. ASSUME NEW w \in Workers, Sleep(w) \/ SpuriousWakeup(w) PROVE SleepCountExact'
  BY <1>3, <1>4 DEF Sleep, SpuriousWakeup, Counted, pool
<1>5. ASSUME NEW w \in Workers, ServeStep(w) \/ KillService(w) \/ KillStep(w)
      PROVE  SleepCountExact'
  <2>1. UNCHANGED sleep_count
    BY <1>5 DEF ServeStep, PopGlobal, UnsetInGlobal, ProcessNext, FinishHandler, EndBatch,
       CheckExiting, CheckEmpty, Remark, Repush, KillService, KillStep, SetExisting,
       EraseService, pool
  <2>2. Counted' = Counted
    BY <1>5 DEF ServeStep, PopGlobal, UnsetInGlobal, ProcessNext, FinishHandler, EndBatch,
       CheckExiting, CheckEmpty, Remark, Repush, LeaveService, KillService, KillStep,
       SetExisting, EraseService, Counted
  <2> QED BY <1>3, <2>1, <2>2
<1>6. ASSUME NEW t \in Threads,
             \/ NewService(t) \/ (\E s \in Services : SendMessage(t, s)) \/ SendStep(t)
      PROVE  SleepCountExact'
  <2>1. UNCHANGED sleep_count
    BY <1>6 DEF SendStep, NewService, SendMessage, PushMessage, CheckAndMark, PushGlobal,
       ReadSleepCount, ReadQueueSize, Signal, pool
  <2>2. Counted' = Counted
    <3>1. CASE Signal(t) BY <3>1 DEF Signal, Asleep, Counted, UserCode
    <3>2. CASE NewService(t) \/ (\E s \in Services : SendMessage(t, s))
      BY <3>2 DEF NewService, SendMessage, Counted, UserCode
    <3>3. CASE PushMessage(t) \/ CheckAndMark(t) \/ PushGlobal(t) \/ ReadSleepCount(t)
      BY <3>3 DEF PushMessage, CheckAndMark, PushGlobal, ReadSleepCount, ReturnFromSend,
         Counted, UserCode
    <3>4. CASE ReadQueueSize(t)
      <4>1. pc[t] = "size" /\ (Goto(t, "signal") \/ Goto(t, resume[t]))
        BY <3>4 DEF ReadQueueSize, ReturnFromSend
      <4> QED BY <4>1 DEF Counted, UserCode
    <3> QED BY <1>6, <3>1, <3>2, <3>3, <3>4 DEF SendStep
  <2> QED BY <1>3, <2>1, <2>2
<1>7. CASE UNCHANGED vars BY <1>3, <1>7 DEF vars, pool, Counted
<1> QED BY <1>1, <1>2, <1>4, <1>5, <1>6, <1>7 DEF Next, SleepStep

(* sleep_count_ is exact whatever the size of the pool.                    *)
THEOREM SleepCounted == Spec => []SleepCountExact
  BY InitTypeOK, InitSleepCount, StepTypeOK, StepSleepCount, PTL DEF Spec
==============================================================================
