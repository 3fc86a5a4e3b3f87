---------------------------- MODULE MailboxProofs ----------------------------
(***************************************************************************)
(* Proofs, for every number of workers, callers, services and messages,    *)
(* that a message is in one place only and that the scheduler implements   *)
(* the mailboxes of module Mailboxes.                                      *)
(***************************************************************************)
EXTENDS SchedulerProofs, MailboxLemmas

USE DEF work, Front, Popped, HasMessages

(* What the threads of S have in their local f, and that no two have it.   *)
Local(f, S) == {f[t] : t \in S} \ {nullptr}
Single(f, S) == \A t, u \in S : f[t] = f[u] /\ f[t] # nullptr => t = u

(* OnePlace as a statement about values.                                   *)
Apart(queues, hand, active, done) ==
  /\ Single(hand, Threads)
  /\ Single(active, Workers)
  /\ \A s \in Services : Distinct(queues[s])
  /\ \A r, s \in Services : r # s => Elements(queues[r]) \cap Elements(queues[s]) = {}
  /\ \A s \in Services : Elements(queues[s]) \cap (Local(hand, Threads) \cup Local(active, Workers) \cup done) = {}
  /\ Local(hand, Threads) \cap (Local(active, Workers) \cup done) = {}
  /\ Local(active, Workers) \cap done = {}

(* Only allocated messages are anywhere, so a new one is nowhere yet.      *)
Allocated ==
  /\ \A t \in Threads : outgoing[t] # nullptr => outgoing[t] <= sent
  /\ \A w \in Workers : message[w] # nullptr => message[w] <= sent
  /\ \A s \in Services : \A m \in Elements(message_queue[s]) : m <= sent
  /\ \A m \in handled : m <= sent

(* OnePlace, with Allocated, is inductive.                                 *)
MailInv == TypeOK /\ Apart(message_queue, outgoing, message, handled) /\ Allocated

LEMMA ApartIsOnePlace == OnePlace <=> Apart(message_queue, outgoing, message, handled)
  BY DEF OnePlace, Apart, Queued, InHand, Handled, Elements, Distinct, Local, Single

------------------------------------------------------------------------------
(* The steps that move a message.                                          *)

LEMMA InitMail == Init => MailInv
<1> SUFFICES ASSUME Init PROVE Apart(message_queue, outgoing, message, handled) /\ Allocated
  BY InitTypeOK DEF MailInv
<1>1. \A s \in Services : Elements(message_queue[s]) = {} /\ Distinct(message_queue[s])
  BY DEF Init, Elements, Distinct
<1>2. Local(outgoing, Threads) = {} /\ Local(message, Workers) = {} /\ handled = {}
  BY DEF Init, Local
<1>3. Single(outgoing, Threads) /\ Single(message, Workers) BY DEF Init, Single
<1>4. Apart(message_queue, outgoing, message, handled) BY <1>1, <1>2, <1>3 DEF Apart
<1>5. Allocated BY <1>1, <1>2 DEF Init, Allocated
<1> QED BY <1>4, <1>5

(* A message is allocated: nobody has it yet.                              *)
LEMMA SendKeepsMail ==
  ASSUME MailInv, NEW t \in Threads, NEW s \in Services, SendMessage(t, s)
  PROVE  Apart(message_queue, outgoing, message, handled)' /\ Allocated'
<1> USE DEF MailInv, TypeOK, SharedTypes, LocalTypes, LocalsSet
<1>1. /\ sent' = sent + 1 /\ sent + 1 \in Messages /\ sent \in Nat
      /\ UNCHANGED <<message_queue, message, handled>>
  BY Counters DEF SendMessage, workerLocal
<1>2. /\ \A u \in Threads : outgoing[u] # sent + 1
      /\ sent + 1 \notin Local(message, Workers) \cup handled
      /\ \A r \in Services : sent + 1 \notin Elements(message_queue[r])
  BY <1>1, Domains DEF Allocated, Local, Messages
<1>3. \/ outgoing' = outgoing
      \/ outgoing' = [outgoing EXCEPT ![t] = sent + 1]
  BY Domains DEF SendMessage, UserCode, SenderLocals, Sending
<1>4. Local(outgoing', Threads) \subseteq Local(outgoing, Threads) \cup {sent + 1}
  BY <1>3 DEF Local
<1>5. Single(outgoing', Threads)
  <2>1. Single(outgoing, Threads) BY DEF Apart
  <2>2. CASE outgoing' = outgoing BY <2>1, <2>2
  <2>3. CASE outgoing' = [outgoing EXCEPT ![t] = sent + 1]
    <3>1. DOMAIN outgoing = Threads OBVIOUS
    <3> HIDE DEF MailInv, TypeOK
    <3> QED BY <1>2, <2>1, <2>3, <3>1 DEF Single
  <2> QED BY <1>3, <2>2, <2>3
<1>6. Apart(message_queue', outgoing', message', handled')
  BY <1>1, <1>2, <1>4, <1>5 DEF Apart
<1>7. Allocated'
  <2>1. \A m \in Messages : m <= sent => m <= sent + 1 BY <1>1 DEF Messages
  <2>2. \A u \in Threads : outgoing'[u] = sent + 1 \/ outgoing'[u] = outgoing[u] BY <1>3
  <2>3. \A r \in Services : Elements(message_queue[r]) \subseteq Messages BY DEF Elements
  <2>4. ASSUME NEW u \in Threads, outgoing'[u] # nullptr PROVE outgoing'[u] <= sent + 1
    <3>1. CASE outgoing'[u] = sent + 1 BY <1>1, <3>1
    <3>2. CASE outgoing'[u] = outgoing[u]
      <4>1. outgoing[u] \in Messages /\ outgoing[u] <= sent BY <2>4, <3>2 DEF Allocated
      <4> QED BY <2>1, <3>2, <4>1
    <3> QED BY <2>2, <3>1, <3>2
  <2>5. \A w \in Workers : message[w] # nullptr => message[w] <= sent + 1
    BY <2>1 DEF Allocated
  <2>6. \A r \in Services : \A m \in Elements(message_queue[r]) : m <= sent + 1
    BY <2>1, <2>3 DEF Allocated
  <2>7. \A m \in handled : m <= sent + 1 BY <2>1 DEF Allocated
  <2> QED BY <1>1, <2>4, <2>5, <2>6, <2>7 DEF Allocated
<1> QED BY <1>6, <1>7

(* The sender puts its message into a queue that does not have it.         *)
LEMMA PushKeepsMail ==
  ASSUME MailInv, NEW t \in Threads, PushMessage(t)
  PROVE  Apart(message_queue, outgoing, message, handled)' /\ Allocated'
<1> USE DEF MailInv, TypeOK, SharedTypes, LocalTypes, LocalsSet
<1> PICK s \in Services, m \in Messages : s = target[t] /\ m = outgoing[t]
  BY Domains DEF PushMessage, SenderLocals, Sending
<1>1. /\ m # nullptr
      /\ message_queue' = [message_queue EXCEPT ![s] = Append(@, m)]
      /\ outgoing' = [outgoing EXCEPT ![t] = nullptr]
      /\ UNCHANGED <<message, handled, sent>>
  BY Domains DEF PushMessage, workerLocal, history
<1>2. m \in Local(outgoing, Threads) BY <1>1 DEF Local
<1>3. /\ Distinct(message_queue'[s])
      /\ Elements(message_queue'[s]) = Elements(message_queue[s]) \cup {m}
      /\ \A r \in Services \ {s} : message_queue'[r] = message_queue[r]
  <2>1. message_queue[s] \in Seq(Messages) /\ message_queue'[s] = Append(message_queue[s], m) BY <1>1
  <2>2. Distinct(message_queue[s]) /\ m \notin Elements(message_queue[s]) BY <1>2 DEF Apart
  <2> QED BY <1>1, <2>1, <2>2, AppendDistinct
<1>4. Local(outgoing', Threads) = Local(outgoing, Threads) \ {m} /\ Single(outgoing', Threads)
  BY <1>1 DEF Local, Apart, Single
<1> HIDE DEF TypeOK
<1>5. Apart(message_queue', outgoing', message', handled')
  <2> HIDE DEF MailInv
  <2>1. Apart(message_queue, outgoing, message, handled) BY DEF MailInv
  <2>2. \A r \in Services : Distinct(message_queue'[r])
    BY <1>3, <2>1 DEF Apart
  <2>3. ASSUME NEW p \in Services, NEW r \in Services, p # r
        PROVE  Elements(message_queue'[p]) \cap Elements(message_queue'[r]) = {}
    <3>1. Elements(message_queue[p]) \cap Elements(message_queue[r]) = {}
          /\ m \notin Elements(message_queue[p]) /\ m \notin Elements(message_queue[r])
      BY <1>2, <2>1, <2>3 DEF Apart
    <3>2. CASE p = s BY <1>3, <2>3, <3>1, <3>2
    <3>3. CASE r = s BY <1>3, <2>3, <3>1, <3>3
    <3> QED BY <1>3, <3>1, <3>2, <3>3
  <2>4. ASSUME NEW r \in Services
        PROVE  Elements(message_queue'[r])
                 \cap (Local(outgoing', Threads) \cup Local(message', Workers) \cup handled') = {}
    <3>1. /\ Elements(message_queue[r])
                \cap (Local(outgoing, Threads) \cup Local(message, Workers) \cup handled) = {}
          /\ m \notin Local(message, Workers) \cup handled
      BY <1>2, <2>1 DEF Apart
    <3>2. Local(message', Workers) = Local(message, Workers) /\ handled' = handled BY <1>1
    <3>3. Elements(message_queue'[r]) \subseteq Elements(message_queue[r]) \cup {m} BY <1>3
    <3> QED BY <1>4, <3>1, <3>2, <3>3
  <2> QED BY <1>1, <1>4, <2>1, <2>2, <2>3, <2>4 DEF Apart
<1>6. Allocated'
  <2>1. m <= sent BY <1>1 DEF Allocated
  <2> QED BY <1>1, <1>3, <2>1 DEF Allocated
<1> QED BY <1>5, <1>6

(* A worker takes the head of a queue in hand.                             *)
LEMMA TakeKeepsMail ==
  ASSUME MailInv, NEW w \in Workers, ProcessNext(w), message_queue[service[w]] # <<>>
  PROVE  Apart(message_queue, outgoing, message, handled)' /\ Allocated'
<1> USE DEF MailInv, TypeOK, SharedTypes, LocalTypes, LocalsSet
<1> PICK s \in Services : s = service[w]
  BY Domains DEF ProcessNext, WorkerLocals, Serving
<1> PICK m \in Messages : m = Head(message_queue[s])
  OBVIOUS
<1>1. /\ message[w] = nullptr /\ m # nullptr
      /\ message_queue' = [message_queue EXCEPT ![s] = Tail(@)]
      /\ message' = [message EXCEPT ![w] = m]
      /\ UNCHANGED <<outgoing, handled, sent>>
  BY Domains DEF ProcessNext, WorkerLocals, Serving, Handling, Sending, sendLocal, history
<1>2. /\ m \in Elements(message_queue[s])
      /\ Distinct(message_queue'[s])
      /\ Elements(message_queue'[s]) = Elements(message_queue[s]) \ {m}
      /\ \A r \in Services \ {s} : message_queue'[r] = message_queue[r]
  <2>1. message_queue[s] \in Seq(Messages) /\ message_queue'[s] = Tail(message_queue[s]) BY <1>1
  <2>2. Distinct(message_queue[s]) BY DEF Apart
  <2> QED BY <1>1, <2>1, <2>2, TailDistinct
<1>3. Local(message', Workers) = Local(message, Workers) \cup {m} /\ m \notin Local(message, Workers)
  BY <1>1, <1>2 DEF Local, Apart
<1>4. Single(message', Workers)
  <2>1. \A u \in Workers : message[u] # m BY <1>1, <1>3 DEF Local
  <2> QED BY <1>1, <2>1 DEF Apart, Single
<1> HIDE DEF TypeOK
<1>5. Apart(message_queue', outgoing', message', handled')
  <2> HIDE DEF MailInv
  <2>1. Apart(message_queue, outgoing, message, handled) BY DEF MailInv
  <2>2. \A r \in Services : Distinct(message_queue'[r])
    BY <1>2, <2>1 DEF Apart
  <2>3. \A r \in Services : Elements(message_queue'[r]) \subseteq Elements(message_queue[r])
    BY <1>2
  <2>4. \A p, r \in Services : p # r => Elements(message_queue'[p]) \cap Elements(message_queue'[r]) = {}
    BY <2>1, <2>3 DEF Apart
  <2>5. ASSUME NEW r \in Services
        PROVE  Elements(message_queue'[r])
                 \cap (Local(outgoing', Threads) \cup Local(message', Workers) \cup handled') = {}
    <3>1. /\ Elements(message_queue[r])
                \cap (Local(outgoing, Threads) \cup Local(message, Workers) \cup handled) = {}
          /\ r # s => m \notin Elements(message_queue[r])
      BY <1>2, <2>1 DEF Apart
    <3>2. Local(outgoing', Threads) = Local(outgoing, Threads) /\ handled' = handled BY <1>1
    <3>3. m \notin Elements(message_queue'[r]) BY <1>2, <3>1
    <3> QED BY <1>3, <2>3, <3>1, <3>2, <3>3
  <2>6. /\ Local(outgoing', Threads) \cap (Local(message', Workers) \cup handled') = {}
        /\ Local(message', Workers) \cap handled' = {}
    <3>1. Local(outgoing', Threads) = Local(outgoing, Threads) /\ handled' = handled BY <1>1
    <3>2. m \notin Local(outgoing, Threads) \cup handled BY <1>2, <2>1 DEF Apart
    <3> QED BY <1>3, <2>1, <3>1, <3>2 DEF Apart
  <2> QED BY <1>1, <1>4, <2>1, <2>2, <2>4, <2>5, <2>6 DEF Apart
<1>6. Allocated'
  <2>1. m <= sent BY <1>2 DEF Allocated
  <2> QED BY <1>1, <1>2, <2>1 DEF Allocated, TypeOK
<1> QED BY <1>5, <1>6

(* The handler returns.                                                    *)
LEMMA FinishKeepsMail ==
  ASSUME MailInv, NEW w \in Workers, FinishHandler(w)
  PROVE  Apart(message_queue, outgoing, message, handled)' /\ Allocated'
<1> USE DEF MailInv, TypeOK, SharedTypes, LocalTypes, LocalsSet
<1>1. /\ message[w] # nullptr
      /\ handled' = handled \cup {message[w]}
      /\ message' = [message EXCEPT ![w] = nullptr]
      /\ UNCHANGED <<message_queue, outgoing, sent>>
  BY DEF FinishHandler, WorkerLocals, Handling, sendLocal
<1>2. /\ message[w] \in Local(message, Workers)
      /\ Local(message', Workers) = Local(message, Workers) \ {message[w]}
      /\ Single(message', Workers)
  BY <1>1 DEF Local, Single, Apart
<1>3. Apart(message_queue', outgoing', message', handled')
  <2>1. Apart(message_queue, outgoing, message, handled) OBVIOUS
  <2>2. PICK m : m = message[w] OBVIOUS
  <2>3. m \notin Local(outgoing, Threads) /\ \A s \in Services : m \notin Elements(message_queue[s])
    BY <1>2, <2>1, <2>2 DEF Apart
  <2> HIDE DEF MailInv, TypeOK
  <2>4. /\ message_queue' = message_queue /\ outgoing' = outgoing
        /\ Local(message', Workers) = Local(message, Workers) \ {m}
        /\ handled' = handled \cup {m}
    BY <1>1, <1>2, <2>2
  <2> QED BY <1>2, <2>1, <2>3, <2>4 DEF Apart
<1>4. Allocated' BY <1>1 DEF Allocated
<1> QED BY <1>3, <1>4
------------------------------------------------------------------------------
(* The other steps leave every message where it is.                        *)

places == <<message_queue, outgoing, message, handled>>

(* A worker that handles a message stays with its service.                 *)
Quiet ==
  /\ UNCHANGED <<places, sent>>
  /\ \A w \in Workers : message[w] # nullptr => service'[w] = service[w]

LEMMA OtherSteps ==
  ASSUME TypeOK, [Next]_vars
  PROVE  \/ \E t \in Threads, s \in Services : SendMessage(t, s)
         \/ \E t \in Threads : PushMessage(t)
         \/ \E w \in Workers : ProcessNext(w) /\ message_queue[service[w]] # <<>>
         \/ \E w \in Workers : FinishHandler(w)
         \/ Quiet
<1> USE DEF Quiet, places, workerLocal, sendLocal, history
<1>1. CASE UNCHANGED vars BY <1>1 DEF vars
<1>2. ASSUME NEW t \in Threads,
             \/ NewService(t) \/ CheckAndMark(t) \/ PushGlobal(t) \/ ReadSleepCount(t)
             \/ ReadQueueSize(t) \/ Signal(t)
      PROVE  Quiet
  BY <1>2 DEF NewService, CheckAndMark, PushGlobal, ReadSleepCount, ReadQueueSize, Signal
<1>3. ASSUME NEW w \in Workers, PopGlobal(w) \/ CheckExiting(w) \/ CheckEmpty(w) \/ Remark(w) \/ Repush(w)
      PROVE  Quiet
  <2>1. UNCHANGED <<places, sent>>
    BY <1>3 DEF PopGlobal, CheckExiting, CheckEmpty, Remark, Repush
  <2>2. message[w] = nullptr
    BY <1>3 DEF PopGlobal, CheckExiting, CheckEmpty, Remark, Repush, TypeOK, LocalsSet, WorkerLocals,
       Handling, Sending
  <2>3. \A v \in Workers \ {w} : service'[v] = service[v]
    BY <1>3 DEF PopGlobal, CheckExiting, CheckEmpty, Remark, Repush, LeaveService, TypeOK, LocalTypes
  <2> QED BY <2>1, <2>2, <2>3
<1>4. ASSUME NEW w \in Workers,
             \/ UnsetInGlobal(w) \/ EndBatch(w) \/ SleepStep(w) \/ KillService(w) \/ KillStep(w)
             \/ SpuriousWakeup(w)
      PROVE  Quiet
  BY <1>4 DEF UnsetInGlobal, EndBatch, SleepStep, Block, Sleep, Wake, KillService, KillStep,
     SetExisting, EraseService, SpuriousWakeup
<1>5. ASSUME NEW w \in Workers, ProcessNext(w), message_queue[service[w]] = <<>>
      PROVE  Quiet
  BY <1>5 DEF ProcessNext
<1> HIDE DEF Quiet, workerLocal, sendLocal, history
<1>6. CASE \E t \in Threads :
             NewService(t) \/ (\E s \in Services : SendMessage(t, s)) \/ SendStep(t)
  BY <1>2, <1>6 DEF SendStep
<1>7. ASSUME NEW w \in Workers,
             ServeStep(w) \/ SleepStep(w) \/ KillService(w) \/ KillStep(w) \/ SpuriousWakeup(w)
      PROVE  (ProcessNext(w) /\ message_queue[service[w]] # <<>>) \/ FinishHandler(w) \/ Quiet
  <2>1. CASE ProcessNext(w)
    <3>1. CASE message_queue[service[w]] = <<>> BY <1>5, <2>1, <3>1
    <3> QED BY <2>1, <3>1
  <2>2. CASE PopGlobal(w) \/ CheckExiting(w) \/ CheckEmpty(w) \/ Remark(w) \/ Repush(w)
    BY <1>3, <2>2
  <2>3. CASE \/ UnsetInGlobal(w) \/ EndBatch(w) \/ SleepStep(w) \/ KillService(w) \/ KillStep(w)
             \/ SpuriousWakeup(w)
    BY <1>4, <2>3
  <2> QED BY <1>7, <2>1, <2>2, <2>3 DEF ServeStep
<1> QED BY <1>1, <1>6, <1>7 DEF Next

LEMMA StepMail == MailInv /\ [Next]_vars => MailInv'
<1> SUFFICES ASSUME MailInv, [Next]_vars
             PROVE  Apart(message_queue, outgoing, message, handled)' /\ Allocated'
  BY StepTypeOK DEF MailInv
<1>1. CASE Quiet BY <1>1 DEF Quiet, places, MailInv, Allocated
<1> QED BY <1>1, OtherSteps, SendKeepsMail, PushKeepsMail, TakeKeepsMail, FinishKeepsMail DEF MailInv

(* For any number of threads a message is in one place only, and once.     *)
THEOREM MessageInOnePlace == Spec => []OnePlace
<1>1. MailInv => OnePlace BY ApartIsOnePlace DEF MailInv
<1> QED BY InitMail, StepMail, <1>1, PTL DEF Spec

------------------------------------------------------------------------------
(* The refinement: every step is a step of Mailboxes or moves no message.  *)

(* The refinement mapping's value of Mailboxes!running.                    *)
running == {<<service[w], message[w]>> : w \in {v \in Workers : message[v] # nullptr}}

(* Whoever has a message of Mailboxes!Active in hand.                      *)
LEMMA ActiveIsLocal == {r[2] : r \in running} = Local(message, Workers)
<1>1. ASSUME NEW m \in {r[2] : r \in running} PROVE m \in Local(message, Workers)
  <2>1. PICK r \in running : m = r[2] OBVIOUS
  <2>2. PICK w \in Workers : message[w] # nullptr /\ r = <<service[w], message[w]>>
    BY DEF running
  <2> QED BY <2>1, <2>2 DEF Local
<1>2. ASSUME NEW m \in Local(message, Workers) PROVE m \in {r[2] : r \in running}
  <2>1. PICK w \in Workers : message[w] = m /\ m # nullptr BY DEF Local
  <2>2. <<service[w], m>> \in running BY <2>1 DEF running
  <2>3. <<service[w], m>>[2] = m OBVIOUS
  <2> QED BY <2>2, <2>3
<1> QED BY <1>1, <1>2

LEMMA PushRefines ==
  ASSUME MailInv, NEW t \in Threads, PushMessage(t)
  PROVE  Mail!MailboxNext
<1> USE DEF MailInv, TypeOK, SharedTypes, LocalTypes, LocalsSet
<1> PICK s \in Services, m \in Messages : s = target[t] /\ m = outgoing[t]
  BY Domains DEF PushMessage, SenderLocals, Sending
<1>1. /\ message_queue' = [message_queue EXCEPT ![s] = Append(@, m)]
      /\ running' = running /\ handled' = handled
  BY DEF PushMessage, workerLocal, history, running
<1>2. m \in Local(outgoing, Threads) BY Domains DEF Local
<1>3. m \notin Mail!Accepted
  <2>1. /\ m \notin handled /\ m \notin Local(message, Workers)
        /\ \A r \in Services : m \notin Elements(message_queue[r])
    BY <1>2 DEF Apart
  <2> QED BY <2>1, ActiveIsLocal DEF Mail!Accepted, Mail!Active, Mail!Waiting, running, Elements
<1>4. Mail!Post(s, m) BY <1>1, <1>3 DEF Mail!Post, running
<1> QED BY <1>4 DEF Mail!MailboxNext

LEMMA TakeRefines ==
  ASSUME MailInv, NEW w \in Workers, ProcessNext(w), message_queue[service[w]] # <<>>
  PROVE  Mail!MailboxNext
<1> USE DEF MailInv, TypeOK, SharedTypes, LocalTypes, LocalsSet
<1> PICK s \in Services : s = service[w]
  BY Domains DEF ProcessNext, WorkerLocals, Serving
<1> PICK m \in Messages : m = Head(message_queue[s])
  OBVIOUS
<1>1. /\ message[w] = nullptr /\ m # nullptr
      /\ message_queue' = [message_queue EXCEPT ![s] = Tail(@)]
      /\ message' = [message EXCEPT ![w] = m]
      /\ UNCHANGED <<service, handled>>
  BY Domains DEF ProcessNext, WorkerLocals, Serving, Handling, Sending, sendLocal, history
<1>2. running' = running \cup {<<s, m>>} BY <1>1 DEF running
<1>3. Mail!Start(s) BY <1>1, <1>2 DEF Mail!Start, running
<1> QED BY <1>3 DEF Mail!MailboxNext

LEMMA FinishRefines ==
  ASSUME MailInv, NEW w \in Workers, FinishHandler(w)
  PROVE  Mail!MailboxNext
<1> USE DEF MailInv, TypeOK, SharedTypes, LocalTypes, LocalsSet
<1> PICK s \in Services, m \in Messages : s = service[w] /\ m = message[w]
  BY Domains DEF FinishHandler, WorkerLocals, Handling
<1>1. /\ m # nullptr
      /\ handled' = handled \cup {m}
      /\ message' = [message EXCEPT ![w] = nullptr]
      /\ UNCHANGED <<message_queue, service>>
  BY DEF FinishHandler, WorkerLocals, Handling, sendLocal
<1>2. \A v \in Workers \ {w} : message[v] # m
  BY <1>1 DEF Apart, Single
<1>3. running' = running \ {<<s, m>>} /\ <<s, m>> \in running
  BY <1>1, <1>2 DEF running
<1>4. Mail!Finish(s, m) BY <1>1, <1>3 DEF Mail!Finish, running
<1> QED BY <1>4 DEF Mail!MailboxNext

(* The scheduler implements the mailboxes: each accepted message starts    *)
(* once, in the order of arrival, and ends once.                           *)
THEOREM SchedulerImplementsMailboxes == Spec => ImplementsMailboxes
<1>1. Init => Mail!MailboxInit
  BY DEF Init, Mail!MailboxInit
<1>2. MailInv /\ [Next]_vars => [Mail!MailboxNext]_(Mail!mailboxVars)
  <2> SUFFICES ASSUME MailInv, [Next]_vars
               PROVE  Mail!MailboxNext \/ UNCHANGED <<message_queue, running, handled>>
    BY DEF running, Mail!mailboxVars
  <2>1. ASSUME NEW t \in Threads, NEW s \in Services, SendMessage(t, s)
        PROVE  UNCHANGED <<message_queue, running, handled>>
    BY <2>1 DEF SendMessage, workerLocal, running
  <2>2. CASE Quiet BY <2>2 DEF Quiet, places, running
  <2> QED BY <2>1, <2>2, OtherSteps, PushRefines, TakeRefines, FinishRefines DEF MailInv
<1> QED BY InitMail, StepMail, <1>1, <1>2, PTL DEF Spec, ImplementsMailboxes, Mail!MailboxSpec
==============================================================================
