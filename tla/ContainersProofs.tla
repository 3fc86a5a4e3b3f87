-------------------------- MODULE ContainersProofs --------------------------
(***************************************************************************)
(* Proofs, for any number of threads, values and keys, that the locks of   *)
(* the shared containers keep threads apart and that the methods are       *)
(* atomic as module AtomicContainers says.                                 *)
(***************************************************************************)
EXTENDS ContainersProperties, TLAPS

Names == {"none", "Push", "PopFront", "IsEmpty", "GetSize", "GetValue", "SetValue",
          "SetCurrentAndGetPrevious", "Find", "Emplace", "Erase", "AddService", "Output", "BelowLevel"}

QueueNames == {"Push", "PopFront", "IsEmpty", "GetSize"}

(* What the methods without a result of their own hand back when they write. *)
NothingToAnswer ==
  \A t \in Threads :
    pc[t] = "write" /\ call[t].name \in {"Push", "SetValue", "Emplace", "Output"} => tmp[t] = <<nullptr>>

(* The inductive invariant: the types need ReadIsFresh, because the queue  *)
(* must not be empty when it is popped, and ReadIsFresh needs the locks.   *)
Inv == TypeOK /\ LocksHeld /\ ReadIsFresh /\ NothingToAnswer

USE DEF Atomic!noCall, Atomic!Truth, Unlocked

LEMMA NullIsNoThread == nullptr \notin Threads /\ nullptr \notin Values
  BY ContainersAssumption

(* What the name of a method says of its arguments and its object.         *)
LEMMA CallFields ==
  ASSUME subject \in DOMAIN Methods, NEW c \in Methods[subject] \cup {Atomic!noCall}
  PROVE  /\ c.name \in Names
         /\ c.name = "none" <=> c = Atomic!noCall
         /\ c # Atomic!noCall => c \in Atomic!Calls
         /\ c.name \in {"Push", "SetValue", "SetCurrentAndGetPrevious", "Emplace", "AddService", "Output"}
              => c.value \in Values
         /\ c.name \in {"Find", "Emplace", "Erase"} => c.key \in Keys
         /\ c # Atomic!noCall => (subject = "queue" <=> c.name \in QueueNames)
<1> DEFINE Typed(S) == \A d \in S :
             /\ d.name \in Names \ {"none"}
             /\ d.name \in {"Push", "SetValue", "SetCurrentAndGetPrevious", "Emplace", "AddService", "Output"}
                  => d.value \in Values
             /\ d.name \in {"Find", "Emplace", "Erase"} => d.key \in Keys
<1>1. Typed(Atomic!QueueCalls)
      /\ \A d \in Atomic!QueueCalls : d.name \in QueueNames
  BY DEF Atomic!QueueCalls, Names, QueueNames
<1>2. Typed(Atomic!ObjectCalls)
      /\ \A d \in Atomic!ObjectCalls : d.name \notin QueueNames
  BY DEF Atomic!ObjectCalls, Names, QueueNames
<1>3. Typed(Atomic!MapCalls)
      /\ \A d \in Atomic!MapCalls : d.name \notin QueueNames
  BY DEF Atomic!MapCalls, Names, QueueNames
<1>4. Typed(Atomic!ServiceMapCalls)
      /\ \A d \in Atomic!ServiceMapCalls : d.name \notin QueueNames
  BY DEF Atomic!ServiceMapCalls, Names, QueueNames
<1>5. Typed(Atomic!LoggerCalls)
      /\ \A d \in Atomic!LoggerCalls : d.name \notin QueueNames
  BY DEF Atomic!LoggerCalls, Names, QueueNames
<1>6. CASE c = Atomic!noCall BY <1>6 DEF Names
<1>7. CASE c \in Methods[subject]
  <2> HIDE DEF Atomic!noCall
  <2>1. \/ subject = "queue" /\ c \in Atomic!QueueCalls
        \/ subject # "queue" /\ c \in Atomic!ObjectCalls
        \/ subject # "queue" /\ c \in Atomic!MapCalls
        \/ subject # "queue" /\ c \in Atomic!ServiceMapCalls
        \/ subject # "queue" /\ c \in Atomic!LoggerCalls
    BY <1>7 DEF Methods
  <2>2. Atomic!noCall.name = "none" BY DEF Atomic!noCall
  <2>3. c \in Atomic!Calls BY <2>1 DEF Atomic!Calls
  <2> QED BY <1>1, <1>2, <1>3, <1>4, <1>5, <2>1, <2>2, <2>3 DEF Names
<1> QED BY <1>6, <1>7

------------------------------------------------------------------------------
(* The invariant, one lemma per action.                                    *)

LEMMA InitInv == Init => Inv
<1> SUFFICES ASSUME Init PROVE Inv OBVIOUS
<1>1. TypeOK BY NullIsNoThread DEF Init, TypeOK, Labels, In
<1>2. LocksHeld BY NullIsNoThread DEF Init, LocksHeld, Inside, In
<1>3. ReadIsFresh /\ NothingToAnswer BY DEF Init, ReadIsFresh, NothingToAnswer
<1> QED BY <1>1, <1>2, <1>3 DEF Inv

LEMMA InvokeKeepsInv ==
  ASSUME Inv, NEW t \in Threads, Invoke(t)
  PROVE  Inv'
<1>1. PICK c \in Methods[subject] :
        /\ call' = [call EXCEPT ![t] = c]
        /\ pc' = [pc EXCEPT ![t] = IF c.name \in Unlocked THEN "read" ELSE "lock"]
  BY DEF Invoke, Goto
<1>2. c.name \in Names \ {"none"}
  BY CallFields DEF Inv, TypeOK, Names, Atomic!QueueCalls, Atomic!ObjectCalls, Atomic!MapCalls,
     Atomic!ServiceMapCalls, Atomic!LoggerCalls, Methods
<1>3. UNCHANGED <<subject, data, locks, tmp>> /\ pc[t] = "idle" BY DEF Invoke
<1>4. TypeOK'
  BY <1>1, <1>2, <1>3 DEF Inv, TypeOK, data, locks, Labels, In, Names
<1>5. LocksHeld'
  BY <1>1, <1>2, <1>3 DEF Inv, TypeOK, LocksHeld, Inside, locks, In, Names
<1>6. ReadIsFresh' /\ NothingToAnswer'
  BY <1>1, <1>3 DEF Inv, TypeOK, ReadIsFresh, Fresh, NothingToAnswer, data, In
<1> QED BY <1>4, <1>5, <1>6 DEF Inv

LEMMA LockKeepsInv ==
  ASSUME Inv, NEW t \in Threads, Lock(t)
  PROVE  Inv'
<1> USE NullIsNoThread
<1>1. TypeOK' BY DEF Inv, TypeOK, Lock, LockRead, LockWrite, Goto, data, Labels, In
<1>2. LocksHeld'
  <2>1. CASE In(t, "Find")
    BY <2>1 DEF Inv, TypeOK, LocksHeld, Inside, Lock, LockRead, Goto, In
  <2>2. CASE ~In(t, "Find")
    BY <2>2 DEF Inv, TypeOK, LocksHeld, Inside, Lock, LockWrite, Goto, In
  <2> QED BY <2>1, <2>2
<1>3. ReadIsFresh' /\ NothingToAnswer'
  BY DEF Inv, TypeOK, ReadIsFresh, Fresh, NothingToAnswer, Lock, Goto, data, In
<1> QED BY <1>1, <1>2, <1>3 DEF Inv

LEMMA UnlockKeepsInv ==
  ASSUME Inv, NEW t \in Threads, Unlock(t) \/ Return(t)
  PROVE  Inv'
<1> USE NullIsNoThread
<1>1. /\ pc' = [pc EXCEPT ![t] = "idle"]
      /\ call' = [call EXCEPT ![t] = Atomic!noCall]
      /\ tmp' = [tmp EXCEPT ![t] = <<>>]
      /\ UNCHANGED <<subject, data>>
  BY DEF Unlock, Return, Goto
<1>2. \/ pc[t] = "unlock" /\ readers' = readers \ {t} /\ writer' = IF writer = t THEN nullptr ELSE writer
      \/ pc[t] = "return" /\ UNCHANGED locks
  BY DEF Unlock, Return, Released
<1>3. /\ pc'[t] = "idle" /\ call'[t] = Atomic!noCall /\ tmp'[t] = <<>>
      /\ \A u \in Threads \ {t} : pc'[u] = pc[u] /\ call'[u] = call[u] /\ tmp'[u] = tmp[u]
  BY <1>1 DEF Inv, TypeOK
<1>4. TypeOK'
  <2> USE DEF Inv, TypeOK
  <2>1. readers' \in SUBSET Threads /\ writer' \in Threads \cup {nullptr}
    BY <1>2 DEF locks
  <2>2. ASSUME NEW u \in Threads
        PROVE  /\ pc'[u] = "idle" <=> In(u, "none")'
               /\ pc'[u] \in {"write", "unlock", "return"} <=> tmp'[u] # <<>>
               /\ pc'[u] = "write" => call'[u].name \in Writers
               /\ pc'[u] = "lock" => call'[u].name \notin Unlocked
               /\ pc'[u] = "return" => call'[u].name \in Unlocked
    BY <1>3 DEF In
  <2> QED BY <1>1, <2>1, <2>2 DEF data, Labels
<1>5. LocksHeld'
  <2>1. Inside(t)' = FALSE BY <1>3 DEF Inside
  <2>2. \A u \in Threads \ {t} : Inside(u)' = Inside(u) /\ In(u, "Find")' = In(u, "Find")
    BY <1>3 DEF Inside, In
  <2>3. t \notin readers' /\ writer' # t
    BY <1>2 DEF Inv, TypeOK, LocksHeld, Inside, locks
  <2>4. \A u \in Threads \ {t} : (writer' = u <=> writer = u) /\ (u \in readers' <=> u \in readers)
    BY <1>2 DEF locks
  <2>5. writer' # nullptr => readers' = {}
    BY <1>2 DEF Inv, LocksHeld, locks
  <2> HIDE DEF Inside, In
  <2> QED BY <2>1, <2>2, <2>3, <2>4, <2>5 DEF Inv, LocksHeld
<1>6. ReadIsFresh' /\ NothingToAnswer'
  <2> SUFFICES ASSUME NEW u \in Threads, pc'[u] = "write"
               PROVE  /\ Fresh(u)'
                      /\ call'[u].name \in {"Push", "SetValue", "Emplace", "Output"} => tmp'[u] = <<nullptr>>
    BY DEF ReadIsFresh, NothingToAnswer
  <2>1. u # t BY <1>3
  <2> QED BY <1>1, <1>3, <2>1 DEF Inv, ReadIsFresh, Fresh, NothingToAnswer, data, In
<1> QED BY <1>4, <1>5, <1>6 DEF Inv

(* The first look: the data stay, the local result is set.                 *)
LEMMA ReadKeepsInv ==
  ASSUME Inv, NEW t \in Threads, Read(t)
  PROVE  Inv'
<1>1. \A value : \A to \in {"write", "unlock", "return"} : Looked(t, value, to) =>
        /\ pc[t] = "read"
        /\ tmp' = [tmp EXCEPT ![t] = <<value>>]
        /\ tmp'[t] = <<value>>
        /\ pc' = [pc EXCEPT ![t] = to]
        /\ pc'[t] = to
        /\ UNCHANGED <<subject, data, locks, call>>
  BY DEF Looked, Result, Goto, Inv, TypeOK
<1> DEFINE Looks == /\ pc[t] = "read"
                    /\ tmp' = [tmp EXCEPT ![t] = tmp'[t]]
                    /\ tmp'[t] # <<>>
                    /\ pc' = [pc EXCEPT ![t] = pc'[t]]
                    /\ UNCHANGED <<subject, data, locks, call>>
<1>2. Looks
  <2>1. ASSUME NEW value, NEW to \in Labels, Looked(t, value, to) PROVE Looks
    BY <2>1 DEF Looked, Result, Goto, Inv, TypeOK
  <2>2. ASSUME NEW to \in Labels, Looked(t, object, to) PROVE Looks
    BY <2>2 DEF Looked, Result, Goto, Inv, TypeOK
  <2>3. ASSUME Looked(t, Atomic!Truth(map[call[t].key] # nullptr), "write") PROVE Looks
    BY <2>3 DEF Looked, Result, Goto, Inv, TypeOK
  <2> HIDE DEF Looks, Atomic!Truth
  <2>4. CASE ReadFront(t) BY <2>1, <2>4 DEF ReadFront, Labels
  <2>5. CASE ReadEmpty(t) \/ Lookup(t) \/ AssignId(t)
    BY <2>1, <2>5 DEF ReadEmpty, Lookup, AssignId, Labels
  <2>6. CASE ReadSize(t) \/ ReadLevel(t) BY <2>1, <2>6 DEF ReadSize, ReadLevel, Labels
  <2>7. CASE ReadValue(t) BY <2>2, <2>7 DEF ReadValue, Labels
  <2>8. CASE GoWrite(t) BY <2>1, <2>3, <2>8 DEF GoWrite, Labels
  <2> QED BY <2>4, <2>5, <2>6, <2>7, <2>8 DEF Read
<1>3. \/ call[t].name \in Writers /\ pc'[t] \in {"write", "unlock"}
      \/ call[t].name \in Unlocked /\ pc'[t] = "return"
      \/ call[t].name \notin Writers \cup Unlocked /\ pc'[t] = "unlock"
  <2>1. CASE ReadFront(t) BY <1>1, <2>1 DEF ReadFront, In, Writers
  <2>2. CASE ReadEmpty(t) \/ Lookup(t) \/ AssignId(t)
    BY <1>1, <2>2 DEF ReadEmpty, Lookup, AssignId, In, Writers
  <2>3. CASE ReadSize(t) \/ ReadLevel(t) BY <1>1, <2>3 DEF ReadSize, ReadLevel, In
  <2>4. CASE ReadValue(t) BY <1>1, <2>4 DEF ReadValue, In, Writers
  <2>5. CASE GoWrite(t) BY <1>1, <2>5 DEF GoWrite, In, Writers
  <2> QED BY <2>1, <2>2, <2>3, <2>4, <2>5 DEF Read
<1>4. TypeOK'
  BY <1>2, <1>3 DEF Inv, TypeOK, data, locks, Labels, In, Writers
<1>5. LocksHeld'
  BY <1>2, <1>3 DEF Inv, TypeOK, LocksHeld, Inside, locks, In, Writers
<1>6. ReadIsFresh' /\ NothingToAnswer'
  <2> SUFFICES ASSUME NEW u \in Threads, pc'[u] = "write"
               PROVE  /\ Fresh(u)'
                      /\ call[u].name \in {"Push", "SetValue", "Emplace", "Output"} => tmp'[u] = <<nullptr>>
    BY <1>2 DEF ReadIsFresh, NothingToAnswer
  <2>1. CASE u # t
    BY <1>2, <2>1 DEF Inv, TypeOK, ReadIsFresh, Fresh, NothingToAnswer, data, In
  <2>2. CASE u = t
    <3> USE <1>1, <2>2 DEF Fresh, In, data
    <3>1. CASE ReadFront(t) BY <3>1 DEF ReadFront
    <3>2. CASE ReadEmpty(t) \/ ReadSize(t) \/ Lookup(t) \/ ReadLevel(t)
      BY <3>2 DEF ReadEmpty, ReadSize, Lookup, ReadLevel
    <3>3. CASE ReadValue(t) BY <3>3 DEF ReadValue
    <3>4. CASE AssignId(t) BY <3>4 DEF AssignId
    <3>5. CASE GoWrite(t) BY <3>5 DEF GoWrite
    <3> QED BY <3>1, <3>2, <3>3, <3>4, <3>5 DEF Read
  <2> QED BY <2>1, <2>2
<1> QED BY <1>4, <1>5, <1>6 DEF Inv

(* Nobody else is inside while data are written.                           *)
LEMMA Alone ==
  ASSUME TypeOK, LocksHeld, NEW t \in Threads, NEW u \in Threads, t # u,
         pc[t] = "write", pc[u] \in {"read", "write"}
  PROVE  call[u].name \in Unlocked
BY NullIsNoThread DEF TypeOK, LocksHeld, Inside, In, Writers

LEMMA WriteKeepsInv ==
  ASSUME Inv, NEW t \in Threads, Write(t)
  PROVE  Inv'
<1>1. /\ pc[t] = "write"
      /\ pc' = [pc EXCEPT ![t] = "unlock"]
      /\ UNCHANGED <<subject, locks, call, tmp>>
  BY DEF Write, WriteQueue, WriteObject, WriteMap, WriteService, WriteLine, Written, Goto
<1>2. call[t] \in Methods[subject] \cup {Atomic!noCall} BY DEF Inv, TypeOK
<1>3. /\ queue' \in Seq(Values)
      /\ object' \in Values
      /\ map' \in [Keys -> Values \cup {nullptr}]
      /\ auto_increment_id' \in Nat
      /\ console' \in Seq(Values)
      /\ file' \in Seq(Values)
  <2> USE <1>1, <1>2, CallFields DEF Inv, TypeOK, In
  <2>1. CASE WriteQueue(t)
    <3>1. CASE In(t, "Push") /\ queue' = Append(queue, call[t].value)
      BY <2>1, <3>1 DEF WriteQueue
    <3>2. CASE In(t, "PopFront") /\ queue' = Tail(queue)
      <4>1. queue # <<>> BY <3>2 DEF ReadIsFresh, Fresh
      <4> QED BY <2>1, <3>2, <4>1 DEF WriteQueue
    <3> QED BY <2>1, <3>1, <3>2 DEF WriteQueue
  <2>2. CASE WriteObject(t) BY <2>2 DEF WriteObject
  <2>3. CASE WriteMap(t) BY <2>3 DEF WriteMap, Atomic!Emplaced
  <2>4. CASE WriteService(t)
    <3>1. tmp[t][1] = auto_increment_id BY <2>4 DEF WriteService, ReadIsFresh, Fresh
    <3>2. CASE auto_increment_id \in Keys
      BY <2>4, <3>1, <3>2 DEF WriteService, Atomic!Emplaced
    <3>3. CASE auto_increment_id \notin Keys
      <4>1. map' = map BY <2>4, <3>1, <3>3 DEF WriteService, Atomic!Emplaced
      <4> QED BY <2>4, <4>1 DEF WriteService
    <3> QED BY <3>2, <3>3
  <2>5. CASE WriteLine(t) BY <2>5 DEF WriteLine
  <2> QED BY <2>1, <2>2, <2>3, <2>4, <2>5 DEF Write
<1>4. TypeOK'
  BY <1>1, <1>3 DEF Inv, TypeOK, locks, Labels, In
<1>5. LocksHeld'
  BY <1>1 DEF Inv, TypeOK, LocksHeld, Inside, locks, In
<1>6. ReadIsFresh' /\ NothingToAnswer'
  <2>1. ASSUME NEW u \in Threads, pc'[u] = "write" PROVE FALSE
    <3>1. u # t /\ pc[u] = "write" BY <1>1, <2>1 DEF Inv, TypeOK
    <3>2. call[u].name \in Unlocked /\ call[u].name \in Writers
      BY <1>1, <3>1, Alone DEF Inv, TypeOK
    <3> QED BY <3>2 DEF In, Writers
  <2> QED BY <2>1 DEF ReadIsFresh, NothingToAnswer
<1> QED BY <1>4, <1>5, <1>6 DEF Inv

LEMMA StepInv == Inv /\ [Next]_vars => Inv'
<1> SUFFICES ASSUME Inv, [Next]_vars PROVE Inv' OBVIOUS
<1>1. CASE UNCHANGED vars
  BY <1>1 DEF Inv, TypeOK, LocksHeld, Inside, ReadIsFresh, Fresh, NothingToAnswer,
     vars, data, locks, In
<1> QED
  BY <1>1, InvokeKeepsInv, LockKeepsInv, ReadKeepsInv, WriteKeepsInv, UnlockKeepsInv DEF Next

(* Every variable keeps its type, and each step of a method finds the local *)
(* result it needs; that PopFront never copies the front of an empty queue *)
(* is part of it.                                                          *)
THEOREM ContainersTypes == Spec => []TypeOK
<1>1. Inv => TypeOK BY DEF Inv
<1> QED BY InitInv, StepInv, <1>1, PTL DEF Spec

(* The locks are held exactly in the critical sections.                    *)
THEOREM LocksCorrect == Spec => []LocksHeld
<1>1. Inv => LocksHeld BY DEF Inv
<1> QED BY InitInv, StepInv, <1>1, PTL DEF Spec

(* No two threads are at the data while one of them writes.                *)
THEOREM NoDataRace == Spec => []RaceFree
<1>1. Inv => RaceFree BY Alone DEF Inv, RaceFree
<1> QED BY InitInv, StepInv, <1>1, PTL DEF Spec

(* What a method read is still so when it writes.                          *)
THEOREM ReadsStayFresh == Spec => []ReadIsFresh
<1>1. Inv => ReadIsFresh BY DEF Inv
<1> QED BY InitInv, StepInv, <1>1, PTL DEF Spec

------------------------------------------------------------------------------
(* Every step is a step of AtomicContainers or leaves its variables alone. *)

(* Where a call has taken effect.                                         *)
Ended == {"unlock", "return"}

(* The refinement mapping's value of AtomicContainers!answer.              *)
answer == [t \in Threads |-> IF pc[t] \in Ended THEN tmp[t] ELSE <<>>]
abstract == <<queue, object, map, auto_increment_id, console, file, call, answer>>

(* A step that leaves data and calls alone and gives no answer stutters.   *)
LEMMA NoAnswer ==
  ASSUME Inv, NEW t \in Threads, UNCHANGED <<data, call>>,
         \A u \in Threads \ {t} : pc'[u] = pc[u] /\ tmp'[u] = tmp[u],
         pc[t] \notin Ended, pc'[t] \notin Ended
  PROVE  UNCHANGED abstract
<1>1. answer' = answer BY DEF answer
<1> QED BY <1>1 DEF abstract, data

(* A step of t that ends in "unlock" or "return" answers its local result. *)
LEMMA Answers ==
  ASSUME Inv, NEW t \in Threads,
         \A u \in Threads \ {t} : pc'[u] = pc[u] /\ tmp'[u] = tmp[u],
         pc[t] \notin Ended, pc'[t] \in Ended
  PROVE  answer[t] = <<>> /\ answer' = [answer EXCEPT ![t] = tmp'[t]]
BY DEF answer

LEMMA ReadRefines ==
  ASSUME Inv, NEW t \in Threads, Read(t)
  PROVE  Atomic!AtomicNext \/ UNCHANGED abstract
<1> DEFINE Look(to) == /\ \A u \in Threads \ {t} : pc'[u] = pc[u] /\ tmp'[u] = tmp[u]
                       /\ pc[t] = "read" /\ pc'[t] = to
                       /\ UNCHANGED <<data, call>>
<1>1. Look("write") => UNCHANGED abstract
  BY NoAnswer DEF Ended
<1>2. Look("unlock") \/ Look("return") =>
        /\ answer[t] = <<>> /\ answer' = [answer EXCEPT ![t] = tmp'[t]]
        /\ UNCHANGED <<data, call>>
  BY Answers DEF Ended
<1> HIDE DEF Look
<1>3. SUFFICES (Atomic!TakeEffect(t) /\ UNCHANGED call) \/ UNCHANGED abstract
  BY DEF Atomic!AtomicNext
<1>4. CASE ReadFront(t)
  <2>1. CASE queue # <<>>
    <3>1. Look("write") BY <1>4, <2>1 DEF ReadFront, Looked, Result, Goto, Inv, TypeOK, Look
    <3> QED BY <1>1, <3>1
  <2>2. CASE queue = <<>>
    <3>1. Look("unlock") /\ tmp'[t] = <<nullptr>> /\ In(t, "PopFront")
      BY <1>4, <2>2 DEF ReadFront, Looked, Result, Goto, Inv, TypeOK, Look
    <3>2. Atomic!PopFront(t)
      BY <1>2, <2>2, <3>1 DEF In, data, answer, Ended, Atomic!PopFront, Atomic!Pending,
         Atomic!Answer, Atomic!registry, Atomic!sinks
    <3> QED BY <1>2, <3>1, <3>2 DEF Atomic!TakeEffect
  <2> QED BY <2>1, <2>2
<1>5. CASE ReadEmpty(t)
  <2>1. Look("unlock") /\ tmp'[t] = <<Atomic!Truth(queue = <<>>)>> /\ In(t, "IsEmpty")
    BY <1>5 DEF ReadEmpty, Looked, Result, Goto, Inv, TypeOK, Look
  <2>2. Atomic!IsEmpty(t)
    BY <1>2, <2>1 DEF In, data, answer, Ended, Atomic!IsEmpty, Atomic!Pending,
       Atomic!Answer, Atomic!registry, Atomic!sinks
  <2> QED BY <1>2, <2>1, <2>2 DEF Atomic!TakeEffect
<1>6. CASE ReadSize(t)
  <2>1. PICK n \in Sizes \cup {Len(queue)} : (~Torn(t) => n = Len(queue)) /\ Looked(t, n, "return")
    BY <1>6 DEF ReadSize
  <2>2. Look("return") /\ tmp'[t] = <<n>> /\ In(t, "GetSize")
    BY <1>6, <2>1 DEF ReadSize, Looked, Result, Goto, Inv, TypeOK, Look
  <2>3. Torn(t) => \E u \in Threads \ {t} : Atomic!Pending(u, "Push") \/ Atomic!Pending(u, "PopFront")
    <3> SUFFICES ASSUME NEW u \in Threads \ {t}, pc[u] = "write"
                 PROVE  call[u].name \in {"Push", "PopFront"} /\ answer[u] = <<>>
      BY DEF Torn, Atomic!Pending, answer, Ended
    <3>1. subject = "queue"
      BY <2>2, CallFields DEF In, Inv, TypeOK, QueueNames
    <3>2. call[u].name \in Writers /\ call[u] # Atomic!noCall
      BY DEF Inv, TypeOK, Writers
    <3>3. call[u].name \in QueueNames
      BY <3>1, <3>2, CallFields DEF Inv, TypeOK
    <3>4. answer[u] = <<>> BY DEF answer, Ended
    <3> QED BY <3>2, <3>3, <3>4 DEF Writers, QueueNames
  <2>4. Atomic!GetSize(t)
    BY <1>2, <2>1, <2>2, <2>3 DEF In, data, answer, Ended, Atomic!GetSize, Atomic!Answer,
       Atomic!Pending, Atomic!registry, Atomic!sinks
  <2> QED BY <1>2, <2>2, <2>4 DEF Atomic!TakeEffect
<1>7. CASE ReadValue(t)
  <2>1. CASE In(t, "GetValue")
    <3>1. Look("unlock") /\ tmp'[t] = <<object>>
      BY <1>7, <2>1 DEF ReadValue, In, Looked, Result, Goto, Inv, TypeOK, Look
    <3>2. Atomic!GetValue(t)
      BY <1>2, <2>1, <3>1 DEF In, data, answer, Ended, Atomic!GetValue, Atomic!Pending,
         Atomic!Answer, Atomic!registry, Atomic!sinks
    <3> QED BY <1>2, <3>1, <3>2 DEF Atomic!TakeEffect
  <2>2. CASE In(t, "SetCurrentAndGetPrevious")
    <3>1. Look("write")
      BY <1>7, <2>2 DEF ReadValue, In, Looked, Result, Goto, Inv, TypeOK, Look
    <3> QED BY <1>1, <3>1
  <2> QED BY <1>7, <2>1, <2>2 DEF ReadValue
<1>8. CASE Lookup(t)
  <2>1. Look("unlock") /\ tmp'[t] = <<map[call[t].key]>> /\ In(t, "Find")
    BY <1>8 DEF Lookup, Looked, Result, Goto, Inv, TypeOK, Look
  <2>2. Atomic!Find(t)
    BY <1>2, <2>1 DEF In, data, answer, Ended, Atomic!Find, Atomic!Pending,
       Atomic!Answer, Atomic!registry, Atomic!sinks
  <2> QED BY <1>2, <2>1, <2>2 DEF Atomic!TakeEffect
<1>9. CASE AssignId(t) \/ GoWrite(t)
  <2>1. Look("write")
    BY <1>9 DEF AssignId, GoWrite, Looked, Result, Goto, Inv, TypeOK, Look
  <2> QED BY <1>1, <2>1
<1>10. CASE ReadLevel(t)
  <2>1. Look("return") /\ tmp'[t] = <<nullptr>> /\ In(t, "BelowLevel")
    BY <1>10 DEF ReadLevel, Looked, Result, Goto, Inv, TypeOK, Look
  <2>2. Atomic!BelowLevel(t)
    BY <1>2, <2>1 DEF In, data, answer, Ended, Atomic!BelowLevel, Atomic!Pending,
       Atomic!Answer, Atomic!registry, Atomic!sinks
  <2> QED BY <1>2, <2>1, <2>2 DEF Atomic!TakeEffect
<1> QED BY <1>4, <1>5, <1>6, <1>7, <1>8, <1>9, <1>10 DEF Read

(* The end of a write is where the call takes effect.                      *)
LEMMA WriteRefines ==
  ASSUME Inv, NEW t \in Threads, Write(t)
  PROVE  Atomic!AtomicNext
<1>1. Written(t) BY DEF Write, WriteQueue, WriteObject, WriteMap, WriteService, WriteLine
<1>2. /\ answer[t] = <<>> /\ answer' = [answer EXCEPT ![t] = tmp[t]]
      /\ UNCHANGED <<call, tmp>>
  <2>1. /\ \A u \in Threads \ {t} : pc'[u] = pc[u] /\ tmp'[u] = tmp[u]
        /\ pc[t] = "write" /\ pc'[t] = "unlock" /\ tmp' = tmp /\ call' = call
    BY <1>1 DEF Written, Goto, Inv, TypeOK
  <2> QED BY <2>1, Answers DEF Ended
<1>3. Fresh(t) /\ (call[t].name \in {"Push", "SetValue", "Emplace", "Output"} => tmp[t] = <<nullptr>>)
  BY <1>1 DEF Written, Inv, ReadIsFresh, NothingToAnswer
<1>4. SUFFICES Atomic!TakeEffect(t)
  BY <1>2 DEF Atomic!AtomicNext
<1> USE <1>2, <1>3 DEF Fresh, In, answer, Ended, Atomic!Pending, Atomic!Answer, Atomic!registry, Atomic!sinks
<1>5. CASE WriteQueue(t)
  <2>1. In(t, "Push") => Atomic!Push(t) BY <1>5 DEF WriteQueue, Atomic!Push
  <2>2. In(t, "PopFront") => Atomic!PopFront(t) BY <1>5 DEF WriteQueue, Atomic!PopFront
  <2> QED BY <1>5, <2>1, <2>2 DEF WriteQueue, Atomic!TakeEffect
<1>6. CASE WriteObject(t)
  <2>1. In(t, "SetValue") => Atomic!SetValue(t) BY <1>6 DEF WriteObject, Atomic!SetValue
  <2>2. In(t, "SetCurrentAndGetPrevious") => Atomic!SetCurrentAndGetPrevious(t)
    BY <1>6 DEF WriteObject, Atomic!SetCurrentAndGetPrevious
  <2> QED BY <1>6, <2>1, <2>2 DEF WriteObject, Atomic!TakeEffect
<1>7. CASE WriteMap(t)
  <2>1. In(t, "Emplace") => Atomic!Emplace(t) BY <1>7 DEF WriteMap, Atomic!Emplace
  <2>2. In(t, "Erase") => Atomic!Erase(t) BY <1>7 DEF WriteMap, Atomic!Erase
  <2> QED BY <1>7, <2>1, <2>2 DEF WriteMap, Atomic!TakeEffect
<1>8. CASE WriteService(t)
  <2>1. tmp[t] = <<auto_increment_id>> /\ tmp[t][1] = auto_increment_id BY <1>8 DEF WriteService
  <2>2. Atomic!AddService(t)
    BY <1>8, <2>1 DEF WriteService, Atomic!AddService, Atomic!Emplaced
  <2> QED BY <2>2 DEF Atomic!TakeEffect
<1>9. CASE WriteLine(t)
  BY <1>9 DEF WriteLine, Atomic!Output, Atomic!TakeEffect
<1> QED BY <1>5, <1>6, <1>7, <1>8, <1>9 DEF Write

LEMMA UnlockRefines ==
  ASSUME Inv, NEW t \in Threads, Unlock(t) \/ Return(t)
  PROVE  Atomic!AtomicNext
<1>1. /\ pc[t] \in Ended /\ tmp[t] # <<>>
      /\ pc' = [pc EXCEPT ![t] = "idle"]
      /\ call' = [call EXCEPT ![t] = Atomic!noCall]
      /\ tmp' = [tmp EXCEPT ![t] = <<>>]
      /\ UNCHANGED data
  BY DEF Unlock, Return, Goto, Ended, Inv, TypeOK
<1>2. answer[t] # <<>> BY <1>1 DEF answer
<1>3. answer' = [answer EXCEPT ![t] = <<>>] BY <1>1 DEF answer, Ended, Inv, TypeOK
<1>4. Atomic!Return(t) BY <1>1, <1>2, <1>3 DEF Atomic!Return, Atomic!registry, Atomic!sinks, data, answer, Ended
<1> QED BY <1>4 DEF Atomic!AtomicNext

LEMMA InvokeRefines ==
  ASSUME Inv, NEW t \in Threads, Invoke(t)
  PROVE  Atomic!AtomicNext
<1>1. PICK c \in Methods[subject] :
        /\ call' = [call EXCEPT ![t] = c]
        /\ pc' = [pc EXCEPT ![t] = IF c.name \in Unlocked THEN "read" ELSE "lock"]
  BY DEF Invoke, Goto
<1>2. pc[t] = "idle" /\ call[t] = Atomic!noCall /\ UNCHANGED <<data, tmp>>
  BY CallFields DEF Invoke, Inv, TypeOK, In
<1>3. c \in Atomic!Calls
  BY DEF Methods, Atomic!Calls, Inv, TypeOK
<1>4. answer' = answer BY <1>1, <1>2 DEF answer, Ended, Inv, TypeOK
<1>5. Atomic!Invoke(t)
  BY <1>1, <1>2, <1>3, <1>4 DEF Atomic!Invoke, Atomic!registry, Atomic!sinks, data, answer, Ended
<1> QED BY <1>5 DEF Atomic!AtomicNext

LEMMA LockRefines ==
  ASSUME Inv, NEW t \in Threads, Lock(t)
  PROVE  UNCHANGED abstract
<1>1. /\ \A u \in Threads \ {t} : pc'[u] = pc[u] /\ tmp'[u] = tmp[u]
      /\ pc[t] = "lock" /\ pc'[t] = "read" /\ UNCHANGED <<data, call>>
  BY DEF Lock, Goto, Inv, TypeOK
<1> QED BY <1>1, NoAnswer DEF Ended

(* The containers with their locks implement the atomic methods, GetSize   *)
(* included with what little it promises.                                  *)
THEOREM MethodsAreAtomic == Spec => ImplementsAtomic
<1>1. Init => Atomic!AtomicInit
  BY DEF Init, Atomic!AtomicInit, Ended
<1>2. Inv /\ [Next]_vars => [Atomic!AtomicNext]_(Atomic!atomicVars)
  <2> SUFFICES ASSUME Inv, [Next]_vars
               PROVE  Atomic!AtomicNext \/ UNCHANGED abstract
    BY DEF abstract, answer, Ended, Atomic!atomicVars, Atomic!registry, Atomic!sinks
  <2>1. CASE UNCHANGED vars BY <2>1 DEF vars, data, abstract, answer
  <2> QED
    BY <2>1, InvokeRefines, LockRefines, ReadRefines, WriteRefines, UnlockRefines DEF Next
<1> QED BY InitInv, StepInv, <1>1, <1>2, PTL DEF Spec, ImplementsAtomic, Atomic!AtomicSpec
==============================================================================
