----------------------------- MODULE Containers -----------------------------
(***************************************************************************)
(* The objects that XianNet's threads share and that carry a lock of their *)
(* own: SpinlockQueue, SpinlockObject, RwlockUnorderedMap, ServiceMap and  *)
(* Logger.  None of them calls another one, so a behaviour of this module  *)
(* exercises one object, the subject, with any number of threads in its    *)
(* methods.  A write to the data takes time: while a thread is at "write"  *)
(* the data are being changed.                                             *)
(***************************************************************************)
EXTENDS Integers, Sequences, FiniteSets

CONSTANTS
  Threads,
  Values,        (* what is stored: messages, services, connections, flags, lines *)
  nullptr,
  Sizes,         (* what GetSize may come up with while the queue is written *)
  MaxLength,     (* bound: elements of the queue, lines of the log          *)
  MaxServices    (* bound: services added; the keys are their ids           *)

Keys == 0 .. MaxServices - 1

ASSUME ContainersAssumption ==
  /\ nullptr \notin Values \cup Threads
  /\ MaxLength \in Nat
  /\ MaxServices \in Nat

VARIABLES
  subject,           (* the object under use                                *)
  queue, object, map, auto_increment_id, console, file,  (* the data, see AtomicContainers *)
  writer,            (* the thread that has the lock for itself, or nullptr *)
  readers,           (* the threads that have the rwlock for reading        *)
  call,              (* the method each thread is in, with its arguments    *)
  pc,                (* the next step of each thread                        *)
  tmp                (* <<the method's local result>> once it is set        *)

data == <<queue, object, map, auto_increment_id, console, file>>
locks == <<writer, readers>>
vars == <<subject, data, locks, call, pc, tmp>>

(* The call has taken effect when only the lock is left to be released.    *)
Atomic == INSTANCE AtomicContainers
            WITH answer <- [t \in Threads |-> IF pc[t] \in {"unlock", "return"} THEN tmp[t] ELSE <<>>]

Methods == [queue |-> Atomic!QueueCalls, object |-> Atomic!ObjectCalls,
            map |-> Atomic!MapCalls, service_map |-> Atomic!ServiceMapCalls,
            logger |-> Atomic!LoggerCalls]

Goto(t, to) == pc' = [pc EXCEPT ![t] = to]
In(t, name) == call[t].name = name
Result(t, value) == tmp' = [tmp EXCEPT ![t] = <<value>>]

Init ==
  /\ subject \in DOMAIN Methods
  /\ queue = <<>>
  /\ object \in Values
  /\ map = [k \in Keys |-> nullptr]
  /\ auto_increment_id = 0
  /\ console = <<>>
  /\ file = <<>>
  /\ writer = nullptr
  /\ readers = {}
  /\ call = [t \in Threads |-> Atomic!noCall]
  /\ pc = [t \in Threads |-> "idle"]
  /\ tmp = [t \in Threads |-> <<>>]

------------------------------------------------------------------------------
(* The bounds: calls that are on their way count as well.                  *)
Calling(name) == Cardinality({u \in Threads : In(u, name)})
Permitted(c) ==
  /\ c.name = "Push" => Len(queue) + Calling("Push") < MaxLength
  /\ c.name = "Output" => Len(file) + Calling("Output") < MaxLength
  /\ c.name = "AddService" => auto_increment_id + Calling("AddService") < MaxServices

(* Every method begins with its lock, but GetSize, and Log when it finds   *)
(* the line below the level.                                               *)
Unlocked == {"GetSize", "BelowLevel"}

Invoke(t) ==
  /\ pc[t] = "idle"
  /\ \E c \in Methods[subject] :
       /\ Permitted(c)
       /\ call' = [call EXCEPT ![t] = c]
       /\ Goto(t, IF c.name \in Unlocked THEN "read" ELSE "lock")
  /\ UNCHANGED <<subject, data, locks, tmp>>

(* SpinLock::Lock and RwLock::LockWrite; the variant is RwLock::LockRead.  *)
LockRead(t) == writer = nullptr /\ readers' = readers \cup {t} /\ UNCHANGED writer
LockWrite(t) == writer = nullptr /\ readers = {} /\ writer' = t /\ UNCHANGED readers

(* Find is the one method that takes the rwlock for reading.               *)
Lock(t) ==
  /\ pc[t] = "lock"
  /\ IF In(t, "Find") THEN LockRead(t) ELSE LockWrite(t)
  /\ Goto(t, "read")
  /\ UNCHANGED <<subject, data, call, tmp>>

(* Who still reads when t unlocks; the variant frees the writer only.      *)
NotReleased(t) == readers
Released(t) == readers \ {t}

Unlock(t) ==
  /\ pc[t] = "unlock"
  /\ writer' = IF writer = t THEN nullptr ELSE writer
  /\ readers' = Released(t)
  /\ Goto(t, "idle")
  /\ call' = [call EXCEPT ![t] = Atomic!noCall]
  /\ tmp' = [tmp EXCEPT ![t] = <<>>]
  /\ UNCHANGED <<subject, data>>

(* Without a lock to release.                                              *)
Return(t) ==
  /\ pc[t] = "return"
  /\ Goto(t, "idle")
  /\ call' = [call EXCEPT ![t] = Atomic!noCall]
  /\ tmp' = [tmp EXCEPT ![t] = <<>>]
  /\ UNCHANGED <<subject, data, locks>>

------------------------------------------------------------------------------
(* Reading the data.                                                       *)

(* Where a method goes from its first look at the data.                    *)
Looked(t, value, to) ==
  /\ pc[t] = "read"
  /\ Result(t, value)
  /\ Goto(t, to)
  /\ UNCHANGED <<subject, data, locks, call>>

(* PopFront: the front is copied and then popped.                          *)
ReadFront(t) ==
  /\ In(t, "PopFront")
  /\ IF queue = <<>> THEN Looked(t, nullptr, "unlock") ELSE Looked(t, Head(queue), "write")

ReadEmpty(t) == In(t, "IsEmpty") /\ Looked(t, Atomic!Truth(queue = <<>>), "unlock")

(* GetSize, which takes no lock, may look while the queue is written.      *)
Torn(t) == \E u \in Threads \ {t} : pc[u] = "write"
ReadSize(t) ==
  /\ In(t, "GetSize")
  /\ \E n \in Sizes \cup {Len(queue)} :
       /\ ~Torn(t) => n = Len(queue)
       /\ Looked(t, n, "return")

(* GetValue and SetCurrentAndGetPrevious copy the object.                  *)
ReadValue(t) ==
  \/ In(t, "GetValue") /\ Looked(t, object, "unlock")
  \/ In(t, "SetCurrentAndGetPrevious") /\ Looked(t, object, "write")

(* Find; the variant returns from inside the critical section.             *)
LookupAndLeave(t) == In(t, "Find") /\ Looked(t, map[call[t].key], "return")
Lookup(t) == In(t, "Find") /\ Looked(t, map[call[t].key], "unlock")

(* AddService gives the service its id before it enters the map.           *)
AssignId(t) == In(t, "AddService") /\ Looked(t, auto_increment_id, "write")

(* The other methods write at once; Erase learns whether there was an entry. *)
GoWrite(t) ==
  \/ call[t].name \in {"Push", "SetValue", "Emplace", "Output"} /\ Looked(t, nullptr, "write")
  \/ In(t, "Erase") /\ Looked(t, Atomic!Truth(map[call[t].key] # nullptr), "write")

ReadLevel(t) == In(t, "BelowLevel") /\ Looked(t, nullptr, "return")

Read(t) ==
  \/ ReadFront(t) \/ ReadEmpty(t) \/ ReadSize(t) \/ ReadValue(t)
  \/ Lookup(t) \/ AssignId(t) \/ GoWrite(t) \/ ReadLevel(t)

------------------------------------------------------------------------------
(* Writing the data; the step is the end of the write.                     *)

Written(t) ==
  /\ pc[t] = "write"
  /\ Goto(t, "unlock")
  /\ UNCHANGED <<subject, locks, call, tmp>>

WriteQueue(t) ==
  /\ Written(t)
  /\ \/ In(t, "Push") /\ queue' = Append(queue, call[t].value)
     \/ In(t, "PopFront") /\ queue' = Tail(queue)
  /\ UNCHANGED <<object, map, auto_increment_id, console, file>>

WriteObject(t) ==
  /\ Written(t)
  /\ In(t, "SetValue") \/ In(t, "SetCurrentAndGetPrevious")
  /\ object' = call[t].value
  /\ UNCHANGED <<queue, map, auto_increment_id, console, file>>

WriteMap(t) ==
  /\ Written(t)
  /\ \/ In(t, "Emplace") /\ map' = Atomic!Emplaced(call[t].key, call[t].value)
     \/ In(t, "Erase") /\ map' = [map EXCEPT ![call[t].key] = nullptr]
  /\ UNCHANGED <<queue, object, auto_increment_id, console, file>>

(* The id was read before the entry is made and is counted up after it;    *)
(* the variant does not count.                                             *)
WriteUncounted(t) ==
  /\ Written(t)
  /\ In(t, "AddService")
  /\ map' = Atomic!Emplaced(tmp[t][1], call[t].value)
  /\ UNCHANGED <<queue, object, auto_increment_id, console, file>>
WriteService(t) ==
  /\ Written(t)
  /\ In(t, "AddService")
  /\ map' = Atomic!Emplaced(tmp[t][1], call[t].value)
  /\ auto_increment_id' = auto_increment_id + 1
  /\ UNCHANGED <<queue, object, console, file>>

(* Logger::Output, called with lines that pass the level: cout first, then *)
(* the log file, which the program always opens.                           *)
WriteLine(t) ==
  /\ Written(t)
  /\ In(t, "Output")
  /\ console' = Append(console, call[t].value)
  /\ file' = Append(file, call[t].value)
  /\ UNCHANGED <<queue, object, map, auto_increment_id>>

Write(t) == WriteQueue(t) \/ WriteObject(t) \/ WriteMap(t) \/ WriteService(t) \/ WriteLine(t)

------------------------------------------------------------------------------
Next == \E t \in Threads : Invoke(t) \/ Lock(t) \/ Read(t) \/ Write(t) \/ Unlock(t) \/ Return(t)

Spec == Init /\ [][Next]_vars
==============================================================================
