-------------------------- MODULE AtomicContainers --------------------------
(***************************************************************************)
(* What the callers of XianNet's shared containers rely on: a call takes   *)
(* effect in one step somewhere between its invocation and its return.     *)
(* These are the steps the other modules take for Push, PopFront, Find and *)
(* so on.  Module Containers, with the locks, implements this.             *)
(***************************************************************************)
EXTENDS Integers, Sequences

CONSTANTS
  Threads,
  Values,        (* what is stored: messages, services, connections, flags, lines *)
  Keys,          (* service ids or descriptors                              *)
  nullptr,       (* answer of PopFront and Find when there is nothing       *)
  Sizes          (* what GetSize may come up with while the queue is written *)

VARIABLES
  queue,             (* SpinlockQueue::queue_                               *)
  object,            (* SpinlockObject::object_                             *)
  map,               (* RwlockUnorderedMap::map_, nullptr where no entry is *)
  auto_increment_id, (* ServiceMap::auto_increment_id_                      *)
  console, file,     (* Logger: what cout and output_file_stream_ got       *)
  call,              (* the method each thread is in, with its arguments    *)
  answer             (* <<what it will return>>, once it has taken effect   *)

noCall == [name |-> "none"]
QueueCalls == [name : {"Push"}, value : Values] \cup [name : {"PopFront", "IsEmpty", "GetSize"}]
ObjectCalls == [name : {"SetValue", "SetCurrentAndGetPrevious"}, value : Values]
                 \cup [name : {"GetValue"}]
MapCalls == [name : {"Find", "Erase"}, key : Keys] \cup [name : {"Emplace"}, key : Keys, value : Values]
ServiceMapCalls == [name : {"Find", "Erase"}, key : Keys] \cup [name : {"AddService"}, value : Values]
LoggerCalls == [name : {"Output"}, value : Values] \cup [name : {"BelowLevel"}]
Calls == QueueCalls \cup ObjectCalls \cup MapCalls \cup ServiceMapCalls \cup LoggerCalls

registry == <<map, auto_increment_id>>
sinks == <<console, file>>

AtomicInit ==
  /\ queue = <<>>
  /\ object \in Values
  /\ map = [k \in Keys |-> nullptr]
  /\ auto_increment_id = 0
  /\ console = <<>>
  /\ file = <<>>
  /\ call = [t \in Threads |-> noCall]
  /\ answer = [t \in Threads |-> <<>>]

(* unordered_map::emplace keeps the entry that is there.                   *)
Emplaced(key, value) == [map EXCEPT ![key] = IF @ = nullptr THEN value ELSE @]

(* A bool is answered as 0 or 1.                                           *)
Truth(p) == IF p THEN 1 ELSE 0

Pending(t, name) == call[t].name = name /\ answer[t] = <<>>
Answer(t, value) == answer' = [answer EXCEPT ![t] = <<value>>]

Push(t) ==
  /\ Pending(t, "Push")
  /\ queue' = Append(queue, call[t].value)
  /\ Answer(t, nullptr)
  /\ UNCHANGED <<object, registry, sinks>>

PopFront(t) ==
  /\ Pending(t, "PopFront")
  /\ \/ queue = <<>> /\ Answer(t, nullptr) /\ UNCHANGED queue
     \/ queue # <<>> /\ Answer(t, Head(queue)) /\ queue' = Tail(queue)
  /\ UNCHANGED <<object, registry, sinks>>

IsEmpty(t) ==
  /\ Pending(t, "IsEmpty")
  /\ Answer(t, Truth(queue = <<>>))
  /\ UNCHANGED <<queue, object, registry, sinks>>

(* The one method that promises less: its answer is the size only if no    *)
(* other thread is in the middle of a Push or a PopFront.                  *)
GetSize(t) ==
  /\ Pending(t, "GetSize")
  /\ \/ Answer(t, Len(queue))
     \/ /\ \E u \in Threads \ {t} : Pending(u, "Push") \/ Pending(u, "PopFront")
        /\ \E n \in Sizes : Answer(t, n)
  /\ UNCHANGED <<queue, object, registry, sinks>>

GetValue(t) ==
  /\ Pending(t, "GetValue")
  /\ Answer(t, object)
  /\ UNCHANGED <<queue, object, registry, sinks>>

SetValue(t) ==
  /\ Pending(t, "SetValue")
  /\ object' = call[t].value
  /\ Answer(t, nullptr)
  /\ UNCHANGED <<queue, registry, sinks>>

SetCurrentAndGetPrevious(t) ==
  /\ Pending(t, "SetCurrentAndGetPrevious")
  /\ Answer(t, object)
  /\ object' = call[t].value
  /\ UNCHANGED <<queue, registry, sinks>>

Find(t) ==
  /\ Pending(t, "Find")
  /\ Answer(t, map[call[t].key])
  /\ UNCHANGED <<queue, object, registry, sinks>>

Emplace(t) ==
  /\ Pending(t, "Emplace")
  /\ map' = Emplaced(call[t].key, call[t].value)
  /\ Answer(t, nullptr)
  /\ UNCHANGED <<queue, object, auto_increment_id, sinks>>

Erase(t) ==
  /\ Pending(t, "Erase")
  /\ Answer(t, Truth(map[call[t].key] # nullptr))
  /\ map' = [map EXCEPT ![call[t].key] = nullptr]
  /\ UNCHANGED <<queue, object, auto_increment_id, sinks>>

(* The answer stands for the id the service gets.                          *)
AddService(t) ==
  /\ Pending(t, "AddService")
  /\ Answer(t, auto_increment_id)
  /\ map' = Emplaced(auto_increment_id, call[t].value)
  /\ auto_increment_id' = auto_increment_id + 1
  /\ UNCHANGED <<queue, object, sinks>>

(* A line appears on the console and in the file, with nothing in between. *)
Output(t) ==
  /\ Pending(t, "Output")
  /\ Answer(t, nullptr)
  /\ console' = Append(console, call[t].value)
  /\ file' = Append(file, call[t].value)
  /\ UNCHANGED <<queue, object, registry>>

(* Log and JsLog with a line below the level.                              *)
BelowLevel(t) ==
  /\ Pending(t, "BelowLevel")
  /\ Answer(t, nullptr)
  /\ UNCHANGED <<queue, object, registry, sinks>>

TakeEffect(t) ==
  \/ Push(t) \/ PopFront(t) \/ IsEmpty(t) \/ GetSize(t)
  \/ GetValue(t) \/ SetValue(t) \/ SetCurrentAndGetPrevious(t)
  \/ Find(t) \/ Emplace(t) \/ Erase(t) \/ AddService(t) \/ Output(t) \/ BelowLevel(t)

Invoke(t) ==
  /\ call[t] = noCall
  /\ \E c \in Calls : call' = [call EXCEPT ![t] = c]
  /\ UNCHANGED <<queue, object, registry, sinks, answer>>

Return(t) ==
  /\ answer[t] # <<>>
  /\ call' = [call EXCEPT ![t] = noCall]
  /\ answer' = [answer EXCEPT ![t] = <<>>]
  /\ UNCHANGED <<queue, object, registry, sinks>>

AtomicNext == \E t \in Threads : Invoke(t) \/ (TakeEffect(t) /\ UNCHANGED call) \/ Return(t)

atomicVars == <<queue, object, registry, sinks, call, answer>>
AtomicSpec == AtomicInit /\ [][AtomicNext]_atomicVars
==============================================================================
