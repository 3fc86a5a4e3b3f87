------------------------ MODULE ContainersProperties ------------------------
(***************************************************************************)
(* What the locks of the shared containers must achieve.                   *)
(***************************************************************************)
EXTENDS Containers

Labels == {"idle", "lock", "read", "write", "unlock", "return"}
Writers == {"Push", "PopFront", "SetValue", "SetCurrentAndGetPrevious",
            "Emplace", "Erase", "AddService", "Output"}

(* Every variable has its type; a thread has a local result from its first *)
(* look at the data on, a call from its invocation to its return, and gets *)
(* to the end of its method by the way the method goes.                    *)
TypeOK ==
  /\ subject \in DOMAIN Methods
  /\ queue \in Seq(Values)
  /\ object \in Values
  /\ map \in [Keys -> Values \cup {nullptr}]
  /\ auto_increment_id \in Nat
  /\ console \in Seq(Values)
  /\ file \in Seq(Values)
  /\ writer \in Threads \cup {nullptr}
  /\ readers \in SUBSET Threads
  /\ call \in [Threads -> Methods[subject] \cup {Atomic!noCall}]
  /\ pc \in [Threads -> Labels]
  /\ DOMAIN tmp = Threads
  /\ \A t \in Threads :
       /\ pc[t] = "idle" <=> In(t, "none")
       /\ pc[t] \in {"write", "unlock", "return"} <=> tmp[t] # <<>>
       /\ pc[t] = "write" => call[t].name \in Writers
       /\ pc[t] = "lock" => call[t].name \notin Unlocked
       /\ pc[t] = "return" => call[t].name \in Unlocked

(* A thread has the lock, alone or among readers, exactly while it is in   *)
(* the critical section of a method: whoever takes a lock gives it back on *)
(* every path, and a writer and readers never have it together.            *)
Inside(t) == pc[t] \in {"read", "write", "unlock"} /\ call[t].name \notin Unlocked

LocksHeld ==
  /\ \A t \in Threads : writer = t <=> Inside(t) /\ ~In(t, "Find")
  /\ \A t \in Threads : t \in readers <=> Inside(t) /\ In(t, "Find")
  /\ writer # nullptr => readers = {}

(* No thread touches the data while another one writes them, unless it is  *)
(* GetSize that does.                                                      *)
RaceFree ==
  \A t, u \in Threads :
    t # u /\ pc[t] = "write" /\ pc[u] \in {"read", "write"} => call[u].name \in Unlocked

(* What a method has read is still true when it writes: the front is the   *)
(* front it has copied, the flag has the value it will report as previous, *)
(* the id it has given the service is the next one, the entry is there.    *)
Fresh(t) ==
  /\ In(t, "PopFront") => queue # <<>> /\ tmp[t] = <<Head(queue)>>
  /\ In(t, "SetCurrentAndGetPrevious") => tmp[t] = <<object>>
  /\ In(t, "AddService") => tmp[t] = <<auto_increment_id>>
  /\ In(t, "Erase") => tmp[t] = <<Atomic!Truth(map[call[t].key] # nullptr)>>

ReadIsFresh == \A t \in Threads : pc[t] = "write" => Fresh(t)

(* Every method takes effect in one step between its call and its return,  *)
(* so the atomic steps of the other modules describe the real containers;  *)
(* GetSize is exact only while nobody is in the middle of Push or PopFront. *)
ImplementsAtomic == Atomic!AtomicSpec
==============================================================================
