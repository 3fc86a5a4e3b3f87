---------------------------- MODULE ScriptProofs ----------------------------
(***************************************************************************)
(* Proofs, for every number of threads, services and messages, of the      *)
(* invariants that ScriptProperties states.                                *)
(***************************************************************************)
EXTENDS ScriptProperties, MailboxLemmas, FiniteSetTheorems

(* A script in newService; a handler.                                      *)
Building == {"evaluate", "register", "init", "return"}
Handling == {"handle", "skip"}
BuildingFrames == [object : Objects, task : Building]
HandlingFrames == [object : Objects, message : ServiceMessages, task : Handling]
AllFrames == BuildingFrames \cup HandlingFrames

(* Frame f is the n-th from the bottom of t's stack: pushing and popping   *)
(* leave the place of the others as it is.                                 *)
Slot(q, n) == q[Len(q) + 1 - n]
At(stacks, t, n, f) == n \in 1 .. Len(stacks[t]) /\ f = Slot(stacks[t], n)

Types ==
  /\ stack \in [Threads -> Seq(AllFrames)]
  /\ allocated \in 0 .. MaxServices
  /\ id \in [Objects -> Ids]
  /\ service_id \in [Objects -> Ids]
  /\ js_function_map \in [Objects -> SUBSET Functions]
  /\ service_map \in SUBSET (Ids \X Objects)
  /\ auto_increment_id \in 0 .. MaxServices
  /\ mailbox \in [Objects -> Seq(ServiceMessages)]
  /\ running \in SUBSET (Objects \X ServiceMessages)
  /\ done \in SUBSET ServiceMessages
  /\ sent \in Nat

(* Nothing refers to a service that has not been allocated.                *)
Registered == {e[2] : e \in service_map}
OnlyAllocated ==
  /\ \A t \in Threads, n \in Nat, f \in AllFrames : At(stack, t, n, f) => f.object <= allocated
  /\ \A o \in Registered : o <= allocated
  /\ \A o \in Objects : mailbox[o] # <<>> => o <= allocated

(* A service is built in one place; no thread is in an isolate twice.      *)
BuiltOnce ==
  \A t, u \in Threads, m, n \in Nat, f, g \in AllFrames :
    At(stack, t, m, f) /\ At(stack, u, n, g) /\ f.object = g.object =>
      /\ f.task \in Building /\ g.task \in Building => t = u /\ m = n
      /\ t = u => m = n

(* AddService comes between "register" and "init", and gives each service  *)
(* an id of its own.                                                       *)
RegisteredOnce ==
  /\ \A t \in Threads, n \in Nat, f \in AllFrames : At(stack, t, n, f) =>
       /\ f.task \in {"evaluate", "register"} => f.object \notin Registered
       /\ f.task \in {"init", "return"} => <<id[f.object], f.object>> \in service_map
  /\ \A e \in service_map : e[1] < auto_increment_id
  /\ \A e, f \in service_map : e[1] = f[1] <=> e[2] = f[2]
  /\ Cardinality(Registered) = auto_increment_id
  /\ known \subseteq service_map

(* A message is in one place: one mailbox, one frame, or done.             *)
HandledOnce ==
  /\ Once(Objects, mailbox, {r[2] : r \in running}, done)
  /\ \A t \in Threads, n \in Nat, f \in AllFrames :
       At(stack, t, n, f) /\ f.task \in Handling => <<f.object, f.message>> \in running
  /\ \A r \in running : \E t \in Threads, n \in Nat, f \in AllFrames :
       At(stack, t, n, f) /\ f.task \in Handling /\ r = <<f.object, f.message>>
  /\ \A t, u \in Threads, m, n \in Nat, f, g \in AllFrames :
       At(stack, t, m, f) /\ At(stack, u, n, g) /\ f.task \in Handling /\ g.task \in Handling /\ f.message = g.message
         => t = u /\ m = n

ScriptInvariant == Types /\ OnlyAllocated /\ BuiltOnce /\ RegisteredOnce /\ HandledOnce

------------------------------------------------------------------------------
(* What a step does to a stack.                                            *)

LEMMA FrameTypes ==
  /\ \A f \in AllFrames : f.object \in Objects /\ f.task \in Building \cup Handling
  /\ \A f \in AllFrames : f.task \in Building => f \in BuildingFrames
  /\ \A f \in AllFrames : f.task \in Handling => f \in HandlingFrames
  BY DEF AllFrames, BuildingFrames, HandlingFrames, Building, Handling

LEMMA ConsSlots ==
  ASSUME NEW S, NEW q \in Seq(S), NEW e \in S
  PROVE  /\ Len(q) \in Nat /\ <<e>> \o q \in Seq(S) /\ Len(<<e>> \o q) = Len(q) + 1
         /\ Slot(<<e>> \o q, Len(q) + 1) = e
         /\ \A n \in 1 .. Len(q) : Slot(<<e>> \o q, n) = Slot(q, n)
<1>1. /\ Len(q) \in Nat /\ <<e>> \o q \in Seq(S) /\ Len(<<e>> \o q) = Len(q) + 1
      /\ (<<e>> \o q)[1] = e /\ \A n \in 1 .. Len(q) : (<<e>> \o q)[n + 1] = q[n]
  OBVIOUS
<1>2. PICK r : r = <<e>> \o q OBVIOUS
<1>3. Slot(r, Len(q) + 1) = e BY <1>1, <1>2 DEF Slot
<1>4. ASSUME NEW n \in 1 .. Len(q) PROVE Slot(r, n) = Slot(q, n)
  <2>1. Len(q) + 1 - n \in 1 .. Len(q) /\ Len(r) + 1 - n = (Len(q) + 1 - n) + 1 BY <1>1, <1>2
  <2>2. r[(Len(q) + 1 - n) + 1] = q[Len(q) + 1 - n] BY <1>1, <1>2, <2>1
  <2> QED BY <2>1, <2>2 DEF Slot
<1> QED BY <1>1, <1>2, <1>3, <1>4

LEMMA TailSlots ==
  ASSUME NEW S, NEW q \in Seq(S), q # <<>>
  PROVE  /\ Len(q) \in Nat \ {0} /\ Tail(q) \in Seq(S) /\ Len(Tail(q)) = Len(q) - 1
         /\ Head(q) \in S /\ Head(q) = Slot(q, Len(q))
         /\ \A n \in 1 .. Len(q) - 1 : Slot(Tail(q), n) = Slot(q, n)
<1>1. /\ Len(q) \in Nat \ {0} /\ Tail(q) \in Seq(S) /\ Len(Tail(q)) = Len(q) - 1
      /\ Head(q) \in S /\ Head(q) = q[1] /\ \A n \in 1 .. Len(q) - 1 : Tail(q)[n] = q[n + 1]
  OBVIOUS
<1>2. PICK r : r = Tail(q) OBVIOUS
<1>3. ASSUME NEW n \in 1 .. Len(q) - 1 PROVE Slot(r, n) = Slot(q, n)
  <2>1. Len(r) + 1 - n \in 1 .. Len(q) - 1 /\ Len(q) + 1 - n = (Len(r) + 1 - n) + 1 BY <1>1, <1>2
  <2>2. r[Len(r) + 1 - n] = q[(Len(r) + 1 - n) + 1] BY <1>1, <1>2, <2>1
  <2> QED BY <2>1, <2>2 DEF Slot
<1>4. Head(q) = Slot(q, Len(q)) BY <1>1 DEF Slot
<1> QED BY <1>1, <1>2, <1>3, <1>4

(* Which frames are where after e has been pushed on t's stack, after the  *)
(* top has been popped from it, and after the top has become e.            *)
Pushed(stacks, after, t, e) ==
  \A u \in Threads, n \in Nat, f \in AllFrames :
    At(after, u, n, f) <=> At(stacks, u, n, f) \/ (u = t /\ n = Len(stacks[t]) + 1 /\ f = e)
Popped(stacks, after, t) ==
  \A u \in Threads, n \in Nat, f \in AllFrames :
    At(after, u, n, f) <=> At(stacks, u, n, f) /\ ~(u = t /\ n = Len(stacks[t]))
Replaced(stacks, after, t, e) ==
  \A u \in Threads, n \in Nat, f \in AllFrames :
    At(after, u, n, f) <=> IF u = t /\ n = Len(stacks[t]) THEN f = e ELSE At(stacks, u, n, f)

LEMMA PushSlots ==
  ASSUME NEW stacks \in [Threads -> Seq(AllFrames)], NEW t \in Threads, NEW e \in AllFrames,
         NEW after, after = [stacks EXCEPT ![t] = <<e>> \o @]
  PROVE  after \in [Threads -> Seq(AllFrames)] /\ Pushed(stacks, after, t, e)
<1> PICK q \in Seq(AllFrames) : q = stacks[t] OBVIOUS
<1> PICK r : r = <<e>> \o q OBVIOUS
<1>1. /\ Len(q) \in Nat /\ r \in Seq(AllFrames) /\ Len(r) = Len(q) + 1
      /\ Slot(r, Len(q) + 1) = e /\ \A n \in 1 .. Len(q) : Slot(r, n) = Slot(q, n)
  BY ConsSlots
<1>2. /\ after \in [Threads -> Seq(AllFrames)] /\ after[t] = r
      /\ \A u \in Threads \ {t} : after[u] = stacks[u]
  BY <1>1
<1>3. \A n \in Nat, f \in AllFrames :
        At(after, t, n, f) <=> At(stacks, t, n, f) \/ (n = Len(q) + 1 /\ f = e)
  BY <1>1, <1>2 DEF At
<1> QED BY <1>2, <1>3 DEF At, Pushed

LEMMA PopSlots ==
  ASSUME NEW stacks \in [Threads -> Seq(AllFrames)], NEW t \in Threads, stacks[t] # <<>>,
         NEW after, after = [stacks EXCEPT ![t] = Tail(@)]
  PROVE  after \in [Threads -> Seq(AllFrames)] /\ Popped(stacks, after, t)
<1>1. PICK q \in Seq(AllFrames) : q = stacks[t] /\ q # <<>> OBVIOUS
<1>2. PICK r : r = Tail(q) OBVIOUS
<1>3. /\ Len(q) \in Nat \ {0} /\ r \in Seq(AllFrames) /\ Len(r) = Len(q) - 1
      /\ \A n \in 1 .. Len(q) - 1 : Slot(r, n) = Slot(q, n)
  BY <1>1, <1>2, TailSlots
<1>4. after = [stacks EXCEPT ![t] = r] BY <1>1, <1>2
<1>5. /\ after \in [Threads -> Seq(AllFrames)] /\ after[t] = r
      /\ \A u \in Threads \ {t} : after[u] = stacks[u]
  BY <1>3, <1>4
<1>6. 1 .. Len(q) = (1 .. Len(q) - 1) \cup {Len(q)} BY <1>3
<1> HIDE <1>2
<1>7. ASSUME NEW n \in Nat, NEW f \in AllFrames
      PROVE  At(after, t, n, f) <=> At(stacks, t, n, f) /\ n # Len(q)
  <2>1. At(after, t, n, f) <=> n \in 1 .. Len(q) - 1 /\ f = Slot(r, n) BY <1>3, <1>5 DEF At
  <2>2. At(stacks, t, n, f) <=> n \in 1 .. Len(q) /\ f = Slot(q, n) BY <1>1 DEF At
  <2> QED BY <1>3, <1>6, <2>1, <2>2
<1> QED BY <1>1, <1>5, <1>7 DEF At, Popped

LEMMA BecomeSlots ==
  ASSUME NEW stacks \in [Threads -> Seq(AllFrames)], NEW t \in Threads, stacks[t] # <<>>,
         NEW e \in AllFrames,
         NEW after, after = [stacks EXCEPT ![t] = <<e>> \o Tail(@)]
  PROVE  after \in [Threads -> Seq(AllFrames)] /\ Replaced(stacks, after, t, e)
<1>1. PICK middle : middle = [stacks EXCEPT ![t] = Tail(@)] OBVIOUS
<1>2. middle \in [Threads -> Seq(AllFrames)] /\ Popped(stacks, middle, t) BY <1>1, PopSlots
<1>3. Len(middle[t]) + 1 = Len(stacks[t])
  <2>1. stacks[t] \in Seq(AllFrames) OBVIOUS
  <2>2. middle[t] = Tail(stacks[t]) BY <1>1
  <2> QED BY <2>1, <2>2, TailSlots
<1>4. after = [middle EXCEPT ![t] = <<e>> \o @] BY <1>1
<1>5. after \in [Threads -> Seq(AllFrames)] /\ Pushed(middle, after, t, e)
  BY <1>2, <1>4, PushSlots
<1>6. ASSUME NEW u \in Threads, NEW n \in Nat, NEW f \in AllFrames
      PROVE  At(after, u, n, f) <=> IF u = t /\ n = Len(stacks[t]) THEN f = e ELSE At(stacks, u, n, f)
  <2>1. At(after, u, n, f) <=> At(middle, u, n, f) \/ (u = t /\ n = Len(stacks[t]) /\ f = e)
    BY <1>3, <1>5 DEF Pushed
  <2>2. At(middle, u, n, f) <=> At(stacks, u, n, f) /\ ~(u = t /\ n = Len(stacks[t]))
    BY <1>2 DEF Popped
  <2> QED BY <2>1, <2>2
<1> QED BY <1>5, <1>6 DEF Replaced

(* The top frame of a thread that has one.                                 *)
LEMMA TopSlot ==
  ASSUME Types, NEW t \in Threads, stack[t] # <<>>
  PROVE  /\ Len(stack[t]) \in Nat \ {0}
         /\ Top(t) \in AllFrames /\ Top(t) = Head(stack[t])
         /\ At(stack, t, Len(stack[t]), Top(t))
         /\ \A f : At(stack, t, Len(stack[t]), f) => f = Top(t)
<1>1. stack[t] \in Seq(AllFrames) BY DEF Types
<1>2. /\ Len(stack[t]) \in Nat \ {0} /\ Head(stack[t]) \in AllFrames
      /\ Head(stack[t]) = Slot(stack[t], Len(stack[t]))
  BY <1>1, TailSlots
<1> QED BY <1>2 DEF Top, At

------------------------------------------------------------------------------
(* The invariant holds initially, and each action preserves it.            *)

LEMMA InitInvariant == Init => ScriptInvariant
<1> SUFFICES ASSUME Init PROVE ScriptInvariant OBVIOUS
<1>1. Types BY ScriptAssumption DEF Init, Types, Mail!MailboxInit, Ids
<1>2. \A t \in Threads, n \in Nat, f \in AllFrames : ~At(stack, t, n, f)
  <2>1. \A t \in Threads : Len(stack[t]) = 0 BY DEF Init
  <2> QED BY <2>1 DEF At
<1>3. Registered = {} /\ Cardinality(Registered) = 0 BY FS_EmptySet DEF Init, Registered
<1>4. OnlyAllocated BY <1>2, <1>3 DEF Init, OnlyAllocated, Mail!MailboxInit
<1>5. BuiltOnce BY <1>2 DEF BuiltOnce
<1>6. RegisteredOnce BY <1>2, <1>3 DEF Init, RegisteredOnce
<1>7. HandledOnce
  <2>1. \A o \in Objects : mailbox[o] = <<>> BY DEF Init, Mail!MailboxInit
  <2>2. \A o \in Objects : Elements(mailbox[o]) = {} /\ Distinct(mailbox[o])
    BY <2>1 DEF Elements, Distinct
  <2>3. running = {} /\ done = {} BY DEF Init, Mail!MailboxInit
  <2> QED BY <1>2, <2>2, <2>3 DEF HandledOnce, Once
<1> QED BY <1>1, <1>4, <1>5, <1>6, <1>7 DEF ScriptInvariant

(* A step that leaves mail and the handlers' frames alone.                 *)
LEMMA HandledKept ==
  ASSUME HandledOnce, UNCHANGED <<mailbox, running, done>>,
         \A u \in Threads, n \in Nat, f \in AllFrames :
           f.task \in Handling => (At(stack', u, n, f) <=> At(stack, u, n, f))
  PROVE  HandledOnce'
<1>1. Once(Objects, mailbox, {r[2] : r \in running}, done)' BY DEF HandledOnce
<1>2. ASSUME NEW u \in Threads, NEW n \in Nat, NEW f \in AllFrames,
             At(stack', u, n, f), f.task \in Handling
      PROVE  <<f.object, f.message>> \in running'
  BY <1>2 DEF HandledOnce
<1>3. ASSUME NEW r \in running'
      PROVE  \E u \in Threads, n \in Nat, f \in AllFrames :
               At(stack', u, n, f) /\ f.task \in Handling /\ r = <<f.object, f.message>>
  BY DEF HandledOnce
<1>4. ASSUME NEW u \in Threads, NEW v \in Threads, NEW m \in Nat, NEW n \in Nat,
             NEW f \in AllFrames, NEW g \in AllFrames,
             At(stack', u, m, f), At(stack', v, n, g),
             f.task \in Handling, g.task \in Handling, f.message = g.message
      PROVE  u = v /\ m = n
  BY <1>4 DEF HandledOnce
<1> QED BY <1>1, <1>2, <1>3, <1>4 DEF HandledOnce

LEMMA NewScriptServiceInvariant ==
  ASSUME ScriptInvariant, NEW t \in Threads, NewScriptService(t)
  PROVE  ScriptInvariant'
<1>1. PICK e : e = [object |-> allocated + 1, task |-> "evaluate"] OBVIOUS
<1>2. allocated + 1 \in Objects /\ allocated \in Nat /\ allocated' = allocated + 1
  BY ScriptAssumption DEF NewScriptService, ScriptInvariant, Types, Objects
<1>3. /\ e \in AllFrames /\ e.object = allocated + 1 /\ e.task = "evaluate"
      /\ e.task \in Building /\ e.task \notin Handling
  BY <1>1, <1>2 DEF AllFrames, BuildingFrames, Building, Handling
<1>4. stack' \in [Threads -> Seq(AllFrames)] /\ Pushed(stack, stack', t, e)
  BY <1>1, <1>3, PushSlots DEF NewScriptService, Push, ScriptInvariant, Types
<1>5. UNCHANGED <<js_function_map, service_map, auto_increment_id, mailbox, running, done, sent, known>>
  BY DEF NewScriptService, mail
<1>6. Types'
  <2>1. id' \in [Objects -> Ids] /\ service_id' \in [Objects -> Ids]
    <3>1. Garbage \subseteq Ids BY ScriptAssumption DEF Ids
    <3> QED BY <3>1 DEF NewScriptService, ScriptInvariant, Types
  <2>2. allocated' \in 0 .. MaxServices BY <1>2 DEF Objects
  <2> QED BY <1>4, <1>5, <2>1, <2>2 DEF ScriptInvariant, Types
<1>7. \A o \in Objects : o <= allocated => id'[o] = id[o]
  BY <1>2 DEF NewScriptService, ScriptInvariant, Types
<1>8. \A f \in AllFrames : f.object \in Objects BY FrameTypes
<1>9. Registered' = Registered BY <1>5 DEF Registered
<1>10. /\ \A u \in Threads, n \in Nat, f \in AllFrames : At(stack, u, n, f) => f.object <= allocated
       /\ allocated + 1 \notin Registered
  BY <1>2 DEF ScriptInvariant, OnlyAllocated
<1>11. OnlyAllocated'
  <2>1. Registered \subseteq Objects BY DEF ScriptInvariant, Types, Registered
  <2>2. \A x \in Objects : x <= allocated => x <= allocated' BY <1>2 DEF Objects
  <2>3. allocated + 1 <= allocated' BY <1>2
  <2> QED BY <1>3, <1>4, <1>5, <1>8, <1>9, <1>10, <2>1, <2>2, <2>3 DEF ScriptInvariant, OnlyAllocated, Pushed
<1>12. BuiltOnce'
  <2>1. ~(allocated + 1 <= allocated) BY <1>2
  <2> QED BY <1>3, <1>4, <1>10, <2>1 DEF ScriptInvariant, BuiltOnce, Pushed
<1>13. RegisteredOnce'
  <2>1. ASSUME NEW u \in Threads, NEW n \in Nat, NEW f \in AllFrames, At(stack', u, n, f)
        PROVE  /\ f.task \in {"evaluate", "register"} => f.object \notin Registered'
               /\ f.task \in {"init", "return"} => <<id'[f.object], f.object>> \in service_map'
    <3>1. CASE At(stack, u, n, f) BY <1>5, <1>7, <1>8, <1>9, <1>10, <3>1 DEF ScriptInvariant, RegisteredOnce
    <3>2. CASE f = e BY <1>3, <1>9, <1>10, <3>2
    <3> QED BY <1>4, <2>1, <3>1, <3>2 DEF Pushed
  <2> QED BY <1>5, <1>9, <2>1 DEF ScriptInvariant, RegisteredOnce
<1>14. HandledOnce' BY <1>3, <1>4, <1>5, HandledKept DEF ScriptInvariant, Pushed
<1> QED BY <1>6, <1>11, <1>12, <1>13, <1>14 DEF ScriptInvariant

(* The script on top of t goes on: its frame changes its task only.        *)
LEMMA BecomeTop ==
  ASSUME ScriptInvariant, NEW t \in Threads, Top(t).task \in Building,
         NEW task \in Building, Become(t, task)
  PROVE  /\ stack[t] # <<>>
         /\ stack' \in [Threads -> Seq(AllFrames)]
         /\ Len(stack[t]) \in Nat /\ Top(t) \in AllFrames
         /\ At(stack, t, Len(stack[t]), Top(t))
         /\ \A f : At(stack, t, Len(stack[t]), f) => f = Top(t)
         /\ \E e \in AllFrames :
              /\ e.object = Top(t).object /\ e.task = task
              /\ Replaced(stack, stack', t, e)
<1>1. stack[t] # <<>> BY DEF Top, Idle, Building
<1>2. /\ Len(stack[t]) \in Nat /\ Top(t) \in AllFrames /\ Top(t) = Head(stack[t])
      /\ At(stack, t, Len(stack[t]), Top(t))
      /\ \A f : At(stack, t, Len(stack[t]), f) => f = Top(t)
  BY <1>1, TopSlot DEF ScriptInvariant
<1>3. PICK e : e = [Top(t) EXCEPT !.task = task] OBVIOUS
<1>4. Top(t) \in BuildingFrames BY <1>2, FrameTypes
<1>5. e \in AllFrames /\ e.object = Top(t).object /\ e.task = task
  BY <1>3, <1>4 DEF AllFrames, BuildingFrames
<1>6. stack \in [Threads -> Seq(AllFrames)] BY DEF ScriptInvariant, Types
<1>7. stack' = [stack EXCEPT ![t] = <<e>> \o Tail(@)] BY <1>2, <1>3 DEF Become
<1>8. stack' \in [Threads -> Seq(AllFrames)] /\ Replaced(stack, stack', t, e)
  BY <1>1, <1>5, <1>6, <1>7, BecomeSlots
<1> QED BY <1>1, <1>2, <1>5, <1>8

LEMMA BecomeInvariant ==
  ASSUME ScriptInvariant, NEW t \in Threads, Top(t).task \in Building,
         NEW task \in Building, Become(t, task),
         UNCHANGED <<allocated, mailbox, running, done>>,
         Registered' \subseteq Registered \cup {Top(t).object}
  PROVE  OnlyAllocated' /\ BuiltOnce' /\ HandledOnce'
<1>1. /\ Len(stack[t]) \in Nat /\ Top(t) \in AllFrames
      /\ At(stack, t, Len(stack[t]), Top(t))
      /\ \A f : At(stack, t, Len(stack[t]), f) => f = Top(t)
  BY BecomeTop
<1>2. PICK e \in AllFrames :
        e.object = Top(t).object /\ e.task = task /\ Replaced(stack, stack', t, e)
  BY BecomeTop
<1>3. Top(t).object <= allocated BY <1>1 DEF ScriptInvariant, OnlyAllocated
<1>4. e.task \in Building /\ e.task \notin Handling /\ Top(t).task \notin Handling
  BY <1>2 DEF Building, Handling
<1>5. OnlyAllocated'
  BY <1>1, <1>2, <1>3 DEF ScriptInvariant, OnlyAllocated, Replaced
<1>6. BuiltOnce'
  <2> SUFFICES ASSUME NEW u \in Threads, NEW v \in Threads, NEW m \in Nat, NEW n \in Nat,
                      NEW f \in AllFrames, NEW g \in AllFrames,
                      At(stack', u, m, f), At(stack', v, n, g), f.object = g.object
               PROVE  /\ f.task \in Building /\ g.task \in Building => u = v /\ m = n
                      /\ u = v => m = n
    BY DEF BuiltOnce
  <2>1. PICK k \in AllFrames : /\ At(stack, u, m, k) /\ k.object = f.object
                               /\ f.task \in Building => k.task \in Building
    BY <1>1, <1>2, <1>4 DEF Replaced
  <2>2. PICK l \in AllFrames : /\ At(stack, v, n, l) /\ l.object = g.object
                               /\ g.task \in Building => l.task \in Building
    BY <1>1, <1>2, <1>4 DEF Replaced
  <2> QED BY <2>1, <2>2 DEF ScriptInvariant, BuiltOnce
<1>7. HandledOnce'
  <2>1. ASSUME NEW u \in Threads, NEW n \in Nat, NEW f \in AllFrames, f.task \in Handling
        PROVE  At(stack', u, n, f) <=> At(stack, u, n, f)
    BY <1>1, <1>2, <1>4, <2>1 DEF Replaced
  <2> QED BY <2>1, HandledKept DEF ScriptInvariant
<1> QED BY <1>5, <1>6, <1>7

LEMMA CollectFunctionsInvariant ==
  ASSUME ScriptInvariant, NEW t \in Threads, CollectFunctions(t)
  PROVE  ScriptInvariant'
<1>1. /\ Top(t).task \in Building /\ "register" \in Building /\ Become(t, "register")
      /\ UNCHANGED <<allocated, id, service_id, service_map, auto_increment_id, mailbox, running, done, sent, known>>
  BY DEF CollectFunctions, Building, objects, mail
<1>2. Registered' = Registered BY <1>1 DEF Registered
<1>3. OnlyAllocated' /\ BuiltOnce' /\ HandledOnce' BY <1>1, <1>2, BecomeInvariant
<1>4. /\ stack' \in [Threads -> Seq(AllFrames)]
      /\ At(stack, t, Len(stack[t]), Top(t)) /\ Len(stack[t]) \in Nat /\ Top(t) \in AllFrames
  BY <1>1, BecomeTop
<1>5. PICK e \in AllFrames :
        e.object = Top(t).object /\ e.task = "register" /\ Replaced(stack, stack', t, e)
  BY <1>1, BecomeTop
<1>6. js_function_map' \in [Objects -> SUBSET Functions]
  BY DEF CollectFunctions, ScriptInvariant, Types
<1>7. Types' BY <1>1, <1>4, <1>6 DEF ScriptInvariant, Types
<1>8. ASSUME NEW u \in Threads, NEW n \in Nat, NEW f \in AllFrames, At(stack', u, n, f)
      PROVE  /\ f.task \in {"evaluate", "register"} => f.object \notin Registered
             /\ f.task \in {"init", "return"} => <<id[f.object], f.object>> \in service_map
  <2>1. CASE f = e
    <3>1. Top(t).object \notin Registered BY <1>4 DEF CollectFunctions, ScriptInvariant, RegisteredOnce
    <3> QED BY <1>5, <2>1, <3>1
  <2>2. CASE At(stack, u, n, f) BY <2>2 DEF ScriptInvariant, RegisteredOnce
  <2> QED BY <1>5, <1>8, <2>1, <2>2 DEF Replaced
<1>9. RegisteredOnce' BY <1>1, <1>2, <1>8 DEF ScriptInvariant, RegisteredOnce
<1> QED BY <1>3, <1>7, <1>9 DEF ScriptInvariant

LEMMA FinishInitInvariant ==
  ASSUME ScriptInvariant, NEW t \in Threads, FinishInit(t)
  PROVE  ScriptInvariant'
<1>1. /\ Top(t).task \in Building /\ "return" \in Building /\ Become(t, "return")
      /\ UNCHANGED <<allocated, id, service_id, js_function_map, service_map, auto_increment_id>>
      /\ UNCHANGED <<mailbox, running, done, sent, known>>
  BY DEF FinishInit, Building, objects, mail
<1>2. Registered' = Registered BY <1>1 DEF Registered
<1>3. OnlyAllocated' /\ BuiltOnce' /\ HandledOnce' BY <1>1, <1>2, BecomeInvariant
<1>4. /\ stack' \in [Threads -> Seq(AllFrames)]
      /\ At(stack, t, Len(stack[t]), Top(t)) /\ Len(stack[t]) \in Nat /\ Top(t) \in AllFrames
  BY <1>1, BecomeTop
<1>5. PICK e \in AllFrames :
        e.object = Top(t).object /\ e.task = "return" /\ Replaced(stack, stack', t, e)
  BY <1>1, BecomeTop
<1>7. Types' BY <1>1, <1>4 DEF ScriptInvariant, Types
<1>8. ASSUME NEW u \in Threads, NEW n \in Nat, NEW f \in AllFrames, At(stack', u, n, f)
      PROVE  /\ f.task \in {"evaluate", "register"} => f.object \notin Registered
             /\ f.task \in {"init", "return"} => <<id[f.object], f.object>> \in service_map
  <2>1. CASE f = e
    <3>1. <<id[Top(t).object], Top(t).object>> \in service_map
      BY <1>4 DEF FinishInit, ScriptInvariant, RegisteredOnce
    <3> QED BY <1>5, <2>1, <3>1
  <2>2. CASE At(stack, u, n, f) BY <2>2 DEF ScriptInvariant, RegisteredOnce
  <2> QED BY <1>5, <1>8, <2>1, <2>2 DEF Replaced
<1>9. RegisteredOnce' BY <1>1, <1>2, <1>8 DEF ScriptInvariant, RegisteredOnce
<1> QED BY <1>3, <1>7, <1>9 DEF ScriptInvariant

(* AddService finds its id unused, and the service not yet registered.     *)
LEMMA AddServiceInvariant ==
  ASSUME ScriptInvariant, NEW t \in Threads, AddService(t)
  PROVE  ScriptInvariant'
<1>1. PICK o : o = Top(t).object OBVIOUS
<1>2. PICK task \in {"init", "return"} : Become(t, task) BY DEF AddService, AfterAddService
<1>3. Top(t).task = "register" /\ Top(t).task \in Building /\ task \in Building
  BY <1>2 DEF AddService, Building
<1>4. UNCHANGED <<allocated, service_id, js_function_map, mailbox, running, done, sent, known>>
  BY DEF AddService, mail
<1>5. /\ stack' \in [Threads -> Seq(AllFrames)]
      /\ At(stack, t, Len(stack[t]), Top(t)) /\ Len(stack[t]) \in Nat /\ Top(t) \in AllFrames
  BY <1>2, <1>3, BecomeTop
<1>6. PICK e \in AllFrames : e.object = o /\ e.task = task /\ Replaced(stack, stack', t, e)
  BY <1>1, <1>2, <1>3, BecomeTop
<1>7. o \in Objects /\ o <= allocated /\ o \notin Registered
  <2>1. o \in Objects BY <1>1, <1>5, FrameTypes
  <2>2. o <= allocated BY <1>1, <1>5 DEF ScriptInvariant, OnlyAllocated
  <2> QED BY <1>1, <1>3, <1>5, <2>1, <2>2 DEF ScriptInvariant, RegisteredOnce
<1>8. auto_increment_id \in Nat /\ allocated \in Nat /\ allocated <= MaxServices /\ MaxServices \in Nat
  BY ScriptAssumption DEF ScriptInvariant, Types
<1>9. /\ service_map' = service_map \cup {<<auto_increment_id, o>>}
      /\ auto_increment_id' = auto_increment_id + 1
      /\ id' = [id EXCEPT ![o] = auto_increment_id]
  <2>1. \A p \in Objects : <<auto_increment_id, p>> \notin service_map
    BY <1>8 DEF ScriptInvariant, RegisteredOnce
  <2> QED BY <1>1, <2>1 DEF AddService
<1>10. Registered' = Registered \cup {o}
  <2>1. Registered' = {d[2] : d \in service_map'} BY DEF Registered
  <2>2. ASSUME NEW p PROVE p \in {d[2] : d \in service_map'} <=> p \in Registered \/ p = o
    <3>1. <<auto_increment_id, o>>[2] = o OBVIOUS
    <3>2. ASSUME p = o PROVE p \in {d[2] : d \in service_map'} BY <1>9, <3>1, <3>2
    <3>3. ASSUME p \in Registered PROVE p \in {d[2] : d \in service_map'}
      BY <1>9, <3>3 DEF Registered
    <3>4. ASSUME p \in {d[2] : d \in service_map'}, p # o PROVE p \in Registered
      BY <1>9, <3>1, <3>4 DEF Registered
    <3> QED BY <3>2, <3>3, <3>4
  <2> QED BY <2>1, <2>2
<1>11. IsFiniteSet(Registered) /\ Registered \cup {o} \subseteq 1 .. allocated
  <2>1. Registered \subseteq Objects BY DEF ScriptInvariant, Types, Registered
  <2>2. Registered \cup {o} \subseteq 1 .. allocated
    BY <1>7, <1>8, <2>1 DEF ScriptInvariant, OnlyAllocated, Objects
  <2>3. Registered \subseteq 1 .. allocated BY <2>2
  <2>4. IsFiniteSet(1 .. allocated) BY <1>8, FS_Interval
  <2>5. IsFiniteSet(Registered) BY <2>3, <2>4, FS_Subset
  <2> QED BY <2>2, <2>5
<1>12. Cardinality(Registered') = auto_increment_id + 1
  BY <1>7, <1>10, <1>11, FS_AddElement DEF ScriptInvariant, RegisteredOnce
<1>13. auto_increment_id + 1 <= MaxServices
  <2>1. IsFiniteSet(1 .. allocated) /\ Cardinality(1 .. allocated) = allocated
    BY <1>8, FS_Interval
  <2>2. Cardinality(Registered') <= allocated BY <1>10, <1>11, <2>1, FS_Subset
  <2> QED BY <1>8, <1>12, <2>2
<1>14. Types'
  <2>1. auto_increment_id \in Ids /\ auto_increment_id' \in 0 .. MaxServices
    BY <1>8, <1>9, <1>13 DEF Ids
  <2>2. id' \in [Objects -> Ids] BY <1>9, <2>1 DEF ScriptInvariant, Types
  <2>3. service_map' \in SUBSET (Ids \X Objects)
    BY <1>7, <1>9, <2>1 DEF ScriptInvariant, Types
  <2> QED BY <1>4, <1>5, <2>1, <2>2, <2>3 DEF ScriptInvariant, Types
<1>15. OnlyAllocated' /\ BuiltOnce' /\ HandledOnce'
  <2>1. UNCHANGED <<allocated, mailbox, running, done>> BY <1>4
  <2>2. Registered' \subseteq Registered \cup {Top(t).object} BY <1>1, <1>10
  <2> QED BY <1>2, <1>3, <2>1, <2>2, BecomeInvariant
<1>16. ASSUME NEW u \in Threads, NEW n \in Nat, NEW f \in AllFrames, At(stack', u, n, f)
       PROVE  /\ f.task \in {"evaluate", "register"} => f.object \notin Registered'
              /\ f.task \in {"init", "return"} => <<id'[f.object], f.object>> \in service_map'
  <2>1. CASE u = t /\ n = Len(stack[t])
    <3>1. f = e BY <1>6, <1>16, <2>1 DEF Replaced
    <3>2. id'[o] = auto_increment_id BY <1>7, <1>9 DEF ScriptInvariant, Types
    <3> QED BY <1>6, <1>9, <3>1, <3>2
  <2>2. CASE ~(u = t /\ n = Len(stack[t]))
    <3>1. At(stack, u, n, f) BY <1>6, <1>16, <2>2 DEF Replaced
    <3>2. ASSUME f.task \in {"evaluate", "register"} PROVE f.object \notin Registered'
      <4>1. f.task \in Building BY <3>2 DEF Building
      <4>2. f.object # o BY <1>1, <1>3, <1>5, <2>2, <3>1, <4>1 DEF ScriptInvariant, BuiltOnce
      <4> QED BY <1>10, <3>1, <3>2, <4>2 DEF ScriptInvariant, RegisteredOnce
    <3>3. ASSUME f.task \in {"init", "return"}
          PROVE  <<id'[f.object], f.object>> \in service_map'
      <4>1. <<id[f.object], f.object>> \in service_map
        BY <3>1, <3>3 DEF ScriptInvariant, RegisteredOnce
      <4>2. f.object \in Registered BY <4>1 DEF Registered
      <4>3. f.object \in Objects BY FrameTypes
      <4>4. id'[f.object] = id[f.object] BY <1>7, <1>9, <4>2, <4>3 DEF ScriptInvariant, Types
      <4> QED BY <1>9, <4>1, <4>4
    <3> QED BY <3>2, <3>3
  <2> QED BY <2>1, <2>2
<1>17. \A d \in service_map' : d[1] < auto_increment_id'
  <2>1. \A d \in service_map : d[1] \in Int BY DEF ScriptInvariant, Types, Ids
  <2>2. \A d \in service_map : d[1] < auto_increment_id BY DEF ScriptInvariant, RegisteredOnce
  <2>3. ASSUME NEW d \in service_map' PROVE d[1] < auto_increment_id'
    <3>1. CASE d \in service_map BY <1>8, <1>9, <2>1, <2>2, <3>1
    <3>2. CASE d = <<auto_increment_id, o>> BY <1>8, <1>9, <3>2
    <3> QED BY <1>9, <3>1, <3>2
  <2> QED BY <2>3
<1>18. ASSUME NEW c \in service_map', NEW d \in service_map' PROVE c[1] = d[1] <=> c[2] = d[2]
  <2>1. ASSUME NEW b \in service_map PROVE b[1] # auto_increment_id /\ b[2] # o
    <3>1. b[2] # o BY <1>7 DEF Registered
    <3>2. b[1] < auto_increment_id BY DEF ScriptInvariant, RegisteredOnce
    <3>3. b[1] # auto_increment_id BY <1>8, <3>2
    <3> QED BY <3>1, <3>3
  <2>2. CASE c \in service_map /\ d \in service_map BY <2>2 DEF ScriptInvariant, RegisteredOnce
  <2>3. CASE c = <<auto_increment_id, o>> BY <1>9, <2>1, <2>3
  <2>4. CASE d = <<auto_increment_id, o>> BY <1>9, <2>1, <2>4
  <2> QED BY <1>9, <2>2, <2>3, <2>4
<1>19. RegisteredOnce'
  <2>1. known' \subseteq service_map' BY <1>4, <1>9 DEF ScriptInvariant, RegisteredOnce
  <2>2. Cardinality(Registered') = auto_increment_id' BY <1>9, <1>12
  <2> QED BY <1>16, <1>17, <1>18, <2>1, <2>2 DEF RegisteredOnce
<1> QED BY <1>14, <1>15, <1>19 DEF ScriptInvariant

(* The script on top of t leaves the stack.                                *)
LEMMA PopTop ==
  ASSUME ScriptInvariant, NEW t \in Threads, stack[t] # <<>>, Pop(t)
  PROVE  /\ stack' \in [Threads -> Seq(AllFrames)]
         /\ At(stack, t, Len(stack[t]), Top(t)) /\ Len(stack[t]) \in Nat /\ Top(t) \in AllFrames
         /\ \A f : At(stack, t, Len(stack[t]), f) => f = Top(t)
         /\ Popped(stack, stack', t)
  BY TopSlot, PopSlots DEF ScriptInvariant, Types, Pop

LEMMA PopInvariant ==
  ASSUME ScriptInvariant, NEW t \in Threads, stack[t] # <<>>, Pop(t),
         UNCHANGED <<allocated, id, service_map, auto_increment_id, mailbox>>,
         known' \subseteq service_map
  PROVE  OnlyAllocated' /\ BuiltOnce' /\ RegisteredOnce'
<1>1. \A u \in Threads, n \in Nat, f \in AllFrames : At(stack', u, n, f) => At(stack, u, n, f)
  BY PopTop DEF Popped
<1>2. Registered' = Registered BY DEF Registered
<1>3. OnlyAllocated' BY <1>1, <1>2 DEF ScriptInvariant, OnlyAllocated
<1>4. BuiltOnce' BY <1>1 DEF ScriptInvariant, BuiltOnce
<1>5. RegisteredOnce' BY <1>1, <1>2 DEF ScriptInvariant, RegisteredOnce
<1> QED BY <1>3, <1>4, <1>5

LEMMA ReturnIdInvariant ==
  ASSUME ScriptInvariant, NEW t \in Threads, ReturnId(t)
  PROVE  ScriptInvariant'
<1>1. /\ stack[t] # <<>> /\ Pop(t) /\ Top(t).task = "return" /\ Top(t).task \notin Handling
      /\ UNCHANGED <<allocated, id, service_id, js_function_map, service_map, auto_increment_id>>
      /\ UNCHANGED <<mailbox, running, done, sent>>
  BY DEF ReturnId, Top, Idle, Handling, objects, mail
<1>2. /\ stack' \in [Threads -> Seq(AllFrames)]
      /\ At(stack, t, Len(stack[t]), Top(t)) /\ Len(stack[t]) \in Nat /\ Top(t) \in AllFrames
      /\ \A f : At(stack, t, Len(stack[t]), f) => f = Top(t)
      /\ Popped(stack, stack', t)
  BY <1>1, PopTop
<1>3. known' \subseteq service_map
  <2>1. <<id[Top(t).object], Top(t).object>> \in service_map
    BY <1>1, <1>2 DEF ScriptInvariant, RegisteredOnce
  <2> QED BY <2>1 DEF ReturnId, ReturnedId, ScriptInvariant, RegisteredOnce
<1>4. OnlyAllocated' /\ BuiltOnce' /\ RegisteredOnce' BY <1>1, <1>3, PopInvariant
<1>5. HandledOnce'
  <2>1. ASSUME NEW u \in Threads, NEW n \in Nat, NEW f \in AllFrames, f.task \in Handling
        PROVE  At(stack', u, n, f) <=> At(stack, u, n, f)
    BY <1>1, <1>2, <2>1 DEF Popped
  <2> QED BY <1>1, <2>1, HandledKept DEF ScriptInvariant
<1>6. Types' BY <1>1, <1>2 DEF ScriptInvariant, Types
<1> QED BY <1>4, <1>5, <1>6 DEF ScriptInvariant

(* A message is new, and goes to a registered service.                     *)
LEMMA SendInvariant ==
  ASSUME ScriptInvariant, NEW t \in Threads, Send(t)
  PROVE  ScriptInvariant'
<1>1. UNCHANGED <<stack, allocated, id, service_id, js_function_map, service_map, auto_increment_id, known>>
  BY DEF Send, objects
<1>2. sent' \in Nat BY DEF Send, ScriptInvariant, Types
<1>3. Registered' = Registered BY <1>1 DEF Registered
<1>4. BuiltOnce' /\ RegisteredOnce'
  BY <1>1, <1>3 DEF ScriptInvariant, BuiltOnce, RegisteredOnce
<1>5. CASE UNCHANGED mail
  <2>1. UNCHANGED <<mailbox, running, done>> BY <1>5 DEF mail
  <2>2. Types' BY <1>1, <1>2, <2>1 DEF ScriptInvariant, Types
  <2>3. OnlyAllocated' BY <1>1, <1>3, <2>1 DEF ScriptInvariant, OnlyAllocated
  <2>4. HandledOnce' BY <1>1, <2>1, HandledKept DEF ScriptInvariant
  <2> QED BY <1>4, <2>2, <2>3, <2>4 DEF ScriptInvariant
<1>6. CASE ~UNCHANGED mail
  <2>1. Top(t) \in AllFrames
    <3>1. stack[t] # <<>> BY DEF Send, InScript, Top, Idle
    <3> QED BY <3>1, TopSlot DEF ScriptInvariant
  <2>2. Top(t).object \in Objects /\ service_id[Top(t).object] \in Ids
    BY <2>1, FrameTypes DEF ScriptInvariant, Types
  <2>3. PICK target \in Ids, function \in Functions, o \in Objects :
          /\ <<target, o>> \in service_map
          /\ Mail!Post(o, [id |-> sent, source |-> service_id[Top(t).object],
                           function |-> function, sender |-> Top(t).object])
    BY <1>6 DEF Send
  <2>4. PICK m : m = [id |-> sent, source |-> service_id[Top(t).object],
                      function |-> function, sender |-> Top(t).object]
    OBVIOUS
  <2>5. m \in ServiceMessages BY <2>2, <2>3, <2>4 DEF ServiceMessages, ScriptInvariant, Types
  <2>6. o \in Registered
    <3>1. <<target, o>>[2] = o OBVIOUS
    <3> QED BY <2>3, <3>1 DEF Registered
  <2>7. /\ mailbox' = [mailbox EXCEPT ![o] = Append(@, m)] /\ UNCHANGED <<running, done>>
        /\ m \notin {r[2] : r \in running} /\ m \notin done
        /\ \A p \in Objects : m \notin Elements(mailbox[p])
    BY <2>3, <2>4 DEF Mail!Post, Mail!Accepted, Mail!Active, Mail!Waiting, Elements
  <2>8. mailbox \in [Objects -> Seq(ServiceMessages)] /\ Once(Objects, mailbox, {r[2] : r \in running}, done)
    BY DEF ScriptInvariant, Types, HandledOnce
  <2> PICK active : active = {r[2] : r \in running} OBVIOUS
  <2>9. /\ mailbox' \in [Objects -> Seq(ServiceMessages)]
        /\ Once(Objects, mailbox', active, done)
    <3>1. /\ m \notin active /\ m \notin done /\ \A p \in Objects : m \notin Elements(mailbox[p])
          /\ Once(Objects, mailbox, active, done)
          /\ mailbox' = [mailbox EXCEPT ![o] = Append(@, m)]
      BY <2>7, <2>8
    <3> HIDE <2>7
    <3> QED BY <2>5, <2>8, <3>1, PostOnce
  <2>10. Types' BY <1>1, <1>2, <2>7, <2>9 DEF ScriptInvariant, Types
  <2>11. OnlyAllocated' BY <1>1, <1>3, <2>6, <2>7, <2>8 DEF ScriptInvariant, OnlyAllocated
  <2>12. HandledOnce' BY <1>1, <2>7, <2>9 DEF ScriptInvariant, HandledOnce
  <2> QED BY <1>4, <2>10, <2>11, <2>12 DEF ScriptInvariant
<1> QED BY <1>5, <1>6

LEMMA StartHandlerInvariant ==
  ASSUME ScriptInvariant, NEW w \in Workers, NEW o \in Objects, StartHandler(w, o)
  PROVE  ScriptInvariant'
<1>1. /\ w \in Threads /\ stack[w] = <<>> /\ mailbox[o] # <<>>
      /\ UNCHANGED <<allocated, id, service_id, js_function_map, service_map, auto_increment_id>>
      /\ UNCHANGED <<done, sent, known>>
  BY DEF StartHandler, Threads, Free, Mail!Start, objects
<1>2. PICK m : m = Head(mailbox[o]) OBVIOUS
<1>3. /\ mailbox' = [mailbox EXCEPT ![o] = Tail(@)]
      /\ running' = running \cup {<<o, m>>}
  BY <1>2 DEF StartHandler, Mail!Start
<1>4. mailbox \in [Objects -> Seq(ServiceMessages)] /\ Once(Objects, mailbox, {r[2] : r \in running}, done)
  BY DEF ScriptInvariant, Types, HandledOnce
<1>5. /\ mailbox' \in [Objects -> Seq(ServiceMessages)]
      /\ Once(Objects, mailbox', {r[2] : r \in running} \cup {m}, done)
      /\ m \in ServiceMessages /\ m \notin {r[2] : r \in running}
  <2> PICK active : active = {r[2] : r \in running} OBVIOUS
  <2>1. Once(Objects, mailbox, active, done) BY <1>4
  <2>2. /\ mailbox' \in [Objects -> Seq(ServiceMessages)]
        /\ Once(Objects, mailbox', active \cup {m}, done)
        /\ m \in ServiceMessages /\ m \notin active
    <3>1. mailbox[o] # <<>> /\ mailbox \in [Objects -> Seq(ServiceMessages)] BY <1>1, <1>4
    <3>2. mailbox' = [mailbox EXCEPT ![o] = Tail(@)] BY <1>3
    <3>3. mailbox' \in [Objects -> Seq(ServiceMessages)] /\ Once(Objects, mailbox', active \cup {m}, done)
      BY <1>2, <2>1, <3>1, <3>2, StartOnce
    <3>4. m \in ServiceMessages /\ m \in Elements(mailbox[o])
      <4>1. mailbox[o] \in Seq(ServiceMessages) BY <3>1
      <4> QED BY <1>2, <3>1, <4>1, HeadWaits
    <3>5. m \notin active BY <2>1, <3>4 DEF Once
    <3> QED BY <3>3, <3>4, <3>5
  <2> QED BY <2>2
<1>6. PICK e : e = [object |-> o, message |-> m, task |-> Task(o)] OBVIOUS
<1>7. /\ e \in AllFrames /\ e.object = o /\ e.message = m
      /\ e.task \in Handling /\ e.task \notin Building
  <2>1. Task(o) \in Handling /\ Task(o) \notin Building BY DEF Task, Handling, Building
  <2> QED BY <1>5, <1>6, <2>1 DEF AllFrames, HandlingFrames
<1>8. stack \in [Threads -> Seq(AllFrames)] BY DEF ScriptInvariant, Types
<1>9. stack' = [stack EXCEPT ![w] = <<e>> \o @]
  BY <1>2, <1>6 DEF StartHandler, Execute, Frame, Push
<1>10. stack' \in [Threads -> Seq(AllFrames)] /\ Pushed(stack, stack', w, e)
  BY <1>1, <1>7, <1>8, <1>9, PushSlots
<1>11. \A n \in Nat, f \in AllFrames : ~At(stack, w, n, f)
  <2>1. Len(stack[w]) = 0 BY <1>1
  <2> QED BY <2>1 DEF At
<1>12. Registered' = Registered BY <1>1 DEF Registered
<1>13. o <= allocated BY <1>1 DEF ScriptInvariant, OnlyAllocated
<1>14. OnlyAllocated'
  <2>1. \A p \in Objects : mailbox'[p] # <<>> => p <= allocated
    BY <1>3, <1>4, <1>13 DEF ScriptInvariant, OnlyAllocated
  <2> QED BY <1>1, <1>7, <1>10, <1>12, <1>13, <2>1 DEF ScriptInvariant, OnlyAllocated, Pushed
<1>15. BuiltOnce' BY <1>7, <1>10, <1>11 DEF ScriptInvariant, BuiltOnce, Pushed
<1>16. RegisteredOnce'
  <2>1. e.task \notin {"evaluate", "register"} /\ e.task \notin {"init", "return"}
    BY <1>7 DEF Building
  <2>2. ASSUME NEW u \in Threads, NEW n \in Nat, NEW f \in AllFrames, At(stack', u, n, f)
        PROVE  /\ f.task \in {"evaluate", "register"} => f.object \notin Registered
               /\ f.task \in {"init", "return"} => <<id[f.object], f.object>> \in service_map
    BY <1>10, <2>1, <2>2 DEF ScriptInvariant, RegisteredOnce, Pushed
  <2> QED BY <1>1, <1>12, <2>2 DEF ScriptInvariant, RegisteredOnce
<1>17. Types'
  <2>1. running' \in SUBSET (Objects \X ServiceMessages) BY <1>3, <1>5 DEF ScriptInvariant, Types
  <2> QED BY <1>1, <1>5, <1>10, <2>1 DEF ScriptInvariant, Types
<1>18. HandledOnce'
  <2>1. {r[2] : r \in running'} = {r[2] : r \in running} \cup {m}
    <3>1. <<o, m>>[2] = m OBVIOUS
    <3>2. ASSUME NEW p PROVE p \in {r[2] : r \in running'} <=> p \in {r[2] : r \in running} \/ p = m
      <4>1. ASSUME p = m PROVE p \in {r[2] : r \in running'} BY <1>3, <3>1, <4>1
      <4>2. ASSUME p \in {r[2] : r \in running} PROVE p \in {r[2] : r \in running'} BY <1>3, <4>2
      <4>3. ASSUME p \in {r[2] : r \in running'}, p # m PROVE p \in {r[2] : r \in running}
        BY <1>3, <3>1, <4>3
      <4> QED BY <4>1, <4>2, <4>3
    <3> QED BY <3>2
  <2>2. Once(Objects, mailbox', {r[2] : r \in running'}, done') BY <1>1, <1>5, <2>1
  <2>3. ASSUME NEW u \in Threads, NEW n \in Nat, NEW f \in AllFrames,
               At(stack', u, n, f), f.task \in Handling
        PROVE  <<f.object, f.message>> \in running'
    BY <1>3, <1>7, <1>10, <2>3 DEF ScriptInvariant, HandledOnce, Pushed
  <2>4. ASSUME NEW r \in running'
        PROVE  \E u \in Threads, n \in Nat, f \in AllFrames :
                 At(stack', u, n, f) /\ f.task \in Handling /\ r = <<f.object, f.message>>
    <3>1. CASE r = <<o, m>>
      <4>1. Len(stack[w]) + 1 \in Nat BY <1>1, <1>8
      <4>2. At(stack', w, Len(stack[w]) + 1, e) BY <1>1, <1>7, <1>10, <4>1 DEF Pushed
      <4> QED BY <1>1, <1>7, <3>1, <4>1, <4>2
    <3>2. CASE r \in running
      <4>1. PICK u \in Threads, n \in Nat, f \in AllFrames :
              At(stack, u, n, f) /\ f.task \in Handling /\ r = <<f.object, f.message>>
        BY <3>2 DEF ScriptInvariant, HandledOnce
      <4>2. At(stack', u, n, f) BY <1>10, <4>1 DEF Pushed
      <4> QED BY <4>1, <4>2
    <3> QED BY <1>3, <3>1, <3>2
  <2>5. ASSUME NEW u \in Threads, NEW n \in Nat, NEW f \in AllFrames,
               At(stack, u, n, f), f.task \in Handling
        PROVE  f.message # m
    <3>1. <<f.object, f.message>> \in running BY <2>5 DEF ScriptInvariant, HandledOnce
    <3>2. <<f.object, f.message>>[2] = f.message OBVIOUS
    <3> QED BY <1>5, <3>1, <3>2
  <2>6. ASSUME NEW u \in Threads, NEW v \in Threads, NEW k \in Nat, NEW n \in Nat,
               NEW f \in AllFrames, NEW g \in AllFrames,
               At(stack', u, k, f), At(stack', v, n, g),
               f.task \in Handling, g.task \in Handling, f.message = g.message
        PROVE  u = v /\ k = n
    <3>1. CASE At(stack, u, k, f) /\ At(stack, v, n, g)
      BY <2>6, <3>1 DEF ScriptInvariant, HandledOnce
    <3>2. CASE ~At(stack, u, k, f) \/ ~At(stack, v, n, g)
      BY <1>7, <1>10, <2>5, <2>6, <3>2 DEF Pushed
    <3> QED BY <3>1, <3>2
  <2> QED BY <2>2, <2>3, <2>4, <2>6 DEF HandledOnce
<1> QED BY <1>14, <1>15, <1>16, <1>17, <1>18 DEF ScriptInvariant

LEMMA FinishHandlerInvariant ==
  ASSUME ScriptInvariant, NEW t \in Threads, FinishHandler(t)
  PROVE  ScriptInvariant'
<1>1. /\ stack[t] # <<>> /\ Pop(t) /\ Top(t).task \in Handling
      /\ UNCHANGED <<allocated, id, service_id, js_function_map, service_map, auto_increment_id>>
      /\ UNCHANGED <<mailbox, sent, known>>
  BY DEF FinishHandler, Top, Idle, Handling, objects, Mail!Finish
<1>2. /\ stack' \in [Threads -> Seq(AllFrames)]
      /\ At(stack, t, Len(stack[t]), Top(t)) /\ Len(stack[t]) \in Nat /\ Top(t) \in AllFrames
      /\ \A f : At(stack, t, Len(stack[t]), f) => f = Top(t)
      /\ Popped(stack, stack', t)
  BY <1>1, PopTop
<1>3. known' \subseteq service_map BY <1>1 DEF ScriptInvariant, RegisteredOnce
<1>4. OnlyAllocated' /\ BuiltOnce' /\ RegisteredOnce' BY <1>1, <1>3, PopInvariant
<1>5. PICK o, m : o = Top(t).object /\ m = Top(t).message OBVIOUS
<1>6. /\ <<o, m>> \in running /\ running' = running \ {<<o, m>>} /\ done' = done \cup {m}
  BY <1>5 DEF FinishHandler, Mail!Finish
<1>7. m \in {r[2] : r \in running} /\ m \in ServiceMessages
  <2>1. <<o, m>>[2] = m OBVIOUS
  <2> QED BY <1>6, <2>1 DEF ScriptInvariant, Types
<1>8. Types' BY <1>1, <1>2, <1>6, <1>7 DEF ScriptInvariant, Types
<1>9. ASSUME NEW u \in Threads, NEW n \in Nat, NEW f \in AllFrames,
             At(stack, u, n, f), f.task \in Handling, f.message = m
      PROVE  u = t /\ n = Len(stack[t]) /\ f = Top(t)
  <2>1. u = t /\ n = Len(stack[t]) BY <1>1, <1>2, <1>5, <1>9 DEF ScriptInvariant, HandledOnce
  <2> QED BY <1>2, <1>9, <2>1
<1>10. {r[2] : r \in running'} = {r[2] : r \in running} \ {m}
  <2>1. ASSUME NEW r \in running, r[2] = m PROVE r = <<o, m>>
    <3>1. PICK u \in Threads, n \in Nat, f \in AllFrames :
            At(stack, u, n, f) /\ f.task \in Handling /\ r = <<f.object, f.message>>
      BY DEF ScriptInvariant, HandledOnce
    <3>2. f.message = m BY <2>1, <3>1
    <3> QED BY <1>5, <1>9, <3>1, <3>2
  <2>2. <<o, m>>[2] = m OBVIOUS
  <2> QED BY <1>6, <2>1, <2>2
<1>11. HandledOnce'
  <2>1. Once(Objects, mailbox, {r[2] : r \in running}, done) BY DEF ScriptInvariant, HandledOnce
  <2>2. Once(Objects, mailbox', {r[2] : r \in running'}, done')
    <3> PICK active : active = {r[2] : r \in running} OBVIOUS
    <3>1. Once(Objects, mailbox, active, done) /\ m \in active BY <1>7, <2>1
    <3>2. Once(Objects, mailbox, active \ {m}, done \cup {m}) BY <3>1, FinishOnce
    <3> QED BY <1>1, <1>6, <1>10, <3>2
  <2>3. ASSUME NEW u \in Threads, NEW n \in Nat, NEW f \in AllFrames,
               At(stack', u, n, f), f.task \in Handling
        PROVE  <<f.object, f.message>> \in running'
    <3>1. At(stack, u, n, f) /\ ~(u = t /\ n = Len(stack[t])) BY <1>2, <2>3 DEF Popped
    <3>2. f.message # m BY <1>9, <2>3, <3>1
    <3>3. <<f.object, f.message>> \in running BY <2>3, <3>1 DEF ScriptInvariant, HandledOnce
    <3> QED BY <1>6, <3>2, <3>3
  <2>4. ASSUME NEW r \in running'
        PROVE  \E u \in Threads, n \in Nat, f \in AllFrames :
                 At(stack', u, n, f) /\ f.task \in Handling /\ r = <<f.object, f.message>>
    <3>1. PICK u \in Threads, n \in Nat, f \in AllFrames :
            At(stack, u, n, f) /\ f.task \in Handling /\ r = <<f.object, f.message>>
      BY <1>6 DEF ScriptInvariant, HandledOnce
    <3>2. ~(u = t /\ n = Len(stack[t])) BY <1>2, <1>5, <1>6, <3>1
    <3>3. At(stack', u, n, f) BY <1>2, <3>1, <3>2 DEF Popped
    <3> QED BY <3>1, <3>3
  <2>5. ASSUME NEW u \in Threads, NEW v \in Threads, NEW k \in Nat, NEW n \in Nat,
               NEW f \in AllFrames, NEW g \in AllFrames,
               At(stack', u, k, f), At(stack', v, n, g),
               f.task \in Handling, g.task \in Handling, f.message = g.message
        PROVE  u = v /\ k = n
    BY <1>2, <2>5 DEF ScriptInvariant, HandledOnce, Popped
  <2> QED BY <2>2, <2>3, <2>4, <2>5 DEF HandledOnce
<1> QED BY <1>4, <1>8, <1>11 DEF ScriptInvariant

------------------------------------------------------------------------------
LEMMA StutterInvariant ==
  ASSUME ScriptInvariant, UNCHANGED vars
  PROVE  ScriptInvariant'
<1>1. /\ UNCHANGED <<stack, allocated, id, service_id, js_function_map, service_map>>
      /\ UNCHANGED <<auto_increment_id, mailbox, running, done, sent, known>>
  BY DEF vars, objects, mail
<1>2. Registered' = Registered BY <1>1 DEF Registered
<1>3. Types' BY <1>1 DEF ScriptInvariant, Types
<1>4. OnlyAllocated' BY <1>1, <1>2 DEF ScriptInvariant, OnlyAllocated
<1>5. BuiltOnce' BY <1>1 DEF ScriptInvariant, BuiltOnce
<1>6. RegisteredOnce' BY <1>1, <1>2 DEF ScriptInvariant, RegisteredOnce
<1>7. HandledOnce' BY <1>1, HandledKept DEF ScriptInvariant
<1> QED BY <1>3, <1>4, <1>5, <1>6, <1>7 DEF ScriptInvariant

LEMMA StepInvariant == ScriptInvariant /\ [Next]_vars => ScriptInvariant'
<1> SUFFICES ASSUME ScriptInvariant, [Next]_vars PROVE ScriptInvariant' OBVIOUS
<1>1. CASE UNCHANGED vars BY <1>1, StutterInvariant
<1>2. ASSUME NEW t \in Threads, NewScriptService(t) \/ Send(t) \/ ScriptStep(t)
      PROVE  ScriptInvariant'
  <2>1. CASE NewScriptService(t) BY <2>1, NewScriptServiceInvariant
  <2>2. CASE Send(t) BY <2>2, SendInvariant
  <2>3. CASE CollectFunctions(t) BY <2>3, CollectFunctionsInvariant
  <2>4. CASE AddService(t) BY <2>4, AddServiceInvariant
  <2>5. CASE FinishInit(t) BY <2>5, FinishInitInvariant
  <2>6. CASE ReturnId(t) BY <2>6, ReturnIdInvariant
  <2>7. CASE FinishHandler(t) BY <2>7, FinishHandlerInvariant
  <2> QED BY <1>2, <2>1, <2>2, <2>3, <2>4, <2>5, <2>6, <2>7 DEF ScriptStep
<1>3. ASSUME NEW w \in Workers, NEW o \in Objects, StartHandler(w, o)
      PROVE  ScriptInvariant'
  BY <1>3, StartHandlerInvariant
<1> QED BY <1>1, <1>2, <1>3 DEF Next

(* The five conjuncts of ScriptInvariant hold in every reachable state.    *)
THEOREM ScriptInvariantHolds == Spec => []ScriptInvariant
<1>1. Init => ScriptInvariant BY InitInvariant
<1>2. ScriptInvariant /\ [Next]_vars => ScriptInvariant' BY StepInvariant
<1> QED BY <1>1, <1>2, PTL DEF Spec

------------------------------------------------------------------------------
(* Frames by their place from the top, as ScriptProperties counts them.    *)
LEMMA FramePlaces ==
  ASSUME Types, NEW t \in Threads
  PROVE  /\ Len(stack[t]) \in Nat
         /\ \A k \in 1 .. Len(stack[t]) :
              /\ stack[t][k] \in AllFrames
              /\ Len(stack[t]) + 1 - k \in Nat
              /\ At(stack, t, Len(stack[t]) + 1 - k, stack[t][k])
         /\ \A n \in Nat : \A f : At(stack, t, n, f) => f \in Frames(t)
         /\ \A f \in Frames(t) : f \in AllFrames /\ \E n \in Nat : At(stack, t, n, f)
<1>1. PICK q \in Seq(AllFrames) : q = stack[t] BY DEF Types
<1>2. Len(q) \in Nat OBVIOUS
<1>3. ASSUME NEW k \in 1 .. Len(q)
      PROVE  /\ q[k] \in AllFrames /\ Len(q) + 1 - k \in Nat
             /\ At(stack, t, Len(q) + 1 - k, q[k])
  <2>1. Len(q) + 1 - k \in 1 .. Len(q) /\ Len(q) + 1 - (Len(q) + 1 - k) = k BY <1>2
  <2> QED BY <1>1, <2>1 DEF At, Slot
<1>4. ASSUME NEW n \in Nat, NEW f, At(stack, t, n, f) PROVE f \in Frames(t)
  <2>1. n \in 1 .. Len(q) /\ f = q[Len(q) + 1 - n] BY <1>1, <1>4 DEF At, Slot
  <2>2. Len(q) + 1 - n \in 1 .. Len(q) BY <1>2, <2>1
  <2> QED BY <1>1, <2>1, <2>2 DEF Frames
<1>5. ASSUME NEW f \in Frames(t) PROVE f \in AllFrames /\ \E n \in Nat : At(stack, t, n, f)
  <2>1. PICK k \in 1 .. Len(q) : f = q[k] BY <1>1 DEF Frames
  <2> QED BY <1>3, <2>1
<1> QED BY <1>1, <1>2, <1>3, <1>4, <1>5

(* The stacks, ids, maps and mailboxes have their types, and what the      *)
(* mailboxes hold as running is what is on the workers' stacks.            *)
THEOREM ScriptTypes == Spec => []TypeOK
<1> SUFFICES ASSUME ScriptInvariant PROVE TypeOK BY ScriptInvariantHolds, PTL
<1>1. Types BY DEF ScriptInvariant
<1>2. ASSUME NEW t \in Threads, NEW f \in Frames(t)
      PROVE  f.object \in 1 .. allocated /\ f.task \in Tasks
  <2>1. f \in AllFrames /\ \E n \in Nat : At(stack, t, n, f) BY <1>1, FramePlaces
  <2>2. f.object \in 1 .. MaxServices /\ f.task \in Building \cup Handling
    BY <2>1, FrameTypes DEF Objects
  <2>3. f.object <= allocated /\ allocated \in 0 .. MaxServices
    BY <2>1 DEF ScriptInvariant, Types, OnlyAllocated
  <2> QED BY <2>2, <2>3, ScriptAssumption DEF Tasks, Building, Handling
<1>3. Mail!Accepted \subseteq ServiceMessages
  <2>1. ASSUME NEW o \in Objects PROVE Mail!Waiting(o) \subseteq ServiceMessages
    <3>1. mailbox[o] \in Seq(ServiceMessages) BY <1>1 DEF Types
    <3> QED BY <3>1 DEF Mail!Waiting
  <2>2. Mail!Active \subseteq ServiceMessages /\ done \subseteq ServiceMessages
    BY <1>1 DEF Types, Mail!Active
  <2> QED BY <2>1, <2>2 DEF Mail!Accepted
<1>4. ASSUME NEW r
      PROVE  r \in running <=>
               \E t \in Threads : \E f \in Frames(t) :
                 f.task \in {"handle", "skip"} /\ r = <<f.object, f.message>>
  <2>1. ASSUME r \in running
        PROVE  \E t \in Threads : \E f \in Frames(t) :
                 f.task \in {"handle", "skip"} /\ r = <<f.object, f.message>>
    <3>1. PICK t \in Threads, n \in Nat, f \in AllFrames :
            At(stack, t, n, f) /\ f.task \in Handling /\ r = <<f.object, f.message>>
      BY <2>1 DEF ScriptInvariant, HandledOnce
    <3>2. f \in Frames(t) BY <1>1, <3>1, FramePlaces
    <3> QED BY <3>1, <3>2 DEF Handling
  <2>2. ASSUME NEW t \in Threads, NEW f \in Frames(t),
               f.task \in {"handle", "skip"}, r = <<f.object, f.message>>
        PROVE  r \in running
    <3>1. f \in AllFrames /\ \E n \in Nat : At(stack, t, n, f) BY <1>1, FramePlaces
    <3> QED BY <2>2, <3>1 DEF ScriptInvariant, HandledOnce, Handling
  <2> QED BY <2>1, <2>2
<1>5. running = UNION {{<<f.object, f.message>> : f \in {g \in Frames(t) : g.task \in {"handle", "skip"}}} :
                        t \in Threads}
  BY <1>4
<1> QED BY <1>1, <1>2, <1>3, <1>5 DEF Types, TypeOK

(* What newService has returned names the service it has created, for good.*)
THEOREM KnownIds == Spec => []KnownIdsNameTheService
<1>1. ScriptInvariant => KnownIdsNameTheService
  BY DEF ScriptInvariant, RegisteredOnce, KnownIdsNameTheService
<1> QED BY <1>1, ScriptInvariantHolds, PTL

(* No message reaches a service whose constructor has not returned.        *)
THEOREM RegisteredEvaluated == Spec => []RegisteredIsEvaluated
<1> SUFFICES ASSUME ScriptInvariant PROVE RegisteredIsEvaluated BY ScriptInvariantHolds, PTL
<1> SUFFICES ASSUME NEW e \in service_map, NEW t \in Threads, NEW f \in Frames(t), f.object = e[2]
             PROVE  f.task \notin {"evaluate", "register"}
  BY DEF RegisteredIsEvaluated
<1>1. f \in AllFrames /\ \E n \in Nat : At(stack, t, n, f) BY FramePlaces DEF ScriptInvariant
<1>2. f.object \in Registered BY DEF Registered
<1> QED BY <1>1, <1>2 DEF ScriptInvariant, RegisteredOnce

(* However scripts nest by newService, a thread is in an isolate once.     *)
THEOREM NoThreadReenters == Spec => []NoReentry
<1> SUFFICES ASSUME ScriptInvariant PROVE NoReentry BY ScriptInvariantHolds, PTL
<1> SUFFICES ASSUME NEW t \in Threads, NEW m \in 1 .. Len(stack[t]), NEW n \in 1 .. Len(stack[t]),
                    stack[t][m].object = stack[t][n].object
             PROVE  m = n
  BY DEF NoReentry
<1>1. Types BY DEF ScriptInvariant
<1>2. /\ Len(stack[t]) \in Nat /\ stack[t][m] \in AllFrames /\ stack[t][n] \in AllFrames
      /\ Len(stack[t]) + 1 - m \in Nat /\ Len(stack[t]) + 1 - n \in Nat
      /\ At(stack, t, Len(stack[t]) + 1 - m, stack[t][m])
      /\ At(stack, t, Len(stack[t]) + 1 - n, stack[t][n])
  BY <1>1, FramePlaces
<1>3. Len(stack[t]) + 1 - m = Len(stack[t]) + 1 - n BY <1>2 DEF ScriptInvariant, BuiltOnce
<1> QED BY <1>2, <1>3
==============================================================================
