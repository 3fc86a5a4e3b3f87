---------------------------- MODULE ScriptService ----------------------------
(***************************************************************************)
(* The life of script services: a script calls newService, which runs the  *)
(* constructor of a ScriptService, with the module's own code, registers   *)
(* the service and runs its OnInit, all on the calling thread, so that     *)
(* scripts nest; it calls send; and workers run the functions that         *)
(* messages name.  What a script computes is abstracted to these calls.    *)
(* Mailboxes stand between send and handlers, as the scheduler provides.   *)
(***************************************************************************)
EXTENDS Integers, Sequences

CONSTANTS
  Workers,       (* service workers                                         *)
  main,          (* the thread of XianNet::Init                             *)
  Functions,     (* names a module may export and a message may name        *)
  OnInit,        (* one of them                                             *)
  Garbage,       (* values an id_ that has not been set may have            *)
  MaxServices,   (* bound: ScriptService objects ever allocated             *)
  MaxMessages    (* bound: messages ever sent                               *)

ASSUME ScriptAssumption ==
  /\ MaxServices \in Nat
  /\ MaxMessages \in Nat
  /\ main \notin Workers
  /\ OnInit \in Functions
  /\ Garbage \subseteq 0 .. MaxServices

Threads == Workers \cup {main}
Objects == 1 .. MaxServices      (* in the order of their allocation        *)
Ids == 0 .. MaxServices          (* the last one is never given out         *)

VARIABLES
  stack,             (* per thread: the scripts on its C++ stack, top first *)
  allocated,         (* ScriptService objects allocated so far              *)
  id,                (* BaseService::id_ of each object                     *)
  service_id,        (* the global of that name in the object's context     *)
  js_function_map,   (* what the object's module exports                    *)
  service_map,       (* ServiceMap: pairs <<id, object>>                    *)
  auto_increment_id, (* ServiceMap::auto_increment_id_                      *)
  mailbox, running, done,  (* messages, see Mailboxes                       *)
  sent,              (* history: messages sent                              *)
  known              (* history: <<id, object>> each newService has returned*)

objects == <<allocated, id, service_id>>
mail    == <<mailbox, running, done>>
vars == <<stack, objects, js_function_map, service_map, auto_increment_id, mail, sent, known>>

(* sender is history: the object whose script has called send.             *)
ServiceMessages == [id : Nat, source : Ids, function : Functions, sender : Objects]
Mail == INSTANCE Mailboxes WITH Services <- Objects, Messages <- ServiceMessages

Idle == [object |-> 0, task |-> "idle"]
Top(t) == IF stack[t] = <<>> THEN Idle ELSE Head(stack[t])
Push(t, frame) == stack' = [stack EXCEPT ![t] = <<frame>> \o @]
Become(t, task) == stack' = [stack EXCEPT ![t] = <<[Head(@) EXCEPT !.task = task]>> \o Tail(@)]
Pop(t) == stack' = [stack EXCEPT ![t] = Tail(@)]

(* Places where a script runs and may call newService and send.            *)
InScript(t) == Top(t).task \in {"evaluate", "init", "handle"}

Init ==
  /\ stack = [t \in Threads |-> <<>>]
  /\ allocated = 0
  /\ id = [o \in Objects |-> 0]
  /\ service_id = [o \in Objects |-> 0]
  /\ js_function_map = [o \in Objects |-> {}]
  /\ service_map = {}
  /\ auto_increment_id = 0
  /\ Mail!MailboxInit
  /\ sent = 0
  /\ known = {}

------------------------------------------------------------------------------
(* XianNet::NewScriptService, called by Init and by newService.            *)

(* The constructor starts.  id_ has no initial value: the global           *)
(* service_id is made from whatever the memory holds.                      *)
NewScriptService(t) ==
  /\ InScript(t) \/ (t = main /\ allocated = 0)
  /\ allocated < MaxServices
  /\ allocated' = allocated + 1
  /\ \E garbage \in Garbage :
       /\ id' = [id EXCEPT ![allocated + 1] = garbage]
       /\ service_id' = [service_id EXCEPT ![allocated + 1] = garbage]
  /\ Push(t, [object |-> allocated + 1, task |-> "evaluate"])
  /\ UNCHANGED <<js_function_map, service_map, auto_increment_id, mail, sent, known>>

(* The module's code has run; its exported functions are collected.  When  *)
(* the module cannot be instantiated the constructor returns with none.    *)
CollectFunctions(t) ==
  /\ Top(t).task = "evaluate"
  /\ \E exported \in SUBSET Functions :
       js_function_map' = [js_function_map EXCEPT ![Top(t).object] = exported]
  /\ Become(t, "register")
  /\ UNCHANGED <<objects, service_map, auto_increment_id, mail, sent, known>>

(* What NewService does next.  Variant: the module is evaluated again.     *)
EvaluateAgain(o) == "evaluate"
AfterAddService(o) == IF OnInit \in js_function_map[o] THEN "init" ELSE "return"

(* ServiceMap::AddService under its write lock; OnInit runs if exported.   *)
AddService(t) ==
  /\ Top(t).task = "register"
  /\ id' = [id EXCEPT ![Top(t).object] = auto_increment_id]
  /\ service_map' = IF \E o \in Objects : <<auto_increment_id, o>> \in service_map
                      THEN service_map
                      ELSE service_map \cup {<<auto_increment_id, Top(t).object>>}
  /\ auto_increment_id' = auto_increment_id + 1
  /\ Become(t, AfterAddService(Top(t).object))
  /\ UNCHANGED <<allocated, service_id, js_function_map, mail, sent, known>>

(* OnInit returns, and NewService answers with the id of the service.      *)
FinishInit(t) ==
  /\ Top(t).task = "init"
  /\ Become(t, "return")
  /\ UNCHANGED <<objects, js_function_map, service_map, auto_increment_id, mail, sent, known>>

(* What newService returns; the variant answers with the newest id.        *)
NewestId(o) == auto_increment_id - 1
ReturnedId(o) == id[o]

ReturnId(t) ==
  /\ Top(t).task = "return"
  /\ known' = known \cup {<<ReturnedId(Top(t).object), Top(t).object>>}
  /\ Pop(t)
  /\ UNCHANGED <<objects, js_function_map, service_map, auto_increment_id, mail, sent>>

------------------------------------------------------------------------------
(* The script's send.  The source is the global service_id; the content    *)
(* argument is converted and dropped, so a message carries none.           *)
Send(t) ==
  /\ InScript(t)
  /\ sent < MaxMessages
  /\ sent' = sent + 1
  /\ \E target \in Ids, function \in Functions :
       LET message == [id |-> sent, source |-> service_id[Top(t).object],
                       function |-> function, sender |-> Top(t).object]
           Receivers == {o \in Objects : <<target, o>> \in service_map}
       IN \/ \E o \in Receivers : Mail!Post(o, message)
          \/ Receivers = {} /\ UNCHANGED mail
  /\ UNCHANGED <<stack, objects, js_function_map, service_map, auto_increment_id, known>>

(* A worker handles messages in its own loop only.  Variant: also while a  *)
(* newService is about to return.                                          *)
FreeOrReturning(w) == Top(w).task \in {"idle", "return"}
Free(w) == stack[w] = <<>>

(* ExecuteJsFunction: a function the module does not export is warned      *)
(* about and not run.  Variant: the worker forgets the message then.       *)
Task(o) == IF Head(mailbox[o]).function \in js_function_map[o] THEN "handle" ELSE "skip"
Frame(o) == [object |-> o, message |-> Head(mailbox[o]), task |-> Task(o)]
ExecuteOrForget(w, o) == IF Task(o) = "skip" THEN UNCHANGED stack ELSE Push(w, Frame(o))
Execute(w, o) == Push(w, Frame(o))

StartHandler(w, o) ==
  /\ Free(w)
  /\ Mail!Start(o)
  /\ Execute(w, o)
  /\ UNCHANGED <<objects, js_function_map, service_map, auto_increment_id, sent, known>>

FinishHandler(w) ==
  /\ Top(w).task \in {"handle", "skip"}
  /\ Mail!Finish(Top(w).object, Top(w).message)
  /\ Pop(w)
  /\ UNCHANGED <<objects, js_function_map, service_map, auto_increment_id, sent, known>>

------------------------------------------------------------------------------
ScriptStep(t) ==
  \/ CollectFunctions(t) \/ AddService(t) \/ FinishInit(t) \/ ReturnId(t)
  \/ t \in Workers /\ FinishHandler(t)

Next ==
  \/ \E t \in Threads : NewScriptService(t) \/ Send(t) \/ ScriptStep(t)
  \/ \E w \in Workers, o \in Objects : StartHandler(w, o)

Spec == Init /\ [][Next]_vars
==============================================================================
