-------------------------- MODULE ScriptProperties --------------------------
(***************************************************************************)
(* What scripts may rely on when newService, OnInit, send and the handlers *)
(* of several services run on several threads.                             *)
(***************************************************************************)
EXTENDS ScriptService

Tasks == {"evaluate", "register", "init", "return", "handle", "skip"}
Frames(t) == {stack[t][n] : n \in 1 .. Len(stack[t])}

(* Every variable has its type, and the messages on the workers' stacks    *)
(* are the mailboxes' running ones.                                        *)
TypeOK ==
  /\ \A t \in Threads : \A f \in Frames(t) : f.object \in 1 .. allocated /\ f.task \in Tasks
  /\ allocated \in 0 .. MaxServices
  /\ id \in [Objects -> Ids]
  /\ service_id \in [Objects -> Ids]
  /\ js_function_map \in [Objects -> SUBSET Functions]
  /\ service_map \subseteq Ids \X Objects
  /\ auto_increment_id \in 0 .. MaxServices
  /\ Mail!Accepted \subseteq ServiceMessages
  /\ running = UNION {{<<f.object, f.message>> : f \in {g \in Frames(t) : g.task \in {"handle", "skip"}}} :
                        t \in Threads}

(* The id newService returns is the one under which messages reach the     *)
(* service it has created, although OnInit of that service may create      *)
(* further ones before newService returns and other threads do the same.   *)
KnownIdsNameTheService ==
  /\ known \subseteq service_map
  /\ \A e, f \in service_map : e[1] = f[1] <=> e[2] = f[2]

(* A service that can be sent to has run its module's code and collected   *)
(* its functions: no worker looks into js_function_map_, or enters the     *)
(* isolate, while the constructor of the service is still busy with it.    *)
RegisteredIsEvaluated ==
  \A e \in service_map, t \in Threads : \A f \in Frames(t) :
    f.object = e[2] => f.task \notin {"evaluate", "register"}

(* A thread never comes back to an isolate it is in: whatever scripts nest *)
(* on its stack by newService, each is on it once.                         *)
NoReentry ==
  \A t \in Threads : \A m, n \in 1 .. Len(stack[t]) :
    stack[t][m].object = stack[t][n].object => m = n

(* message.h:28 says of source_: the sender of the message.  So the source *)
(* of a message that a registered service has sent is that service's id.   *)
SourceIsSender ==
  \A m \in Mail!Accepted :
    (\E n \in Ids : <<n, m.sender>> \in service_map) => <<m.source, m.sender>> \in service_map
==============================================================================
