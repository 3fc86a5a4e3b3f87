------------------------------ MODULE Mailboxes ------------------------------
(***************************************************************************)
(* What XianNet promises about messages, with no threads, queues or locks: *)
(* a message accepted for a service waits in that service's mailbox, its   *)
(* handler is started once, in arrival order, and it is finished once.     *)
(* The scheduler (module Scheduler) implements this specification.         *)
(* Nothing here says that two handlers of one service never overlap: the   *)
(* code does not keep that, as it clears the flag before the handlers run. *)
(***************************************************************************)
EXTENDS Sequences, Naturals

CONSTANTS Services,   (* service ids                                        *)
          Messages    (* message identities                                 *)

VARIABLES mailbox,    (* [Services -> Seq(Messages)], oldest first          *)
          running,    (* pairs <<service, message>> whose handler is active *)
          done        (* messages whose handler has returned                *)

mailboxVars == <<mailbox, running, done>>

Waiting(s) == {mailbox[s][i] : i \in 1 .. Len(mailbox[s])}
Active == {r[2] : r \in running}
Accepted == done \cup Active \cup UNION {Waiting(s) : s \in Services}

MailboxInit ==
  /\ mailbox = [s \in Services |-> <<>>]
  /\ running = {}
  /\ done = {}

Post(s, m) ==
  /\ m \notin Accepted
  /\ mailbox' = [mailbox EXCEPT ![s] = Append(@, m)]
  /\ UNCHANGED <<running, done>>

Start(s) ==
  /\ mailbox[s] # <<>>
  /\ running' = running \cup {<<s, Head(mailbox[s])>>}
  /\ mailbox' = [mailbox EXCEPT ![s] = Tail(@)]
  /\ UNCHANGED done

Finish(s, m) ==
  /\ <<s, m>> \in running
  /\ running' = running \ {<<s, m>>}
  /\ done' = done \cup {m}
  /\ UNCHANGED mailbox

MailboxNext ==
  \E s \in Services :
    \/ Start(s)
    \/ \E m \in Messages : Post(s, m) \/ Finish(s, m)

MailboxSpec == MailboxInit /\ [][MailboxNext]_mailboxVars
==============================================================================
