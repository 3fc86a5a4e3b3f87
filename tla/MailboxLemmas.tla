---------------------------- MODULE MailboxLemmas ----------------------------
(***************************************************************************)
(* Facts about mailboxes as values: what a step of module Mailboxes does   *)
(* to queues without repetition.  The proofs about the modules that use    *)
(* mailboxes cite them.                                                    *)
(***************************************************************************)
EXTENDS Integers, Sequences, TLAPS

(* What a queue contains, and that it contains it once.                    *)
Elements(q) == {q[n] : n \in 1 .. Len(q)}
Distinct(q) == \A m, n \in 1 .. Len(q) : q[m] = q[n] => m = n

LEMMA AppendDistinct ==
  ASSUME NEW S, NEW q \in Seq(S), NEW e \in S, Distinct(q), e \notin Elements(q)
  PROVE  Distinct(Append(q, e)) /\ Elements(Append(q, e)) = Elements(q) \cup {e}
<1>1. /\ Len(Append(q, e)) = Len(q) + 1
      /\ \A n \in 1 .. Len(q) : Append(q, e)[n] = q[n]
      /\ Append(q, e)[Len(q) + 1] = e
  OBVIOUS
<1>2. 1 .. Len(q) + 1 = (1 .. Len(q)) \cup {Len(q) + 1} OBVIOUS
<1>3. Elements(Append(q, e)) = Elements(q) \cup {e} BY <1>1, <1>2 DEF Elements
<1>4. Distinct(Append(q, e)) BY <1>1, <1>2 DEF Elements, Distinct
<1> QED BY <1>3, <1>4

LEMMA TailDistinct ==
  ASSUME NEW S, NEW q \in Seq(S), Distinct(q), q # <<>>
  PROVE  /\ Distinct(Tail(q))
         /\ Head(q) \in Elements(q)
         /\ Elements(Tail(q)) = Elements(q) \ {Head(q)}
<1>1. /\ Len(q) \in Nat \ {0} /\ Len(Tail(q)) = Len(q) - 1
      /\ \A n \in 1 .. Len(q) - 1 : Tail(q)[n] = q[n + 1]
      /\ Head(q) = q[1]
  OBVIOUS
<1>2. Distinct(Tail(q))
  <2> SUFFICES ASSUME NEW m \in 1 .. Len(q) - 1, NEW n \in 1 .. Len(q) - 1, q[m + 1] = q[n + 1]
               PROVE  m = n
    BY <1>1 DEF Distinct
  <2>1. m + 1 \in 1 .. Len(q) /\ n + 1 \in 1 .. Len(q) BY <1>1
  <2> QED BY <2>1 DEF Distinct
<1>3. Head(q) \in Elements(q) BY <1>1 DEF Elements
<1>4. ASSUME NEW e PROVE e \in Elements(Tail(q)) <=> e \in Elements(q) /\ e # Head(q)
  <2>1. ASSUME e \in Elements(Tail(q)) PROVE e \in Elements(q) /\ e # Head(q)
    <3>1. PICK n \in 1 .. Len(q) - 1 : e = q[n + 1] BY <1>1, <2>1 DEF Elements
    <3>2. n + 1 \in 1 .. Len(q) /\ 1 \in 1 .. Len(q) /\ n + 1 # 1 BY <1>1
    <3> QED BY <1>1, <3>1, <3>2 DEF Elements, Distinct
  <2>2. ASSUME e \in Elements(q), e # Head(q) PROVE e \in Elements(Tail(q))
    <3>1. PICK n \in 1 .. Len(q) : e = q[n] BY <2>2 DEF Elements
    <3>2. n - 1 \in 1 .. Len(q) - 1 /\ (n - 1) + 1 = n BY <1>1, <2>2, <3>1
    <3>3. Tail(q)[n - 1] = e BY <1>1, <3>1, <3>2
    <3> QED BY <1>1, <3>2, <3>3 DEF Elements
  <2> QED BY <2>1, <2>2
<1> QED BY <1>2, <1>3, <1>4

------------------------------------------------------------------------------
(* No message is in the queues of services S, active or done twice.        *)
Once(S, queues, active, done) ==
  /\ \A s \in S : Distinct(queues[s])
  /\ \A r, s \in S : r # s => Elements(queues[r]) \cap Elements(queues[s]) = {}
  /\ \A s \in S : Elements(queues[s]) \cap (active \cup done) = {}
  /\ active \cap done = {}

(* A message that is nowhere yet may be posted.                            *)
LEMMA PostOnce ==
  ASSUME NEW S, NEW M, NEW queues \in [S -> Seq(M)], NEW active, NEW done,
         Once(S, queues, active, done),
         NEW s \in S, NEW m \in M,
         \A r \in S : m \notin Elements(queues[r]), m \notin active, m \notin done
  PROVE  /\ [queues EXCEPT ![s] = Append(@, m)] \in [S -> Seq(M)]
         /\ Once(S, [queues EXCEPT ![s] = Append(@, m)], active, done)
<1> PICK after : after = [queues EXCEPT ![s] = Append(@, m)] OBVIOUS
<1>1. after \in [S -> Seq(M)] /\ after[s] = Append(queues[s], m)
      /\ \A r \in S \ {s} : after[r] = queues[r]
  OBVIOUS
<1>2. Distinct(after[s]) /\ Elements(after[s]) = Elements(queues[s]) \cup {m}
  <2>1. queues[s] \in Seq(M) /\ Distinct(queues[s]) BY DEF Once
  <2> QED BY <1>1, <2>1, AppendDistinct
<1>3. Once(S, after, active, done)
  <2>1. \A r \in S : Distinct(after[r]) BY <1>1, <1>2 DEF Once
  <2>2. ASSUME NEW p \in S, NEW r \in S, p # r PROVE Elements(after[p]) \cap Elements(after[r]) = {}
    <3>1. Elements(queues[p]) \cap Elements(queues[r]) = {} BY <2>2 DEF Once
    <3>2. CASE p = s BY <1>1, <1>2, <2>2, <3>1, <3>2
    <3>3. CASE r = s BY <1>1, <1>2, <2>2, <3>1, <3>3
    <3> QED BY <1>1, <3>1, <3>2, <3>3
  <2>3. ASSUME NEW r \in S PROVE Elements(after[r]) \cap (active \cup done) = {}
    <3>1. Elements(queues[r]) \cap (active \cup done) = {} BY DEF Once
    <3> QED BY <1>1, <1>2, <3>1
  <2> QED BY <2>1, <2>2, <2>3 DEF Once
<1> QED BY <1>1, <1>2, <1>3

LEMMA HeadWaits ==
  ASSUME NEW S, NEW q \in Seq(S), q # <<>>
  PROVE  Head(q) \in S /\ Head(q) \in Elements(q)
<1>1. Head(q) \in S /\ 1 \in 1 .. Len(q) /\ Head(q) = q[1] OBVIOUS
<1> QED BY <1>1 DEF Elements

(* The head of a queue is nowhere else, and becomes active.                *)
LEMMA StartOnce ==
  ASSUME NEW S, NEW M, NEW queues \in [S -> Seq(M)], NEW active, NEW done,
         Once(S, queues, active, done),
         NEW s \in S, queues[s] # <<>>
  PROVE  /\ [queues EXCEPT ![s] = Tail(@)] \in [S -> Seq(M)]
         /\ Once(S, [queues EXCEPT ![s] = Tail(@)], active \cup {Head(queues[s])}, done)
<1> PICK after : after = [queues EXCEPT ![s] = Tail(@)] OBVIOUS
<1> PICK m : m = Head(queues[s]) OBVIOUS
<1>1. /\ queues[s] \in Seq(M) /\ m \in M
      /\ after \in [S -> Seq(M)] /\ after[s] = Tail(queues[s])
      /\ \A r \in S \ {s} : after[r] = queues[r]
  OBVIOUS
<1>2. /\ Distinct(after[s]) /\ m \in Elements(queues[s])
      /\ Elements(after[s]) = Elements(queues[s]) \ {m}
  <2>1. Distinct(queues[s]) BY DEF Once
  <2> QED BY <1>1, <2>1, TailDistinct
<1>3. m \notin active /\ m \notin done BY <1>2 DEF Once
<1>4. \A r \in S \ {s} : m \notin Elements(queues[r]) BY <1>2 DEF Once
<1>5. Once(S, after, active \cup {m}, done)
  <2>1. \A r \in S : Distinct(after[r]) BY <1>1, <1>2 DEF Once
  <2>2. \A r \in S : Elements(after[r]) \subseteq Elements(queues[r]) \ {m} BY <1>1, <1>2, <1>4
  <2>3. \A p, r \in S : p # r => Elements(after[p]) \cap Elements(after[r]) = {}
    BY <2>2 DEF Once
  <2>4. \A r \in S : Elements(after[r]) \cap (active \cup {m} \cup done) = {}
    BY <2>2 DEF Once
  <2>5. (active \cup {m}) \cap done = {} BY <1>3 DEF Once
  <2> QED BY <2>1, <2>3, <2>4, <2>5 DEF Once
<1> QED BY <1>1, <1>2, <1>3, <1>5

(* An active message becomes done.                                         *)
LEMMA FinishOnce ==
  ASSUME NEW S, NEW queues, NEW active, NEW done, Once(S, queues, active, done), NEW m \in active
  PROVE  Once(S, queues, active \ {m}, done \cup {m})
  BY DEF Once
==============================================================================
