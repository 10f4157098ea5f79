------------------------- MODULE Subscriptions_proofs -------------------------
(***************************************************************************)
(* Why the client and the server of Subscriptions agree in the end: the     *)
(* last command on its way about a PV says what the client wants of it.     *)
(***************************************************************************)
EXTENDS Subscriptions, TLAPS

(* The k-th command on its way is the last about PV i. *)
IsLast(k, i) ==
  /\ k \in DOMAIN pending /\ About(pending[k], i)
  /\ \A j \in DOMAIN pending : About(pending[j], i) => j <= k

(* What the server will make of PV i is what the client wants. *)
WillAgree(i) ==
  \/ \E k \in DOMAIN pending : IsLast(k, i) /\ Outcome(pending[k].name) = wanted[i]
  \/ (\A k \in DOMAIN pending : ~About(pending[k], i)) /\ actual[i] = wanted[i]

Unsent ==
  \A i \in unsent : phase \in {"new", "open"} => wanted[i] = "running"

Before == phase = "new" => pending = <<>>

Promise ==
  phase \in {"new", "open"} => \A i \in Ids \ (unsent \cup refused) : WillAgree(i)

IInv == TypeOK /\ Unsent /\ Before /\ Promise

-----------------------------------------------------------------------------
(* A command that is appended and says what is now wanted of its PV ...          *)
LEMMA LogAgrees ==
  ASSUME TypeOK, NEW i \in Ids, NEW name \in Names, NEW j \in Ids,
         pending' = Append(pending, [name |-> name, id |-> i]),
         wanted'[i] = Outcome(name), j # i => wanted'[j] = wanted[j] /\ WillAgree(j),
         actual' = actual
  PROVE  WillAgree(j)'
<1>1. /\ Len(pending) \in Nat /\ Len(pending') = Len(pending) + 1
      /\ DOMAIN pending = 1..Len(pending) /\ DOMAIN pending' = 1..(Len(pending) + 1)
      /\ \A k \in 1..Len(pending) : pending'[k] = pending[k]
      /\ pending'[Len(pending) + 1] = [name |-> name, id |-> i]
  BY DEF TypeOK
<1>2. CASE j = i
  BY <1>1, <1>2 DEF WillAgree, IsLast, About
<1>3. CASE j # i /\ \E k \in DOMAIN pending : IsLast(k, j) /\ Outcome(pending[k].name) = wanted[j]
  BY <1>1, <1>3 DEF WillAgree, IsLast, About
<1>4. CASE j # i /\ (\A k \in DOMAIN pending : ~About(pending[k], j)) /\ actual[j] = wanted[j]
  BY <1>1, <1>4 DEF WillAgree, About
<1> QED
  BY <1>2, <1>3, <1>4 DEF WillAgree

(* ... one about something else ...                                              *)
LEMMA MentionAgrees ==
  ASSUME TypeOK, NEW command \in Chat, NEW j \in Ids, WillAgree(j),
         pending' = Append(pending, command), wanted' = wanted, actual' = actual
  PROVE  WillAgree(j)'
<1>1. /\ Len(pending) \in Nat /\ Len(pending') = Len(pending) + 1
      /\ DOMAIN pending = 1..Len(pending) /\ DOMAIN pending' = 1..(Len(pending) + 1)
      /\ \A k \in 1..Len(pending) : pending'[k] = pending[k]
      /\ pending'[Len(pending) + 1] = command
  BY DEF TypeOK
<1> QED
  BY <1>1 DEF WillAgree, IsLast, About, Chat

(* ... and the first command, when the server takes it, keep the promise.        *)
LEMMA TakeAgrees ==
  ASSUME TypeOK, pending # <<>>, pending' = Tail(pending), wanted' = wanted,
         NEW j \in Ids, WillAgree(j),
         actual'[j] = IF About(Head(pending), j) THEN Outcome(Head(pending).name) ELSE actual[j]
  PROVE  WillAgree(j)'
<1>1. /\ Len(pending) \in Nat \ {0} /\ Len(pending') = Len(pending) - 1
      /\ DOMAIN pending = 1..Len(pending) /\ DOMAIN pending' = 1..(Len(pending) - 1)
      /\ \A k \in 1..(Len(pending) - 1) : pending'[k] = pending[k + 1]
      /\ Head(pending) = pending[1]
  BY DEF TypeOK
<1>2. CASE \E k \in DOMAIN pending : IsLast(k, j) /\ Outcome(pending[k].name) = wanted[j]
  <2>1. PICK k \in DOMAIN pending : IsLast(k, j) /\ Outcome(pending[k].name) = wanted[j]
    BY <1>2
  <2>2. CASE k = 1
    <3>1. \A l \in DOMAIN pending' : ~About(pending'[l], j)
      BY <1>1, <2>1, <2>2 DEF IsLast
    <3>2. actual'[j] = wanted'[j]
      BY <1>1, <2>1, <2>2 DEF IsLast
    <3> QED
      BY <3>1, <3>2 DEF WillAgree
  <2>3. CASE k # 1
    <3>1. k - 1 \in DOMAIN pending' /\ pending'[k - 1] = pending[k]
      BY <1>1, <2>3
    <3>2. IsLast(k - 1, j)'
      <4>1. ASSUME NEW l \in DOMAIN pending', About(pending'[l], j) PROVE l <= k - 1
        <5>1. l + 1 \in DOMAIN pending /\ About(pending[l + 1], j)
          BY <1>1, <4>1
        <5> QED
          BY <1>1, <2>1, <5>1 DEF IsLast
      <4> QED
        BY <2>1, <3>1, <4>1 DEF IsLast
    <3> QED
      BY <2>1, <3>1, <3>2 DEF WillAgree
  <2> QED
    BY <2>2, <2>3
<1>3. CASE (\A k \in DOMAIN pending : ~About(pending[k], j)) /\ actual[j] = wanted[j]
  BY <1>1, <1>3 DEF WillAgree
<1> QED
  BY <1>2, <1>3 DEF WillAgree

(* Nothing is said of other PVs, and nothing changes. *)
LEMMA SameAgrees ==
  ASSUME NEW j \in Ids, WillAgree(j), pending' = pending, wanted'[j] = wanted[j], actual' = actual
  PROVE  WillAgree(j)'
BY DEF WillAgree, IsLast

(* What the log holds stays a log of commands when one is appended or taken.      *)
LEMMA LogTyping ==
  ASSUME NEW S, NEW s \in Seq(S)
  PROVE  /\ \A e \in S : Append(s, e) \in Seq(S)
         /\ s # <<>> => Head(s) \in S /\ Tail(s) \in Seq(S)
OBVIOUS

(* A step keeps the types ... *)
LEMMA TypingStep ==
  ASSUME TypeOK, [Next]_vars
  PROVE  TypeOK'
<1> USE DEF TypeOK, Status, Names
<1>1. \A name \in Names : Outcome(name) \in Status
  BY DEF Outcome
<1>2. ASSUME NEW i \in Ids, NEW name \in Names, Log(name, i)
      PROVE  pending' \in Seq([name: Names, id: Ids] \cup Chat)
  <2>1. [name |-> name, id |-> i] \in [name: Names, id: Ids] \cup Chat
    OBVIOUS
  <2>2. Append(pending, [name |-> name, id |-> i]) \in Seq([name: Names, id: Ids] \cup Chat)
    BY <2>1, LogTyping
  <2> QED
    BY <1>2, <2>2 DEF Log
<1>3. ASSUME NEW i \in Ids, Want(i) PROVE TypeOK'
  BY <1>2, <1>3 DEF Want
<1>4. ASSUME NEW i \in Ids, Flush(i) PROVE TypeOK'
  BY <1>2, <1>4 DEF Flush
<1>5. ASSUME NEW i \in Ids, NEW name \in Names, Say(i, name) PROVE TypeOK'
  <2>1. pending' \in Seq([name: Names, id: Ids] \cup Chat)
    BY <1>2, <1>5 DEF Say
  <2> QED
    BY <1>1, <1>5, <2>1 DEF Say
<1>6. CASE Take
  <2>1. /\ Head(pending) \in [name: Names, id: Ids] \cup Chat
        /\ pending' \in Seq([name: Names, id: Ids] \cup Chat)
    <3>1. pending \in Seq([name: Names, id: Ids] \cup Chat) /\ pending # <<>> /\ pending' = Tail(pending)
      BY <1>6 DEF Take
    <3> QED
      BY <3>1, LogTyping
  <2>2. actual' \in [Ids -> Status]
    BY <1>1, <1>6, <2>1 DEF Take, Chat
  <2>3. refused' \subseteq Ids
    BY <1>6, <2>1 DEF Take, Chat
  <2> QED
    BY <1>6, <2>1, <2>2, <2>3 DEF Take
<1>7. CASE Open \/ Mention
  <2>1. pending' \in Seq([name: Names, id: Ids] \cup Chat)
    BY <1>7, LogTyping DEF Open, Mention
  <2> QED
    BY <1>7, <2>1 DEF Open, Mention
<1>8. CASE Close
  BY <1>8 DEF Close
<1>9. CASE Lost
  BY <1>9 DEF Lost
<1>10. CASE UNCHANGED vars
  BY <1>10 DEF vars
<1> QED
  BY <1>3, <1>4, <1>5, <1>6, <1>7, <1>8, <1>9, <1>10 DEF Next

(* ... what is known of creations that are unsent, and of a connection that is   *)
(* not open yet ...                                                              *)
LEMMA UnsentStep ==
  ASSUME TypeOK, Unsent, Before, [Next]_vars
  PROVE  Unsent' /\ Before'
<1> USE DEF TypeOK, Unsent, Before
<1>1. ASSUME NEW i \in Ids, Want(i) PROVE Unsent' /\ Before'
  BY <1>1 DEF Want, Log
<1>2. ASSUME NEW i \in Ids, Flush(i) PROVE Unsent' /\ Before'
  BY <1>2 DEF Flush
<1>3. ASSUME NEW i \in Ids, NEW name \in Names, Say(i, name) PROVE Unsent' /\ Before'
  BY <1>3 DEF Say
<1>4. CASE Take
  BY <1>4 DEF Take
<1>5. CASE Open \/ Close \/ Lost \/ Mention
  BY <1>5 DEF Open, Close, Lost, Mention
<1>6. CASE UNCHANGED vars
  BY <1>6 DEF vars
<1> QED
  BY <1>1, <1>2, <1>3, <1>4, <1>5, <1>6 DEF Next

(* ... and the promise: a new PV is wanted running when its creation is sent.    *)
LEMMA PromiseStep ==
  ASSUME TypeOK, Unsent, Before, Promise, [Next]_vars
  PROVE  Promise'
<1> SUFFICES ASSUME phase' \in {"new", "open"}, NEW j \in Ids \ (unsent' \cup refused')
             PROVE  WillAgree(j)'
  BY DEF Promise
<1>1. ASSUME phase \in {"new", "open"}, j \notin unsent \cup refused PROVE WillAgree(j)
  BY <1>1 DEF Promise
<1>2. ASSUME NEW i \in Ids, Want(i) PROVE WillAgree(j)'
  <2>1. CASE j # i
    <3>1. WillAgree(j) /\ wanted'[j] = wanted[j] /\ actual' = actual
      BY <1>1, <1>2, <2>1 DEF Want, TypeOK
    <3>2. CASE pending' = pending
      BY <3>1, <3>2, SameAgrees
    <3>3. CASE pending' = Append(pending, [name |-> "CreatePV", id |-> i])
      BY <1>2, <2>1, <3>1, <3>3, LogAgrees DEF Want, TypeOK, Names, Outcome
    <3> QED
      BY <1>2, <3>2, <3>3 DEF Want, Log
  <2>2. CASE j = i
    <3>1. pending' = Append(pending, [name |-> "CreatePV", id |-> i])
      BY <1>2, <2>2 DEF Want, Log
    <3> QED
      BY <1>2, <2>2, <3>1, LogAgrees DEF Want, TypeOK, Names, Outcome
  <2> QED
    BY <2>1, <2>2
<1>3. ASSUME NEW i \in Ids, Flush(i) PROVE WillAgree(j)'
  <2>1. pending' = Append(pending, [name |-> "CreatePV", id |-> i]) /\ wanted' = wanted /\ actual' = actual
    BY <1>3 DEF Flush, Log
  <2>2. wanted[i] = "running" /\ (j # i => WillAgree(j))
    BY <1>1, <1>3 DEF Flush, Unsent
  <2> QED
    BY <2>1, <2>2, LogAgrees DEF Names, Outcome
<1>4. ASSUME NEW i \in Ids, NEW name \in Names, Say(i, name) PROVE WillAgree(j)'
  <2>1. pending' = Append(pending, [name |-> name, id |-> i]) /\ actual' = actual
    BY <1>4 DEF Say, Log
  <2>2. wanted'[i] = Outcome(name) /\ (j # i => wanted'[j] = wanted[j] /\ WillAgree(j))
    BY <1>1, <1>4 DEF Say, TypeOK
  <2> QED
    BY <2>1, <2>2, LogAgrees
<1>5. CASE Take
  <2>1. pending # <<>> /\ pending' = Tail(pending) /\ wanted' = wanted /\ WillAgree(j)
    BY <1>1, <1>5 DEF Take
  <2>2. Head(pending).name \in Names => Head(pending).id \in Ids
    <3>1. Head(pending) \in [name: Names, id: Ids] \cup Chat
      BY <2>1, LogTyping DEF TypeOK
    <3> QED
      BY <3>1 DEF Chat
  <2>3. actual'[j] = IF About(Head(pending), j) THEN Outcome(Head(pending).name) ELSE actual[j]
    BY <1>5, <2>2 DEF Take, TypeOK, About
  <2> QED
    BY <2>1, <2>3, TakeAgrees
<1>6. CASE Open \/ Mention
  <2>1. PICK command \in Chat : pending' = Append(pending, command)
    BY <1>6 DEF Open, Mention
  <2>2. wanted' = wanted /\ actual' = actual /\ WillAgree(j)
    BY <1>1, <1>6 DEF Open, Mention
  <2> QED
    BY <2>1, <2>2, MentionAgrees
<1>7. CASE Close \/ Lost
  BY <1>7 DEF Close, Lost
<1>8. CASE UNCHANGED vars
  BY <1>1, <1>8, SameAgrees DEF vars
<1> QED
  BY <1>2, <1>3, <1>4, <1>5, <1>6, <1>7, <1>8 DEF Next

-----------------------------------------------------------------------------
(* The invariant: what is on its way will make client and server agree.          *)
THEOREM Invariance == Spec => []IInv
<1>1. Init => IInv
  BY DEF Init, IInv, TypeOK, Unsent, Before, Promise, WillAgree, Status
<1>2. IInv /\ [Next]_vars => IInv'
  BY TypingStep, UnsentStep, PromiseStep DEF IInv
<1> QED
  BY <1>1, <1>2, PTL DEF Spec

(* Type correctness of what the client and the server promise each other.        *)
THEOREM Typing == Spec => []TypeOK
<1>1. IInv => TypeOK
  BY DEF IInv
<1> QED
  BY <1>1, Invariance, PTL

(* With no command on its way the server runs, pauses and has closed exactly the *)
(* PVs that the client (internalPVArray, isPaused) counts on, for any number of  *)
(* PVs and commands, except those whose creation is unsent or refused.           *)
THEOREM AgreedHolds == Spec => []Agreed
<1>1. ASSUME IInv PROVE Agreed
  <2> SUFFICES ASSUME phase = "open", pending = <<>>, NEW i \in Ids \ (unsent \cup refused)
               PROVE  actual[i] = wanted[i]
    BY DEF Agreed
  <2>1. WillAgree(i) /\ DOMAIN pending = {}
    BY <1>1 DEF IInv, Promise
  <2> QED
    BY <2>1 DEF WillAgree
<1> QED
  BY <1>1, Invariance, PTL

=============================================================================
