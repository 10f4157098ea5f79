----------------------- MODULE WebClientServer_proofs -----------------------
(***************************************************************************)
(* Theorems about WebClient and the session of its server: what the commands *)
(* on their way make of the PVs there, that both implement Subscriptions, and *)
(* that the loops of the client tell every PV.                               *)
(***************************************************************************)
EXTENDS WebClient_proofs

-----------------------------------------------------------------------------
(* The kinds of steps, as far as the commands on their way see them.        *)

Quiet ==
  /\ SameChannels /\ UNCHANGED <<sent, toServer, server, refused, stray>>
  /\ readyState' = readyState \/ (readyState # "closed" /\ readyState' = "closing")

(* An on-open callback sends the command of the internal PV i. *)
Flushes(i) ==
  /\ todo # <<>> /\ Head(todo).kind = "open" /\ Head(todo).key \in 1..Len(onOpen)
  /\ onOpen[Head(todo).key] = i /\ i \in Ids /\ ~Throws /\ todo' = Tail(todo)
  /\ Sends("CreatePV", i) /\ sent' = sent \cup {i}
  /\ SameChannels /\ UNCHANGED <<readyState, server, refused, stray>>

(* A page that has closed the client has stopped using it. *)
Steady == websocket \/ "stale" \notin Habits

LEMMA SteadyStays ==
  ASSUME [Next]_vars, Steady'
  PROVE  Steady
<1> USE DEF Steady, socketVars
<1>1. ASSUME UNCHANGED socketVars PROVE Steady
  BY <1>1
<1>2. ASSUME NEW param \in Params, CreatePV(param) PROVE Steady
  BY <1>1, <1>2 DEF CreatePV
<1>3. ASSUME NEW p \in 1..Len(pvs), ClosePV(p) PROVE Steady
  BY <1>1, <1>3 DEF ClosePV
<1>4. ASSUME NEW p \in 1..Len(pvs), NEW paused \in BOOLEAN, SetPaused(p, paused) PROVE Steady
  BY <1>1, <1>4 DEF SetPaused
<1>5. ASSUME NEW p \in 1..Len(pvs), SetPVValue(p) PROVE Steady
  BY <1>1, <1>5 DEF SetPVValue, Say
<1>6. ASSUME NEW name \in {"Login", "Logout"}, LogInOrOut(name) PROVE Steady
  BY <1>1, <1>6 DEF LogInOrOut, Say
<1>7. CASE AddOnOpen \/ RemoveOnOpen \/ Close
  BY <1>1, <1>7 DEF AddOnOpen, RemoveOnOpen, Close
<1>8. CASE OnOpen \/ OnMessage \/ OnClose \/ OnTimeout
  BY <1>1, <1>8 DEF OnOpen, OnMessage, OnClose, OnTimeout
<1>9. CASE Step
  BY <1>1, <1>9 DEF Step
<1>10. CASE Execute
  BY <1>1, <1>10 DEF Execute
<1>11. ASSUME NEW i \in Ids, Update(i) PROVE Steady
  BY <1>1, <1>11 DEF Update
<1>12. CASE UNCHANGED vars
  BY <1>12 DEF vars
<1> QED
  BY <1>2, <1>3, <1>4, <1>5, <1>6, <1>7, <1>8, <1>9, <1>10, <1>11, <1>12 DEF Next, PageActs

(* Of such a client createPV() does not throw, and a PV it uses has been sent.    *)
LEMMA SteadyUse ==
  ASSUME Socket, Steady
  PROVE  /\ \A param : CreatePV(param) => ~CreateThrows(param)
         /\ \A p : MayUse(p) => websocket /\ ("early" \notin Habits => pvs[p].internal \in sent)
<1>1. ASSUME NEW param, CreatePV(param) PROVE ~CreateThrows(param)
  BY <1>1 DEF Steady, CreatePV, CreateThrows, Throws, Socket
<1>2. ASSUME NEW p, MayUse(p) PROVE websocket /\ ("early" \notin Habits => pvs[p].internal \in sent)
  BY <1>2 DEF Steady, MayUse
<1> QED
  BY <1>1, <1>2

(* createPV() throws only of a client that has been closed. *)
LEMMA ThrowsLate ==
  ASSUME Socket, NEW param, CreateThrows(param)
  PROVE  readyState \in {"closing", "closed"}
BY DEF CreateThrows, Throws, Socket

(* Every internal PV has its place in internalPVArray. *)
LEMMA SlotIs ==
  ASSUME ClientType, Numbered, NEW i
  PROVE  Slot(i) = {i} \cap internalPVArray
<1>1. Len(internals) \in Nat /\ internalPVArray \subseteq 1..Len(internals) /\ internalPVID = Len(internals)
  BY DEF ClientType, Numbered
<1>2. \A j \in internalPVArray : ~(j > internalPVID)
  BY <1>1
<1> QED
  BY <1>2 DEF Slot

LEMMA StepKinds ==
  ASSUME Types, [Next]_vars
  PROVE  \/ Quiet
         \/ ChannelActs
         \/ (\E p \in 1..Len(pvs) : SetPVValue(p)) \/ (\E name \in {"Login", "Logout"} : LogInOrOut(name))
         \/ OnOpen \/ OnClose \/ (\E i \in Ids : Flushes(i)) \/ Execute
<1> USE DEF socketVars, clientVars, openVars, loopVars, serverVars
<1>1. ~ChannelActs => SameChannels
  BY MostlySame
<1> DEFINE Said == UNCHANGED <<sent, toServer, server, refused, stray>>
                   /\ (readyState' = readyState \/ (readyState # "closed" /\ readyState' = "closing"))
<1>2. CASE AddOnOpen \/ RemoveOnOpen \/ Close
  <2>1. Said
    BY <1>2 DEF AddOnOpen, RemoveOnOpen, Close
  <2>2. ChannelActs \/ Quiet
    BY <1>1, <2>1 DEF Quiet
  <2> QED
    BY <2>2
<1>3. CASE OnMessage \/ OnTimeout
  <2>1. Said
    BY <1>3 DEF OnMessage, OnTimeout
  <2>2. ChannelActs \/ Quiet
    BY <1>1, <2>1 DEF Quiet
  <2> QED
    BY <2>2
<1>4. CASE \E i \in Ids : Update(i)
  <2>1. Said
    BY <1>4 DEF Update
  <2>2. ChannelActs \/ Quiet
    BY <1>1, <2>1 DEF Quiet
  <2> QED
    BY <2>2
<1>5. CASE UNCHANGED vars
  <2>1. Said
    BY <1>5 DEF vars
  <2>2. ChannelActs \/ Quiet
    BY <1>1, <2>1 DEF Quiet
  <2> QED
    BY <2>2
<1>6. CASE Step
  <2> DEFINE item == Head(todo)
             i    == onOpen[item.key]
  <2>1. UNCHANGED <<readyState, server, refused, stray>> /\ todo # <<>>
    BY <1>6 DEF Step
  <2>2. CASE UNCHANGED <<sent, toServer>>
    <3>1. ChannelActs \/ Quiet
      BY <1>1, <2>1, <2>2 DEF Quiet
    <3> QED
      BY <3>1
  <2>3. CASE /\ item.kind = "open" /\ item.key <= Len(onOpen) /\ i # Page /\ ~Throws
             /\ Sends("CreatePV", i) /\ sent' = sent \cup {i} /\ Skip
    <3>1. item.key \in 1..Len(onOpen)
      <4>1. item \in Turn /\ Len(onOpen) \in Nat
        BY <2>1, TailOne DEF Types, LoopType
      <4>2. item.key \in Nat /\ item.key > 0
        BY <2>3, <4>1, TurnFacts
      <4> QED
        BY <2>3, <4>1, <4>2
    <3>2. i \in Ids
      <4>1. onOpen \in Seq({Page} \cup Ids)
        BY DEF Types, LoopType
      <4> QED
        BY <2>3, <3>1, <4>1
    <3>3. todo' = Tail(todo)
      <4>1. todo \in Seq(Turn)
        BY DEF Types, LoopType
      <4>2. Tail(todo) \in Seq(Turn)
        BY <2>1, <4>1, TailOne
      <4> QED
        BY <2>3, <4>2 DEF Skip, Goes
    <3>4. ~ChannelActs => Flushes(i)
      BY <1>1, <2>1, <2>3, <3>1, <3>2, <3>3 DEF Flushes
    <3> QED
      BY <3>2, <3>4
  <2>4. \/ UNCHANGED <<sent, toServer>>
        \/ /\ item.kind = "open" /\ item.key <= Len(onOpen) /\ i # Page /\ ~Throws
           /\ Sends("CreatePV", i) /\ sent' = sent \cup {i} /\ Skip
    BY <1>6 DEF Step, CallOnOpen, FirePV, FireInternalPVs, FireInternalPV, FireSlot
  <2> QED
    BY <2>2, <2>3, <2>4
<1> QED
  BY <1>2, <1>3, <1>4, <1>5, <1>6 DEF Next, PageActs, ChannelActs

-----------------------------------------------------------------------------
(* Which internal PVs have been sent, and which wait for an on-open callback. *)

Registered ==
  /\ sent \subseteq 1..Len(internals)
  /\ \A i \in 1..Len(internals) : i \in sent \/ (i \in internalPVArray /\ ~internals[i].isPaused)

(* One listener for an internal PV ... *)
Listeners ==
  /\ \A j \in 1..Len(onOpen) : onOpen[j] <= Len(internals)
  /\ \A j, l \in 1..Len(onOpen) : onOpen[j] = onOpen[l] /\ onOpen[j] # Page => j = l

(* ... and those whose turn is still to come in fireOnOpen() have sent nothing.   *)
Calling ==
  \/ \A m \in 1..Len(todo) : todo[m].kind # "open"
  \/ /\ readyState \in {"open", "closing"}
     /\ \A m \in 1..Len(todo) :
          /\ todo[m].kind = "open"
          /\ \A l \in 1..(m-1) : todo[l].key < todo[m].key
          /\ \A j \in 1..Len(onOpen) : j >= todo[m].key => onOpen[j] \notin sent

LEMMA RegisteredStep ==
  ASSUME "early" \notin Habits, Steady, Types, Socket, Registered, Listeners, [Next]_vars
  PROVE  Registered'
<1>t. ClientType /\ Len(internals) \in Nat /\ internalPVArray \subseteq 1..Len(internals)
  BY DEF Types, ClientType
<1>1. CASE Quiet
  BY <1>1 DEF Quiet, SameChannels, Registered
<1>2. ASSUME NEW param \in Params, CreatePV(param) PROVE Registered'
  <2>1. Len(pvs) < MaxPVs
    BY <1>2 DEF CreatePV
  <2>2. CASE Join(param)
    <3>1. sent' = sent /\ internalPVArray' = internalPVArray
      BY <2>2 DEF Join
    <3>2. PICK i \in internalPVArray :
             /\ Len(internals') = Len(internals)
             /\ internals'[i] = [internals[i] EXCEPT !.myPVs = @ \cup {Len(pvs) + 1}]
             /\ \A j \in 1..Len(internals) : j # i => internals'[j] = internals[j]
      BY <1>t, <2>1, <2>2, JoinEffect
    <3>3. internals[i] \in InternalRecord
      BY <1>t DEF ClientType
    <3>4. internals'[i].isPaused = internals[i].isPaused
      BY <3>2, <3>3 DEF InternalRecord
    <3> QED
      BY <3>1, <3>2, <3>4 DEF Registered
  <2>3. CASE CreateNew(param)
    <3>1. /\ Len(internals') = Len(internals) + 1 /\ internalPVArray' = internalPVArray \cup {Len(internals) + 1}
          /\ sent' = sent \/ sent' = sent \cup {Len(internals) + 1}
          /\ ~internals'[Len(internals) + 1].isPaused
          /\ \A j \in 1..Len(internals) : internals'[j] = internals[j]
      BY <1>t, <2>1, <2>3, CreateNewEffect DEF CreateNew
    <3>2. 1..(Len(internals) + 1) = 1..Len(internals) \cup {Len(internals) + 1}
      BY <1>t
    <3> QED
      BY <3>1, <3>2 DEF Registered
  <2> QED
    BY <1>2, <2>2, <2>3, SteadyUse DEF CreatePV
<1>3. ASSUME NEW p \in 1..Len(pvs), ClosePV(p) PROVE Registered'
  <2>1. /\ Len(internals') = Len(internals)
        /\ \A j \in 1..Len(internals) : j # pvs[p].internal => internals'[j] = internals[j]
    BY <1>t, <1>3, ClosePVEffect
  <2>2. sent' = sent /\ pvs[p].internal \in sent
        /\ (internalPVArray' = internalPVArray \/ internalPVArray' = internalPVArray \ {pvs[p].internal})
    BY <1>3, SteadyUse DEF ClosePV, CloseInternalPV, openVars
  <2> QED
    BY <2>1, <2>2 DEF Registered
<1>4. ASSUME NEW p \in 1..Len(pvs), NEW paused \in BOOLEAN, SetPaused(p, paused) PROVE Registered'
  <2>1. /\ Len(internals') = Len(internals) /\ internalPVArray' = internalPVArray
        /\ \A j \in 1..Len(internals) : j # pvs[p].internal => internals'[j] = internals[j]
    BY <1>t, <1>4, SetPausedEffect
  <2>2. sent' = sent /\ pvs[p].internal \in sent
    BY <1>4, SteadyUse DEF SetPaused, openVars
  <2> QED
    BY <2>1, <2>2 DEF Registered
<1>5. ASSUME UNCHANGED <<clientVars, sent>> PROVE Registered'
  BY <1>5 DEF Registered, clientVars
<1>6. ASSUME NEW p \in 1..Len(pvs), SetPVValue(p) PROVE Registered'
  BY <1>5, <1>6 DEF SetPVValue, Say, openVars
<1>7. ASSUME NEW name \in {"Login", "Logout"}, LogInOrOut(name) PROVE Registered'
  BY <1>5, <1>7 DEF LogInOrOut, Say, openVars
<1>8. CASE OnOpen \/ OnClose
  BY <1>5, <1>8 DEF OnOpen, OnClose, openVars
<1>9. CASE Execute
  BY <1>5, <1>9 DEF Execute, openVars
<1>10. ASSUME NEW i \in Ids, Flushes(i) PROVE Registered'
  <2>1. i <= Len(internals)
    BY <1>10 DEF Flushes, Listeners
  <2>2. i \in 1..Len(internals)
    BY <1>t, <2>1 DEF Ids
  <2> QED
    BY <1>10, <2>2 DEF Flushes, SameChannels, Registered
<1> QED
  BY <1>1, <1>2, <1>3, <1>4, <1>6, <1>7, <1>8, <1>9, <1>10, StepKinds DEF ChannelActs

(* What becomes of the array of callbacks. *)
LEMMA OnOpenKinds ==
  ASSUME Types, [Next]_vars
  PROVE  \/ onOpen' = onOpen
         \/ (\E callback : onOpen' = Without(callback)) /\ sent' = sent
         \/ readyState = "connecting" /\ onOpen' = Append(onOpen, Page) /\ ~Contains(onOpen, Page) /\ sent' = sent
         \/ /\ onOpen' = Append(onOpen, Len(internals) + 1) /\ sent' = sent
            /\ \E param \in Params : CreatePV(param) /\ CreateNew(param)
<1> USE DEF socketVars, clientVars, openVars, loopVars, serverVars
<1>1. ASSUME NEW param \in Params, CreatePV(param)
      PROVE  onOpen' = onOpen \/ (onOpen' = Append(onOpen, Len(internals) + 1) /\ CreateNew(param) /\ sent' = sent)
  BY <1>1 DEF CreatePV, Join, CreateNew, CreateThrows
<1>2. ASSUME NEW p \in 1..Len(pvs), ClosePV(p) PROVE onOpen' = onOpen
  BY <1>2 DEF ClosePV
<1>3. ASSUME NEW p \in 1..Len(pvs), NEW paused \in BOOLEAN, SetPaused(p, paused) PROVE onOpen' = onOpen
  BY <1>3 DEF SetPaused
<1>4. ASSUME NEW p \in 1..Len(pvs), SetPVValue(p) PROVE onOpen' = onOpen
  BY <1>4 DEF SetPVValue, Say
<1>5. ASSUME NEW name \in {"Login", "Logout"}, LogInOrOut(name) PROVE onOpen' = onOpen
  BY <1>5 DEF LogInOrOut, Say
<1>6. CASE AddOnOpen
  BY <1>6 DEF AddOnOpen
<1>7. CASE RemoveOnOpen
  BY <1>7 DEF RemoveOnOpen
<1>8. CASE Close \/ OnOpen \/ OnMessage \/ OnClose
  BY <1>8 DEF Close, OnOpen, OnMessage, OnClose
<1>9. CASE OnTimeout
  BY <1>9 DEF OnTimeout
<1>10. CASE Step
  BY <1>10 DEF Step, CallOnOpen, RemoveLater, FirePV, FireInternalPVs, FireInternalPV, FireSlot
<1>11. CASE Execute
  BY <1>11 DEF Execute
<1>12. ASSUME NEW i \in Ids, Update(i) PROVE onOpen' = onOpen
  BY <1>12 DEF Update
<1>13. CASE UNCHANGED vars
  BY <1>13 DEF vars
<1> QED
  BY <1>1, <1>2, <1>3, <1>4, <1>5, <1>6, <1>7, <1>8, <1>9, <1>10, <1>11, <1>12, <1>13 DEF Next, PageActs

(* Internal PVs are never forgotten: ids only grow. *)
LEMMA InternalsGrow ==
  ASSUME Types, [Next]_vars
  PROVE  Len(internals) \in Nat /\ Len(internals') \in Nat /\ Len(internals') >= Len(internals)
<1>t. ClientType /\ Len(internals) \in Nat
  BY DEF Types, ClientType
<1>1. ASSUME ~ChannelActs PROVE Len(internals') = Len(internals)
  BY <1>1, MostlySame DEF SameChannels
<1>2. ASSUME NEW param \in Params, CreatePV(param)
      PROVE  Len(internals') = Len(internals) \/ Len(internals') = Len(internals) + 1
  BY <1>t, <1>2, JoinEffect, CreateNewEffect, CreateThrowsEffect DEF CreatePV
<1>3. ASSUME NEW p \in 1..Len(pvs), ClosePV(p) PROVE Len(internals') = Len(internals)
  BY <1>t, <1>3, ClosePVEffect
<1>4. ASSUME NEW p \in 1..Len(pvs), NEW paused \in BOOLEAN, SetPaused(p, paused)
      PROVE  Len(internals') = Len(internals)
  BY <1>t, <1>4, SetPausedEffect
<1>5. Len(internals') = Len(internals) \/ Len(internals') = Len(internals) + 1
  BY <1>t, <1>1, <1>2, <1>3, <1>4 DEF ChannelActs
<1> QED
  BY <1>t, <1>5

LEMMA ListenersStep ==
  ASSUME Types, Listeners, [Next]_vars
  PROVE  Listeners'
<1>t. onOpen \in Seq({Page} \cup Ids) /\ Len(onOpen) \in Nat
  BY DEF Types, LoopType
<1>g. Len(internals) \in Nat /\ Len(internals') \in Nat /\ Len(internals') >= Len(internals)
  BY InternalsGrow
<1>n. \A j \in 1..Len(onOpen) : onOpen[j] \in Nat /\ onOpen[j] <= Len(internals) /\ onOpen[j] <= Len(internals')
  <2>1. \A j \in 1..Len(onOpen) : onOpen[j] \in Nat
    BY <1>t, ParamsAssumption DEF Page, Ids
  <2> QED
    BY <1>g, <2>1 DEF Listeners
<1>1. CASE onOpen' = onOpen
  BY <1>n, <1>1 DEF Listeners
<1>2. ASSUME NEW callback, onOpen' = Without(callback) PROVE Listeners'
  <2>1. onOpen' \in Seq({Page} \cup Ids) /\ Len(onOpen') \in Nat
    BY <1>t, <1>2, WithoutType
  <2>2. PICK c \in Nat : \A k \in 1..Len(onOpen') :
                            LET l == IF k < c THEN k ELSE k + 1
                            IN  l \in 1..Len(onOpen) /\ onOpen'[k] = onOpen[l]
    BY <1>t, <1>2, WithoutType
  <2>3. ASSUME NEW j \in 1..Len(onOpen'), NEW k \in 1..Len(onOpen'), onOpen'[j] = onOpen'[k], onOpen'[j] # Page
        PROVE  j = k
    <3> DEFINE a == IF j < c THEN j ELSE j + 1
               b == IF k < c THEN k ELSE k + 1
    <3>1. a \in 1..Len(onOpen) /\ b \in 1..Len(onOpen) /\ onOpen'[j] = onOpen[a] /\ onOpen'[k] = onOpen[b]
      BY <2>2
    <3>2. a = b
      <4> HIDE DEF a, b
      <4> QED
        BY <2>3, <3>1 DEF Listeners
    <3> QED
      BY <2>1, <3>2
  <2>4. \A j \in 1..Len(onOpen') : onOpen'[j] <= Len(internals')
    BY <1>n, <2>2
  <2> QED
    BY <2>3, <2>4 DEF Listeners
<1>3. ASSUME NEW e \in {Page} \cup Ids, onOpen' = Append(onOpen, e), e <= Len(internals'),
             \A j \in 1..Len(onOpen) : onOpen[j] # e
      PROVE  Listeners'
  <2>1. /\ Len(onOpen') = Len(onOpen) + 1 /\ onOpen'[Len(onOpen) + 1] = e
        /\ \A k \in 1..Len(onOpen) : onOpen'[k] = onOpen[k]
    BY <1>t, <1>3, AppendOne
  <2>2. 1..Len(onOpen') = 1..Len(onOpen) \cup {Len(onOpen) + 1}
    BY <1>t, <2>1
  <2> QED
    BY <1>n, <1>3, <2>1, <2>2 DEF Listeners
<1>4. CASE onOpen' = Append(onOpen, Page) /\ ~Contains(onOpen, Page)
  <2>1. \A j \in 1..Len(onOpen) : onOpen[j] # Page
    BY <1>t, <1>4 DEF Contains
  <2>2. Page <= Len(internals')
    BY <1>g DEF Page
  <2> QED
    BY <1>3, <1>4, <2>1, <2>2
<1>5. ASSUME NEW param \in Params, onOpen' = Append(onOpen, Len(internals) + 1), CreatePV(param), CreateNew(param)
      PROVE  Listeners'
  <2>1. Len(internals) + 1 \in Ids /\ Len(internals') = Len(internals) + 1
    BY <1>5, CreateNewEffect DEF CreatePV, Types
  <2>2. \A j \in 1..Len(onOpen) : onOpen[j] # Len(internals) + 1
    BY <1>n, <1>g
  <2>3. Len(internals) + 1 <= Len(internals')
    BY <1>g, <2>1
  <2> QED
    BY <1>3, <1>5, <2>1, <2>2, <2>3
<1> QED
  BY <1>1, <1>2, <1>4, <1>5, OnOpenKinds

(* What becomes of the running loop: the page acts, a handler starts, a turn is   *)
(* taken, or none of it.                                                          *)
LEMMA TodoKinds ==
  ASSUME Types, [Next]_vars
  PROVE  \/ todo' = todo \/ todo' = <<>>
         \/ OnOpen
         \/ \A m \in 1..Len(todo') : todo'[m].kind # "open"
         \/ todo # <<>> /\ Step /\ Head(todo).kind = "open" /\ todo' = Tail(todo)
         \/ /\ todo # <<>> /\ Step /\ Head(todo).kind # "open"
            /\ \E items \in Seq(Turn) :
                 todo' = items \o Tail(todo) /\ \A m \in 1..Len(items) : items[m].kind # "open"
<1> USE DEF socketVars, clientVars, openVars, loopVars, serverVars, Returns, Fails
<1>t. ClientType /\ LoopType
  BY DEF Types
<1>s. ASSUME NEW i \in 1..Len(internals)
      PROVE  Slots(i) \in Seq(Turn) /\ \A m \in 1..Len(Slots(i)) : Slots(i)[m].kind # "open"
  <2>1. Slots(i) \in Seq(Turn) /\ Len(Slots(i)) = Cardinality(internals[i].myPVs)
    BY <1>t, SlotsType
  <2>2. \A m \in 1..Cardinality(internals[i].myPVs) : Slots(i)[m] = NewItem("slot", i, m)
    BY DEF Slots
  <2> QED
    BY <2>1, <2>2 DEF NewItem
<1>i. ASSUME NEW K, K \subseteq Ids, NEW kind \in {"pv", "internal"}
      PROVE  Items(kind, K) \in Seq(Turn) /\ \A m \in 1..Len(Items(kind, K)) : Items(kind, K)[m].kind # "open"
  <2>1. Items(kind, K) \in Seq(Turn) /\ Len(Items(kind, K)) = Cardinality(K)
    BY <1>i, ItemsType
  <2>2. \A m \in 1..Cardinality(K) : Items(kind, K)[m] = NewItem(kind, Nth(K, m), 0)
    BY DEF Items
  <2> QED
    BY <2>1, <2>2 DEF NewItem
<1>d. pvArray \subseteq Ids /\ internalPVArray \subseteq 1..Len(internals) /\ internalPVArray \subseteq Ids
  <2>1. Len(pvs) \in Nat /\ Len(internals) \in Nat /\ Len(pvs) <= MaxPVs /\ Len(internals) <= MaxPVs
    BY <1>t DEF ClientType
  <2> QED
    BY <1>t, <2>1, ParamsAssumption DEF ClientType, Ids
<1>1. ASSUME NEW param \in Params, CreatePV(param) PROVE todo' = todo \/ todo' = <<>>
  BY <1>1 DEF CreatePV, Join, CreateNew, CreateThrows
<1>2. ASSUME NEW p \in 1..Len(pvs), ClosePV(p) PROVE todo' = todo \/ todo' = <<>>
  BY <1>2 DEF ClosePV
<1>3. ASSUME NEW p \in 1..Len(pvs), NEW paused \in BOOLEAN, SetPaused(p, paused)
      PROVE  todo' = todo \/ todo' = <<>>
  BY <1>3 DEF SetPaused
<1>4. ASSUME NEW p \in 1..Len(pvs), SetPVValue(p) PROVE todo' = todo \/ todo' = <<>>
  BY <1>4 DEF SetPVValue, Say
<1>5. ASSUME NEW name \in {"Login", "Logout"}, LogInOrOut(name) PROVE todo' = todo \/ todo' = <<>>
  BY <1>5 DEF LogInOrOut, Say
<1>6. CASE AddOnOpen \/ RemoveOnOpen \/ Close
  BY <1>6 DEF AddOnOpen, RemoveOnOpen, Close
<1>7. CASE OnMessage
  <2>1. todo' = <<>> \/ (Head(toClient).id \in internalPVArray /\ todo' = Slots(Head(toClient).id))
    BY <1>7 DEF OnMessage, Runs
  <2> QED
    BY <1>d, <1>s, <2>1
<1>8. CASE OnClose
  <2> DEFINE a == Items("pv", pvArray)
             e == NewItem("internals", 0, 0)
  <2>1. todo' = a \o <<e>>
    BY <1>8 DEF OnClose, Runs
  <2>2. a \in Seq(Turn) /\ \A m \in 1..Len(a) : a[m].kind # "open"
    BY <1>d, <1>i
  <2>3. e.kind # "open"
    BY DEF NewItem
  <2> HIDE DEF a, e
  <2>4. \A m \in 1..Len(todo') : todo'[m].kind # "open"
    BY <2>1, <2>2, <2>3
  <2> QED
    BY <2>4
<1>9. CASE OnTimeout
  BY <1>9 DEF OnTimeout, Runs
<1>10. CASE Step
  <2>1. todo # <<>> /\ Tail(todo) \in Seq(Turn) /\ <<>> \o Tail(todo) = Tail(todo)
    <3>1. todo # <<>> /\ todo \in Seq(Turn)
      BY <1>10, <1>t DEF Step, LoopType
    <3>2. Tail(todo) \in Seq(Turn)
      BY <3>1, TailOne
    <3> QED
      BY <3>1, <3>2
  <2>2. CallPage \/ Skip => todo' = Tail(todo)
    BY <2>1 DEF CallPage, Skip, Goes
  <2>3. ASSUME Head(todo).kind # "open", todo' = Tail(todo)
        PROVE  \E items \in Seq(Turn) :
                 todo' = items \o Tail(todo) /\ \A m \in 1..Len(items) : items[m].kind # "open"
    <3>1. <<>> \in Seq(Turn) /\ \A m \in 1..Len(<<>>) : <<>>[m].kind # "open"
      OBVIOUS
    <3> QED
      BY <2>1, <2>3, <3>1
  <2>4. CASE Head(todo).kind = "open"
    BY <1>10, <2>1, <2>2, <2>4 DEF Step, CallOnOpen
  <2>5. CASE Head(todo).kind = "pv" \/ Head(todo).kind = "slot"
    <3>1. todo' = Tail(todo)
      BY <1>10, <2>2, <2>5 DEF Step, FirePV, FireSlot, Tell
    <3> QED
      BY <1>10, <2>1, <2>3, <2>5, <3>1
  <2>6. CASE Head(todo).kind = "internals"
    <3>1. todo' = Items("internal", internalPVArray) \o Tail(todo)
      BY <1>10, <2>6 DEF Step, FireInternalPVs, Goes
    <3> QED
      BY <1>10, <1>d, <1>i, <2>1, <2>6, <3>1
  <2>7. CASE Head(todo).kind = "internal"
    <3>1. todo' = Tail(todo) \/ \E i \in internalPVArray : todo' = Slots(i) \o Tail(todo)
      BY <1>10, <2>2, <2>7 DEF Step, FireInternalPV, Goes, Slot
    <3> QED
      BY <1>10, <1>d, <1>s, <2>1, <2>3, <2>7, <3>1
  <2> QED
    BY <1>10, <2>4, <2>5, <2>6, <2>7 DEF Step
<1>11. CASE Execute
  BY <1>11 DEF Execute
<1>12. ASSUME NEW i \in Ids, Update(i) PROVE todo' = todo
  BY <1>12 DEF Update
<1>13. CASE UNCHANGED vars
  BY <1>13 DEF vars
<1> QED
  BY <1>1, <1>2, <1>3, <1>4, <1>5, <1>6, <1>7, <1>8, <1>9, <1>10, <1>11, <1>12, <1>13 DEF Next, PageActs

(* An id is counted as sent when its command is, in CreateNew() or by a listener. *)
LEMMA SentKinds ==
  ASSUME Types, [Next]_vars
  PROVE  /\ \/ sent' = sent
            \/ sent' = sent \cup {Len(internals) + 1}
            \/ \E i \in Ids : Flushes(i)
         /\ \/ readyState' = readyState
            \/ OnOpen \/ OnClose
            \/ readyState # "closed" /\ readyState' = "closing"
<1> USE DEF socketVars, openVars
<1>1. ASSUME NEW param \in Params, CreatePV(param)
      PROVE  readyState' = readyState /\ (sent' = sent \/ sent' = sent \cup {Len(internals) + 1})
  BY <1>1 DEF CreatePV, Join, CreateNew, CreateThrows
<1>2. ASSUME NEW p \in 1..Len(pvs), ClosePV(p) PROVE readyState' = readyState /\ sent' = sent
  BY <1>2 DEF ClosePV
<1>3. ASSUME NEW p \in 1..Len(pvs), NEW paused \in BOOLEAN, SetPaused(p, paused)
      PROVE  readyState' = readyState /\ sent' = sent
  BY <1>3 DEF SetPaused
<1>4. ASSUME NEW p \in 1..Len(pvs), SetPVValue(p) PROVE readyState' = readyState /\ sent' = sent
  BY <1>4 DEF SetPVValue, Say
<1>5. ASSUME NEW name \in {"Login", "Logout"}, LogInOrOut(name) PROVE readyState' = readyState /\ sent' = sent
  BY <1>5 DEF LogInOrOut, Say
<1>6. CASE OnOpen \/ OnClose
  BY <1>6 DEF OnOpen, OnClose
<1>7. CASE Execute
  BY <1>7 DEF Execute
<1>8. CASE Quiet
  BY <1>8 DEF Quiet
<1>9. ASSUME NEW i \in Ids, Flushes(i) PROVE readyState' = readyState
  BY <1>9 DEF Flushes
<1> QED
  BY <1>1, <1>2, <1>3, <1>4, <1>5, <1>6, <1>7, <1>8, <1>9, StepKinds DEF ChannelActs

LEMMA NoneOpen ==
  ASSUME NEW K, NEW a \in Seq(K), NEW b \in Seq(K),
         \A m \in 1..Len(a) : a[m].kind # "open", \A m \in 1..Len(b) : b[m].kind # "open"
  PROVE  \A m \in 1..Len(a \o b) : (a \o b)[m].kind # "open"
<1> SUFFICES ASSUME NEW m \in 1..Len(a \o b) PROVE (a \o b)[m].kind # "open"
  OBVIOUS
<1>1. Len(a) \in Nat /\ Len(b) \in Nat /\ Len(a \o b) = Len(a) + Len(b)
  OBVIOUS
<1>2. CASE m <= Len(a)
  BY <1>1, <1>2
<1>3. CASE m > Len(a)
  <2>1. m - Len(a) \in 1..Len(b) /\ (a \o b)[m] = b[m - Len(a)]
    BY <1>1, <1>3
  <2> QED
    BY <2>1
<1> QED
  BY <1>1, <1>2, <1>3

LEMMA CallingStep ==
  ASSUME Types, Socket, Registered, Listeners, Calling, [Next]_vars
  PROVE  Calling'
<1>t. /\ onOpen \in Seq({Page} \cup Ids) /\ Len(onOpen) \in Nat
      /\ todo \in Seq(Turn) /\ Len(todo) \in Nat
      /\ Len(internals) \in Nat
  BY DEF Types, LoopType, ClientType
<1>k. \A m \in 1..Len(todo) : todo[m] \in Turn /\ todo[m].key \in Nat
  BY <1>t, TurnFacts
<1>n. \A j \in 1..Len(onOpen) : onOpen[j] # Len(internals) + 1
  <2>1. \A j \in 1..Len(onOpen) : onOpen[j] \in Nat
    BY <1>t, ParamsAssumption DEF Page, Ids
  <2> QED
    BY <1>t, <2>1 DEF Listeners
<1>1. CASE \A m \in 1..Len(todo') : todo'[m].kind # "open"
  BY <1>1 DEF Calling
<1>2. CASE todo' = <<>>
  BY <1>2 DEF Calling
<1>3. CASE OnOpen
  <2>1. sent' = {} /\ readyState' = "open" /\ onOpen' = onOpen
    BY <1>3 DEF OnOpen, openVars, Socket
  <2>2. todo' = [k \in 1..Len(onOpen) |-> NewItem("open", 0, k)]
    BY <1>3 DEF OnOpen, Runs
  <2>3. Len(todo') = Len(onOpen) /\ \A m \in 1..Len(onOpen) : todo'[m].kind = "open" /\ todo'[m].key = m
    BY <1>t, <2>2 DEF NewItem
  <2> QED
    BY <1>t, <2>1, <2>3 DEF Calling
<1>4. CASE /\ todo # <<>> /\ Head(todo).kind # "open"
           /\ \E items \in Seq(Turn) :
                todo' = items \o Tail(todo) /\ \A m \in 1..Len(items) : items[m].kind # "open"
  <2>1. PICK items \in Seq(Turn) :
           todo' = items \o Tail(todo) /\ \A m \in 1..Len(items) : items[m].kind # "open"
    BY <1>4
  <2>2. /\ Tail(todo) \in Seq(Turn) /\ Len(Tail(todo)) = Len(todo) - 1 /\ Head(todo) = todo[1]
        /\ \A m \in 1..(Len(todo) - 1) : Tail(todo)[m] = todo[m + 1]
        /\ Len(todo) > 0
    BY <1>t, <1>4, TailOne
  <2>3. \A m \in 1..Len(todo) : todo[m].kind # "open"
    BY <1>t, <1>4, <2>2 DEF Calling
  <2>4. \A m \in 1..Len(Tail(todo)) : Tail(todo)[m].kind # "open"
    BY <1>t, <2>2, <2>3
  <2>5. \A m \in 1..Len(todo') : todo'[m].kind # "open"
    <3>1. PICK rest \in Seq(Turn) : rest = Tail(todo)
      BY <2>2
    <3>2. \A m \in 1..Len(rest) : rest[m].kind # "open"
      BY <2>4, <3>1
    <3> HIDE DEF Turn
    <3>3. \A m \in 1..Len(items \o rest) : (items \o rest)[m].kind # "open"
      BY <2>1, <3>2, NoneOpen
    <3> QED
      BY <2>1, <3>1, <3>3
  <2> QED
    BY <2>5 DEF Calling
<1>5. CASE \A m \in 1..Len(todo) : todo[m].kind # "open"
  <2>1. CASE todo' = todo
    BY <1>5, <2>1 DEF Calling
  <2>2. CASE todo # <<>> /\ Head(todo).kind = "open"
    BY <1>t, <1>5, <2>2, TailOne
  <2> QED
    BY <1>1, <1>2, <1>3, <1>4, <2>1, <2>2, TodoKinds
<1>6. CASE todo # <<>> /\ ~ \A m \in 1..Len(todo) : todo[m].kind # "open"
  <2>1. /\ readyState \in {"open", "closing"}
        /\ \A m \in 1..Len(todo) :
             /\ todo[m].kind = "open"
             /\ \A l \in 1..(m-1) : todo[l].key < todo[m].key
             /\ \A j \in 1..Len(onOpen) : j >= todo[m].key => onOpen[j] \notin sent
    BY <1>6 DEF Calling
  <2>2. readyState' \in {"open", "closing"}
    <3>1. ~OnOpen /\ ~OnClose
      BY <1>6, <2>1 DEF OnOpen, OnClose, Runs
    <3> QED
      BY <2>1, <3>1, SentKinds
  <2>3. CASE todo' = todo
    <3>1. ASSUME NEW m \in 1..Len(todo), NEW j \in 1..Len(onOpen'), j >= todo[m].key
          PROVE  onOpen'[j] \notin sent'
      <4>1. CASE onOpen' = onOpen
        <5>1. \A i \in Ids : ~Flushes(i)
          <6>1. todo' # Tail(todo)
            BY <1>t, <1>6, <2>3, TailOne
          <6> QED
            BY <6>1 DEF Flushes
        <5>2. sent' = sent \/ sent' = sent \cup {Len(internals) + 1}
          BY <5>1, SentKinds
        <5> QED
          BY <1>n, <2>1, <3>1, <4>1, <5>2
      <4>2. ASSUME NEW callback, onOpen' = Without(callback), sent' = sent PROVE onOpen'[j] \notin sent'
        <5>1. PICK c \in Nat : \A k \in 1..Len(onOpen') :
                                  LET l == IF k < c THEN k ELSE k + 1
                                  IN  l \in 1..Len(onOpen) /\ onOpen'[k] = onOpen[l]
          BY <1>t, <4>2, WithoutType
        <5> DEFINE l == IF j < c THEN j ELSE j + 1
        <5>2. l \in 1..Len(onOpen) /\ onOpen'[j] = onOpen[l]
          BY <5>1
        <5>3. l >= todo[m].key
          BY <1>k, <1>t, <3>1, <5>2
        <5> HIDE DEF l
        <5> QED
          BY <2>1, <4>2, <5>2, <5>3
      <4>3. CASE onOpen' = Append(onOpen, Len(internals) + 1) /\ sent' = sent
                 /\ \E param \in Params : CreatePV(param) /\ CreateNew(param)
        <5>1. Len(internals) + 1 \in Ids
          BY <4>3, CreateNewEffect DEF CreatePV, Types
        <5>2. /\ Len(onOpen') = Len(onOpen) + 1 /\ onOpen'[Len(onOpen) + 1] = Len(internals) + 1
              /\ \A k \in 1..Len(onOpen) : onOpen'[k] = onOpen[k]
          BY <1>t, <4>3, <5>1, AppendOne
        <5>3. Len(internals) + 1 \notin sent
          BY <1>t DEF Registered
        <5>4. j \in 1..Len(onOpen) \/ j = Len(onOpen) + 1
          BY <1>t, <5>2
        <5> QED
          BY <2>1, <3>1, <4>3, <5>2, <5>3, <5>4
      <4> QED
        BY <2>1, <4>1, <4>2, <4>3, OnOpenKinds
    <3> QED
      BY <2>1, <2>2, <2>3, <3>1 DEF Calling
  <2>4. CASE Step /\ Head(todo).kind = "open" /\ todo' = Tail(todo)
    <3>1. /\ Len(todo') = Len(todo) - 1 /\ Head(todo) = todo[1] /\ 1 \in 1..Len(todo)
          /\ \A m \in 1..(Len(todo) - 1) : todo'[m] = todo[m + 1] /\ m + 1 \in 1..Len(todo)
      BY <1>t, <1>6, <2>4, TailOne
    <3>2. onOpen' = onOpen
      BY <2>4 DEF Step, CallOnOpen, RemoveLater
    <3>3. sent' = sent \/ (Head(todo).key \in 1..Len(onOpen) /\ sent' = sent \cup {onOpen[Head(todo).key]} /\ onOpen[Head(todo).key] # Page)
      <4>1. sent' = sent \/ (Head(todo).key <= Len(onOpen) /\ sent' = sent \cup {onOpen[Head(todo).key]} /\ onOpen[Head(todo).key] # Page)
        BY <2>4 DEF Step, CallOnOpen
      <4>2. Head(todo).key \in Nat /\ Head(todo).key > 0
        BY <2>4, <3>1, <1>k, TurnFacts
      <4> QED
        BY <1>t, <4>1, <4>2
    <3>4. ASSUME NEW m \in 1..Len(todo')
          PROVE  /\ todo'[m].kind = "open"
                 /\ \A l \in 1..(m-1) : todo'[l].key < todo'[m].key
                 /\ \A j \in 1..Len(onOpen') : j >= todo'[m].key => onOpen'[j] \notin sent'
      <4>1. m + 1 \in 1..Len(todo) /\ todo'[m] = todo[m + 1] /\ 1 \in 1..((m + 1) - 1) /\ m \in Nat
        BY <1>t, <3>1
      <4>2. todo[1].key < todo[m + 1].key /\ todo'[m].kind = "open"
        BY <2>1, <4>1
      <4>3. ASSUME NEW l \in 1..(m-1) PROVE todo'[l].key < todo'[m].key
        <5>1. l \in 1..(Len(todo) - 1) /\ l + 1 \in 1..((m + 1) - 1)
          BY <1>t, <3>1, <4>1
        <5> QED
          BY <2>1, <3>1, <4>1, <5>1
      <4>4. ASSUME NEW j \in 1..Len(onOpen), j >= todo'[m].key PROVE onOpen[j] \notin sent'
        <5>1. onOpen[j] \notin sent
          BY <2>1, <4>1, <4>4
        <5>2. j # Head(todo).key
          BY <1>k, <3>1, <4>1, <4>2, <4>4
        <5> QED
          BY <3>3, <5>1, <5>2 DEF Listeners
      <4> QED
        BY <3>2, <4>2, <4>3, <4>4
    <3> QED
      BY <2>2, <3>4 DEF Calling
  <2>5. ~OnOpen
    BY <2>1 DEF OnOpen
  <2> QED
    BY <1>1, <1>2, <1>4, <2>3, <2>4, <2>5, TodoKinds
<1>7. CASE todo = <<>>
  BY <1>5, <1>7
<1> QED
  BY <1>5, <1>6, <1>7

-----------------------------------------------------------------------------
(* What the commands on their way make of the internal PV i on the server.  *)

Says(k, name, i)  == toServer[k].name = name /\ toServer[k].id = i
Speaks(k, i)      == toServer[k].name \notin {"Login", "Logout"} /\ toServer[k].id = i
OnItsWay(name, i) == \E k \in 1..Len(toServer) : Says(k, name, i)

(* Nothing is said of an internal PV before its CreatePV ... *)
Unsaid(i) ==
  i \notin sent =>
    /\ server[i] = "none" /\ i \notin refused
    /\ \A k \in 1..Len(toServer) : ~Speaks(k, i)

(* ... which comes once, and first. *)
CreatedFirst(i) ==
  \A k \in 1..Len(toServer) :
    Says(k, "CreatePV", i) =>
      /\ server[i] = "none" /\ i \notin refused
      /\ \A j \in 1..(k-1) : ~Speaks(j, i)

RefusedNone(i) == i \in refused => server[i] = "none"

(* The last command about i, if there is one, makes of it what the client wants. *)
IsLast(k, i) ==
  /\ k \in 1..Len(toServer) /\ S!About(toServer[k], i)
  /\ \A j \in 1..Len(toServer) : S!About(toServer[j], i) => j <= k
WillAgree(i) ==
  \/ \E k \in 1..Len(toServer) : IsLast(k, i) /\ S!Outcome(toServer[k].name) = wanted[i]
  \/ (\A k \in 1..Len(toServer) : ~S!About(toServer[k], i)) /\ server[i] = wanted[i]

(* A channel of the client is there, or on its way, and stays. *)
Lives(i) ==
  readyState = "open" /\ i \in internalPVArray =>
    /\ ~OnItsWay("ClosePV", i)
    /\ i \in sent \ refused => (server[i] # "none" \/ OnItsWay("CreatePV", i)) /\ WillAgree(i)

(* One that is closed is gone, or will be. *)
Gone(i) ==
  readyState = "open" /\ i \in sent \ internalPVArray =>
    \/ server[i] = "none" /\ ~OnItsWay("CreatePV", i)
    \/ OnItsWay("ClosePV", i)

Settles(i) == Unsaid(i) /\ CreatedFirst(i) /\ RefusedNone(i) /\ Lives(i) /\ Gone(i)

(* Nothing is said that changes i, and nothing becomes of it. *)
LEMMA OtherSettles ==
  ASSUME ServerType, NEW i \in Ids, Settles(i), NEW c \in Command,
         toServer' = toServer \/ toServer' = Append(toServer, c),
         c.name \notin {"Login", "Logout"} /\ c.id = i => c.name = "SetPVValue" /\ i \in sent,
         server'[i] = server[i], i \in refused' <=> i \in refused, i \in sent' <=> i \in sent,
         ((i \in internalPVArray' <=> i \in internalPVArray) /\ wanted'[i] = wanted[i]) \/ i \notin sent,
         readyState' = "open" => readyState = "open" \/ i \notin sent
  PROVE  Settles(i)'
<1>1. toServer \in Seq(Command) /\ Len(toServer) \in Nat
  BY DEF ServerType
<1>2. CASE toServer' = toServer
  <2>1. Unsaid(i)' /\ CreatedFirst(i)' /\ RefusedNone(i)'
    BY <1>2 DEF Settles, Unsaid, CreatedFirst, RefusedNone, Says, Speaks
  <2>2. WillAgree(i) /\ wanted'[i] = wanted[i] => WillAgree(i)'
    BY <1>2 DEF WillAgree, IsLast
  <2>3. /\ \A name : OnItsWay(name, i)' <=> OnItsWay(name, i)
        /\ i \notin sent => ~OnItsWay("ClosePV", i)
    BY <1>2 DEF OnItsWay, Says, Settles, Unsaid, Speaks
  <2>4. Lives(i)' /\ Gone(i)'
    BY <2>2, <2>3 DEF Settles, Lives, Gone
  <2> QED
    BY <2>1, <2>4 DEF Settles
<1>3. CASE toServer' = Append(toServer, c)
  <2>1. /\ Len(toServer') = Len(toServer) + 1 /\ toServer'[Len(toServer) + 1] = c
        /\ \A k \in 1..Len(toServer) : toServer'[k] = toServer[k]
        /\ 1..Len(toServer') = 1..Len(toServer) \cup {Len(toServer) + 1}
    BY <1>1, <1>3, AppendOne
  <2>2. c.name = "SetPVValue" \/ c.name \in {"Login", "Logout"} \/ c.id # i
    OBVIOUS
  <2>3. /\ \A name \in {"CreatePV", "ClosePV"} : OnItsWay(name, i)' <=> OnItsWay(name, i)
        /\ i \notin sent => ~OnItsWay("ClosePV", i)
    BY <2>1, <2>2 DEF OnItsWay, Says, Settles, Unsaid, Speaks
  <2>4. Unsaid(i)' /\ RefusedNone(i)'
    BY <2>1 DEF Settles, Unsaid, RefusedNone, Speaks
  <2>5. CreatedFirst(i)'
    BY <1>1, <2>1, <2>2 DEF Settles, CreatedFirst, Says, Speaks
  <2>6. WillAgree(i) /\ wanted'[i] = wanted[i] => WillAgree(i)'
    <3>1. ~S!About(c, i)
      BY <2>2 DEF S!About, S!Names
    <3> QED
      BY <1>1, <2>1, <3>1 DEF WillAgree, IsLast
  <2>7. Lives(i)' /\ Gone(i)'
    BY <2>3, <2>6 DEF Settles, Lives, Gone
  <2> QED
    BY <2>4, <2>5, <2>7 DEF Settles
<1> QED
  BY <1>2, <1>3

(* Its creation is sent ... *)
LEMMA CreationSettles ==
  ASSUME ServerType, NEW i \in Ids, Settles(i), i \notin sent, i \in sent', i \in internalPVArray',
         wanted'[i] = "running", Sends("CreatePV", i),
         UNCHANGED <<readyState, server, refused>>
  PROVE  Settles(i)'
<1> DEFINE c == NewCommand("CreatePV", i)
<1>1. toServer \in Seq(Command) /\ Len(toServer) \in Nat
  BY DEF ServerType
<1>2. CASE readyState # "open"
  <2>1. toServer' = toServer
    BY <1>2 DEF Sends
  <2> QED
    BY <1>2, <2>1 DEF Settles, Unsaid, CreatedFirst, RefusedNone, Lives, Gone, Says, Speaks
<1>3. CASE readyState = "open"
  <2>0. c \in Command /\ c.name = "CreatePV" /\ c.id = i /\ toServer' = Append(toServer, c)
    BY <1>3 DEF Sends, NewCommand, Command
  <2> HIDE DEF c
  <2>1. /\ Len(toServer') = Len(toServer) + 1 /\ toServer'[Len(toServer) + 1] = c
        /\ \A k \in 1..Len(toServer) : toServer'[k] = toServer[k]
        /\ 1..Len(toServer') = 1..Len(toServer) \cup {Len(toServer) + 1}
    BY <1>1, <2>0, AppendOne
  <2>2. server[i] = "none" /\ i \notin refused /\ \A k \in 1..Len(toServer) : ~Speaks(k, i)
    BY DEF Settles, Unsaid
  <2>3. Unsaid(i)' /\ RefusedNone(i)' /\ Gone(i)'
    BY <2>2 DEF Unsaid, RefusedNone, Gone
  <2>4. CreatedFirst(i)'
    BY <1>1, <2>1, <2>2 DEF CreatedFirst, Says, Speaks
  <2>5. ~OnItsWay("ClosePV", i)' /\ OnItsWay("CreatePV", i)'
    BY <2>0, <2>1, <2>2 DEF OnItsWay, Says, Speaks
  <2>6. WillAgree(i)'
    <3>1. PICK n \in Nat : n = Len(toServer) + 1 /\ n \in 1..Len(toServer')
      BY <1>1, <2>1
    <3>2. IsLast(n, i)'
      BY <1>1, <2>0, <2>1, <3>1 DEF IsLast, S!About, S!Names
    <3> QED
      BY <2>0, <2>1, <3>1, <3>2 DEF WillAgree, S!Outcome
  <2> QED
    BY <2>3, <2>4, <2>5, <2>6 DEF Settles, Lives
<1> QED
  BY <1>2, <1>3

(* ... it is closed ... *)
LEMMA ClosingSettles ==
  ASSUME ServerType, NEW i \in Ids, Settles(i), i \in sent, i \in sent', i \notin internalPVArray',
         Sends("ClosePV", i), UNCHANGED <<readyState, server, refused>>
  PROVE  Settles(i)'
<1> DEFINE c == NewCommand("ClosePV", i)
<1>1. toServer \in Seq(Command) /\ Len(toServer) \in Nat
  BY DEF ServerType
<1>2. CASE readyState # "open"
  <2>1. toServer' = toServer
    BY <1>2 DEF Sends
  <2> QED
    BY <1>2, <2>1 DEF Settles, Unsaid, CreatedFirst, RefusedNone, Lives, Gone, Says, Speaks
<1>3. CASE readyState = "open"
  <2>0. c \in Command /\ c.name = "ClosePV" /\ c.id = i /\ toServer' = Append(toServer, c)
    BY <1>3 DEF Sends, NewCommand, Command
  <2> HIDE DEF c
  <2>1. /\ Len(toServer') = Len(toServer) + 1 /\ toServer'[Len(toServer) + 1] = c
        /\ \A k \in 1..Len(toServer) : toServer'[k] = toServer[k]
        /\ 1..Len(toServer') = 1..Len(toServer) \cup {Len(toServer) + 1}
    BY <1>1, <2>0, AppendOne
  <2>2. Unsaid(i)' /\ RefusedNone(i)' /\ Lives(i)'
    BY DEF Settles, Unsaid, RefusedNone, Lives
  <2>3. CreatedFirst(i)'
    BY <1>1, <2>0, <2>1 DEF Settles, CreatedFirst, Says, Speaks
  <2>4. OnItsWay("ClosePV", i)'
    BY <2>0, <2>1 DEF OnItsWay, Says
  <2> QED
    BY <2>2, <2>3, <2>4 DEF Settles, Gone
<1> QED
  BY <1>2, <1>3

(* ... it is paused or resumed. *)
LEMMA PausingSettles ==
  ASSUME ServerType, NEW i \in Ids, Settles(i), i \in sent, NEW name \in {"PausePV", "ResumePV"},
         i \in internalPVArray => wanted'[i] = S!Outcome(name),
         Sends(name, i), UNCHANGED <<readyState, server, refused, sent, internalPVArray>>
  PROVE  Settles(i)'
<1> DEFINE c == NewCommand(name, i)
<1>1. toServer \in Seq(Command) /\ Len(toServer) \in Nat
  BY DEF ServerType
<1>2. CASE readyState # "open"
  <2>1. toServer' = toServer
    BY <1>2 DEF Sends
  <2> QED
    BY <1>2, <2>1 DEF Settles, Unsaid, CreatedFirst, RefusedNone, Lives, Gone, Says, Speaks
<1>3. CASE readyState = "open"
  <2>0. c \in Command /\ c.name = name /\ c.id = i /\ toServer' = Append(toServer, c)
    BY <1>3 DEF Sends, NewCommand, Command
  <2> HIDE DEF c
  <2>1. /\ Len(toServer') = Len(toServer) + 1 /\ toServer'[Len(toServer) + 1] = c
        /\ \A k \in 1..Len(toServer) : toServer'[k] = toServer[k]
        /\ 1..Len(toServer') = 1..Len(toServer) \cup {Len(toServer) + 1}
    BY <1>1, <2>0, AppendOne
  <2>2. Unsaid(i)' /\ RefusedNone(i)'
    BY DEF Settles, Unsaid, RefusedNone
  <2>3. CreatedFirst(i)'
    BY <1>1, <2>0, <2>1 DEF Settles, CreatedFirst, Says, Speaks
  <2>4. \A other \in {"CreatePV", "ClosePV"} : OnItsWay(other, i)' <=> OnItsWay(other, i)
    BY <2>0, <2>1 DEF OnItsWay, Says
  <2>5. i \in internalPVArray => WillAgree(i)'
    <3>1. PICK n \in Nat : n = Len(toServer) + 1 /\ n \in 1..Len(toServer')
      BY <1>1, <2>1
    <3>2. IsLast(n, i)'
      BY <1>1, <2>0, <2>1, <3>1 DEF IsLast, S!About, S!Names
    <3> QED
      BY <2>0, <2>1, <3>1, <3>2 DEF WillAgree
  <2> QED
    BY <2>2, <2>3, <2>4, <2>5 DEF Settles, Lives, Gone
<1> QED
  BY <1>2, <1>3

(* What the server makes of internal PV i when it takes a command. *)
LEMMA ExecuteEffect ==
  ASSUME ServerType, NEW i \in Ids, Execute
  PROVE  LET c == Head(toServer)
         IN  /\ c \in Command /\ c = toServer[1]
             /\ Len(toServer) \in Nat /\ Len(toServer) > 0 /\ Len(toServer') = Len(toServer) - 1
             /\ \A k \in 1..(Len(toServer) - 1) : toServer'[k] = toServer[k + 1]
             /\ \/ ~S!About(c, i) /\ server'[i] = server[i] /\ (i \in refused' <=> i \in refused)
                \/ c.id = i /\ c.name = "CreatePV" /\ server'[i] = "running" /\ refused' = refused
                \/ c.id = i /\ c.name = "CreatePV" /\ server'[i] = server[i] /\ i \in refused'
                \/ c.id = i /\ c.name = "ClosePV" /\ server'[i] = "none" /\ refused' = refused
                \/ /\ c.id = i /\ c.name \in {"PausePV", "ResumePV"} /\ refused' = refused
                   /\ server'[i] = IF server[i] = "none" THEN "none" ELSE S!Outcome(c.name)
<1> DEFINE c == Head(toServer)
<1>1. /\ toServer' \in Seq(Command) /\ Len(toServer') = Len(toServer) - 1 /\ Len(toServer) > 0
      /\ c \in Command /\ c = toServer[1]
      /\ \A k \in 1..(Len(toServer) - 1) : toServer'[k] = toServer[k + 1]
  <2>1. toServer' = Tail(toServer) /\ toServer # <<>> /\ toServer \in Seq(Command)
    BY DEF Execute, ServerType
  <2> QED
    BY <2>1, TailOne
<1>2. Len(toServer) \in Nat
  BY DEF ServerType
<1>3. /\ c.name \in {"Login", "Logout", "CreatePV", "ClosePV", "PausePV", "ResumePV", "SetPVValue"}
      /\ c.name \notin {"Login", "Logout"} => c.id \in Ids
  BY <1>1, <1>2 DEF Command, ServerType, Addressed
<1>4. \/ c.name \in {"Login", "Logout"} /\ UNCHANGED <<server, refused>>
      \/ c.name \notin {"Login", "Logout"} /\ Obey(c.name, c.id) /\ refused' = refused
      \/ c.name = "CreatePV" /\ server' = server /\ refused' = refused \cup {c.id}
      \/ c.name = "SetPVValue" /\ UNCHANGED <<server, refused>>
  BY <1>3 DEF Execute, Permitted, Authorizations
<1>5. server \in [Ids -> {"none", "running", "paused"}]
  BY DEF ServerType
<1> HIDE DEF c
<1>6. CASE c.name \in {"Login", "Logout"} /\ UNCHANGED <<server, refused>>
  BY <1>1, <1>2, <1>6 DEF c, S!About, S!Names
<1>7. CASE c.name \notin {"Login", "Logout"} /\ Obey(c.name, c.id) /\ refused' = refused
  <2>1. CASE c.name = "CreatePV"
    <3>1. server' = [server EXCEPT ![c.id] = "running"]
      BY <1>7, <2>1 DEF Obey
    <3> QED
      BY <1>1, <1>2, <1>3, <1>5, <1>7, <2>1, <3>1 DEF c, S!About, S!Names
  <2>2. CASE c.name = "ClosePV"
    <3>1. server' = [server EXCEPT ![c.id] = "none"]
      BY <1>7, <2>2 DEF Obey
    <3> QED
      BY <1>1, <1>2, <1>3, <1>5, <1>7, <2>2, <3>1 DEF c, S!About, S!Names
  <2>3. CASE c.name \in {"PausePV", "ResumePV"} /\ server[c.id] = "none"
    <3>1. server' = server
      BY <1>7, <2>3 DEF Obey
    <3> QED
      BY <1>1, <1>2, <1>3, <1>5, <1>7, <2>3, <3>1 DEF c, S!About, S!Names
  <2>4. CASE c.name \in {"PausePV", "ResumePV"} /\ server[c.id] # "none"
    <3>1. server' = [server EXCEPT ![c.id] = S!Outcome(c.name)]
      BY <1>7, <2>4 DEF Obey, S!Outcome
    <3> QED
      BY <1>1, <1>2, <1>3, <1>5, <1>7, <2>4, <3>1 DEF c, S!About, S!Names
  <2>5. CASE c.name = "SetPVValue"
    <3>1. server' = server
      BY <1>7, <2>5 DEF Obey
    <3> QED
      BY <1>1, <1>2, <1>3, <1>5, <1>7, <2>5, <3>1 DEF c, S!About, S!Names
  <2> QED
    BY <1>3, <1>7, <2>1, <2>2, <2>3, <2>4, <2>5
<1>8. CASE c.name = "CreatePV" /\ server' = server /\ refused' = refused \cup {c.id}
  BY <1>1, <1>2, <1>8 DEF c, S!About, S!Names
<1>9. CASE c.name = "SetPVValue" /\ UNCHANGED <<server, refused>>
  BY <1>1, <1>2, <1>9 DEF c, S!About, S!Names
<1> QED
  BY <1>4, <1>6, <1>7, <1>8, <1>9

(* The first command of the log is taken. *)
LEMMA TakenAgrees ==
  ASSUME ServerType, NEW i \in Ids, WillAgree(i), Len(toServer) > 0, Len(toServer') = Len(toServer) - 1,
         \A k \in 1..(Len(toServer) - 1) : toServer'[k] = toServer[k + 1],
         wanted'[i] = wanted[i],
         server'[i] = IF S!About(toServer[1], i) THEN S!Outcome(toServer[1].name) ELSE server[i]
  PROVE  WillAgree(i)'
<1>1. Len(toServer) \in Nat
  BY DEF ServerType
<1>2. \A k \in 1..(Len(toServer) - 1) : k + 1 \in 1..Len(toServer)
  BY <1>1
<1>3. ASSUME NEW k \in 1..Len(toServer), IsLast(k, i), S!Outcome(toServer[k].name) = wanted[i]
      PROVE  WillAgree(i)'
  <2>1. CASE k = 1
    <3>1. \A l \in 1..Len(toServer') : ~S!About(toServer'[l], i)
      BY <1>1, <1>3, <2>1 DEF IsLast
    <3>2. server'[i] = wanted'[i]
      BY <1>3, <2>1 DEF IsLast
    <3> QED
      BY <3>1, <3>2 DEF WillAgree
  <2>2. CASE k # 1
    <3>1. PICK m \in 1..Len(toServer') : m = k - 1 /\ toServer'[m] = toServer[k]
      <4>1. k - 1 \in 1..Len(toServer') /\ (k - 1) + 1 = k
        BY <1>1, <2>2
      <4> QED
        BY <4>1
    <3>2. IsLast(m, i)'
      <4>1. ASSUME NEW l \in 1..Len(toServer'), S!About(toServer'[l], i) PROVE l <= m
        <5>1. l + 1 \in 1..Len(toServer) /\ S!About(toServer[l + 1], i)
          BY <1>1, <4>1
        <5>2. l + 1 <= k
          BY <1>3, <5>1 DEF IsLast
        <5> QED
          BY <1>1, <3>1, <5>2
      <4> QED
        BY <1>3, <3>1, <4>1 DEF IsLast
    <3> QED
      BY <1>3, <3>1, <3>2 DEF WillAgree
  <2> QED
    BY <2>1, <2>2
<1>4. CASE (\A k \in 1..Len(toServer) : ~S!About(toServer[k], i)) /\ server[i] = wanted[i]
  <2>1. \A l \in 1..Len(toServer') : ~S!About(toServer'[l], i)
    BY <1>1, <1>2, <1>4
  <2>2. server'[i] = wanted'[i]
    BY <1>1, <1>4
  <2> QED
    BY <2>1, <2>2 DEF WillAgree
<1> QED
  BY <1>3, <1>4 DEF WillAgree

LEMMA TakingSettles ==
  ASSUME ServerType, NEW i \in Ids, Settles(i), Execute, wanted'[i] = wanted[i],
         UNCHANGED <<readyState, sent, internalPVArray>>
  PROVE  Settles(i)'
<1> DEFINE c == Head(toServer)
<1>1. /\ c \in Command /\ c = toServer[1]
      /\ Len(toServer) \in Nat /\ Len(toServer) > 0 /\ Len(toServer') = Len(toServer) - 1
      /\ \A k \in 1..(Len(toServer) - 1) : toServer'[k] = toServer[k + 1]
  BY ExecuteEffect
<1>2. \/ ~S!About(c, i) /\ server'[i] = server[i] /\ (i \in refused' <=> i \in refused)
      \/ c.id = i /\ c.name = "CreatePV" /\ server'[i] = "running" /\ refused' = refused
      \/ c.id = i /\ c.name = "CreatePV" /\ server'[i] = server[i] /\ i \in refused'
      \/ c.id = i /\ c.name = "ClosePV" /\ server'[i] = "none" /\ refused' = refused
      \/ /\ c.id = i /\ c.name \in {"PausePV", "ResumePV"} /\ refused' = refused
         /\ server'[i] = IF server[i] = "none" THEN "none" ELSE S!Outcome(c.name)
  BY ExecuteEffect
<1> HIDE DEF c
<1>3. /\ 1 \in 1..Len(toServer)
      /\ \A k \in 1..Len(toServer') : k + 1 \in 1..Len(toServer) /\ toServer'[k] = toServer[k + 1] /\ 1 \in 1..((k + 1) - 1)
      /\ \A k \in 1..Len(toServer) : k = 1 \/ (k - 1 \in 1..Len(toServer') /\ toServer'[k - 1] = toServer[k])
  <2>1. \A k \in 1..Len(toServer) : k = 1 \/ (k - 1 \in 1..(Len(toServer) - 1) /\ (k - 1) + 1 = k)
    BY <1>1
  <2> QED
    BY <1>1, <2>1
<1>4. /\ S!About(c, i) => Speaks(1, i)
      /\ c.name = "CreatePV" /\ c.id = i => Says(1, "CreatePV", i)
  BY <1>1 DEF Speaks, Says, S!About, S!Names
<1>5. \A name : OnItsWay(name, i)' => OnItsWay(name, i)
  BY <1>3 DEF OnItsWay, Says
<1>6. OnItsWay("CreatePV", i)' => ~Speaks(1, i) /\ server[i] = "none" /\ i \notin refused
  BY <1>3 DEF Settles, CreatedFirst, OnItsWay, Says
<1>7. c.name = "CreatePV" /\ c.id = i => server[i] = "none" /\ i \notin refused
  BY <1>3, <1>4 DEF Settles, CreatedFirst
<1>8. Unsaid(i)'
  <2> SUFFICES ASSUME i \notin sent PROVE server'[i] = "none" /\ i \notin refused' /\ \A k \in 1..Len(toServer') : ~Speaks(k, i)'
    BY DEF Unsaid
  <2>1. server[i] = "none" /\ i \notin refused /\ \A k \in 1..Len(toServer) : ~Speaks(k, i)
    BY DEF Settles, Unsaid
  <2>2. ~S!About(c, i) /\ ~(c.id = i /\ c.name \in {"CreatePV", "ClosePV", "PausePV", "ResumePV"})
    BY <1>3, <1>4, <2>1 DEF S!About, S!Names
  <2> QED
    BY <1>2, <1>3, <2>1, <2>2 DEF Speaks
<1>9. CreatedFirst(i)'
  <2> SUFFICES ASSUME NEW k \in 1..Len(toServer'), Says(k, "CreatePV", i)'
               PROVE  server'[i] = "none" /\ i \notin refused' /\ \A j \in 1..(k-1) : ~Speaks(j, i)'
    BY DEF CreatedFirst
  <2>1. /\ k + 1 \in 1..Len(toServer) /\ Says(k + 1, "CreatePV", i)
    BY <1>3 DEF Says
  <2>2. server[i] = "none" /\ i \notin refused /\ \A j \in 1..((k + 1) - 1) : ~Speaks(j, i)
    BY <2>1 DEF Settles, CreatedFirst
  <2>3. ~S!About(c, i) /\ ~(c.id = i /\ c.name \in {"CreatePV", "ClosePV", "PausePV", "ResumePV"})
    BY <1>3, <1>4, <2>2 DEF S!About, S!Names
  <2>4. \A j \in 1..(k-1) : j \in 1..Len(toServer') /\ j + 1 \in 1..((k + 1) - 1)
    BY <1>1
  <2> QED
    BY <1>2, <1>3, <2>2, <2>3, <2>4 DEF Speaks
<1>10. RefusedNone(i)'
  BY <1>2, <1>7 DEF Settles, RefusedNone
<1>11. Lives(i)'
  <2> SUFFICES ASSUME readyState = "open", i \in internalPVArray
               PROVE  /\ ~OnItsWay("ClosePV", i)'
                      /\ i \in sent' \ refused' => (server'[i] # "none" \/ OnItsWay("CreatePV", i)') /\ WillAgree(i)'
    BY DEF Lives
  <2>1. ~OnItsWay("ClosePV", i) /\ (i \in sent \ refused => (server[i] # "none" \/ OnItsWay("CreatePV", i)) /\ WillAgree(i))
    BY DEF Settles, Lives
  <2>2. ~(c.name = "ClosePV" /\ c.id = i)
    BY <1>1, <1>3, <2>1 DEF OnItsWay, Says
  <2>3. ASSUME i \in sent' \ refused' PROVE (server'[i] # "none" \/ OnItsWay("CreatePV", i)') /\ WillAgree(i)'
    <3>1. i \in sent \ refused
      BY <1>2, <1>7, <2>2, <2>3
    <3>2. c.id = i /\ c.name \in {"PausePV", "ResumePV"} => server[i] # "none"
      <4>1. ASSUME c.id = i, c.name \in {"PausePV", "ResumePV"}, NEW k \in 1..Len(toServer), Says(k, "CreatePV", i)
            PROVE  FALSE
        <5>1. k # 1 /\ Speaks(1, i)
          BY <1>1, <4>1 DEF Says, Speaks
        <5>2. 1 \in 1..(k-1)
          BY <1>1, <5>1
        <5> QED
          BY <4>1, <5>1, <5>2 DEF Settles, CreatedFirst
      <4> QED
        BY <2>1, <3>1, <4>1 DEF OnItsWay
    <3>3. server'[i] = IF S!About(toServer[1], i) THEN S!Outcome(toServer[1].name) ELSE server[i]
      BY <1>1, <1>2, <2>2, <2>3, <3>2 DEF S!About, S!Names, S!Outcome
    <3>4. WillAgree(i)'
      BY <1>1, <2>1, <3>1, <3>3, TakenAgrees
    <3>5. server'[i] # "none" \/ OnItsWay("CreatePV", i)'
      <4>1. CASE server[i] # "none"
        BY <1>2, <2>2, <2>3, <4>1 DEF S!Outcome
      <4>2. CASE OnItsWay("CreatePV", i)
        <5>1. PICK k \in 1..Len(toServer) : Says(k, "CreatePV", i)
          BY <4>2 DEF OnItsWay
        <5>2. CASE k = 1
          BY <1>1, <1>2, <2>3, <5>1, <5>2 DEF Says, S!About, S!Names
        <5>3. CASE k # 1
          <6>1. PICK m \in 1..Len(toServer') : toServer'[m] = toServer[k]
            BY <1>3, <5>3
          <6> QED
            BY <5>1, <6>1 DEF OnItsWay, Says
        <5> QED
          BY <5>2, <5>3
      <4> QED
        BY <2>1, <3>1, <4>1, <4>2
    <3> QED
      BY <3>4, <3>5
  <2> QED
    BY <1>5, <2>1, <2>3
<1>12. Gone(i)'
  <2> SUFFICES ASSUME readyState = "open", i \in sent \ internalPVArray
               PROVE  (server'[i] = "none" /\ ~OnItsWay("CreatePV", i)') \/ OnItsWay("ClosePV", i)'
    BY DEF Gone
  <2>1. CASE server[i] = "none" /\ ~OnItsWay("CreatePV", i)
    <3>1. ~(c.name = "CreatePV" /\ c.id = i)
      BY <1>3, <1>4, <2>1 DEF OnItsWay
    <3> QED
      BY <1>2, <1>5, <2>1, <3>1
  <2>2. ASSUME NEW k \in 1..Len(toServer), Says(k, "ClosePV", i)
        PROVE  (server'[i] = "none" /\ ~OnItsWay("CreatePV", i)') \/ OnItsWay("ClosePV", i)'
    <3>1. CASE k = 1
      <4>1. c.name = "ClosePV" /\ c.id = i /\ Speaks(1, i)
        BY <1>1, <2>2, <3>1 DEF Says, Speaks
      <4>2. server'[i] = "none"
        BY <1>2, <4>1 DEF S!About, S!Names
      <4> QED
        BY <1>6, <4>1, <4>2
    <3>2. CASE k # 1
      <4>1. PICK m \in 1..Len(toServer') : toServer'[m] = toServer[k]
        BY <1>3, <3>2
      <4> QED
        BY <2>2, <4>1 DEF OnItsWay, Says
    <3> QED
      BY <3>1, <3>2
  <2> QED
    BY <2>1, <2>2 DEF Settles, Gone, OnItsWay
<1> QED
  BY <1>8, <1>9, <1>10, <1>11, <1>12 DEF Settles

(* When the connection ends, its session does too. *)
LEMMA LostSettles ==
  ASSUME NEW i \in Ids, Settles(i), OnClose
  PROVE  Settles(i)'
<1>1. toServer' = <<>> /\ server'[i] = "none" /\ readyState' = "closed" /\ sent' = sent /\ refused' = refused
  BY DEF OnClose, openVars
<1> QED
  BY <1>1 DEF Settles, Unsaid, CreatedFirst, RefusedNone, Lives, Gone

(* What the client wants of an internal PV depends on that one only. *)
LEMMA WantedSame ==
  ASSUME ClientType, NEW i \in Ids, i \in internalPVArray' <=> i \in internalPVArray,
         i \in 1..Len(internals) => internals'[i].isPaused = internals[i].isPaused
  PROVE  wanted'[i] = wanted[i]
BY DEF wanted, ClientType

(* Commands that a call of the page makes. *)
LEMMA PageSettles ==
  ASSUME "early" \notin Habits, Steady, Types, Socket, Registered, ChannelActs, NEW i \in Ids, Settles(i)
  PROVE  Settles(i)'
<1> USE DEF socketVars, openVars, serverVars
<1>t. /\ ClientType /\ ServerType /\ Len(internals) \in Nat /\ internals \in Seq(InternalRecord)
      /\ internalPVArray \subseteq 1..Len(internals)
      /\ NewCommand("Login", 0) \in Command /\ NewCommand("Login", 0).name = "Login"
  BY DEF Types, ClientType, NewCommand, Command
<1>r. \A j \in 1..Len(internals) : internals[j] \in InternalRecord
  BY <1>t
<1>q. ASSUME UNCHANGED <<readyState, toServer, server, refused, sent, internalPVArray>>, wanted'[i] = wanted[i]
      PROVE  Settles(i)'
  BY <1>t, <1>q, OtherSettles
<1>o. ASSUME UNCHANGED <<readyState, server, refused>>, wanted'[i] = wanted[i],
             i \in sent' <=> i \in sent, i \in internalPVArray' <=> i \in internalPVArray,
             NEW name \in {"CreatePV", "ClosePV", "PausePV", "ResumePV"}, NEW j \in Ids \ {i}, Sends(name, j)
      PROVE  Settles(i)'
  <2> DEFINE c == NewCommand(name, j)
  <2>1. c \in Command /\ c.id = j /\ (toServer' = toServer \/ toServer' = Append(toServer, c))
    BY <1>o DEF Sends, NewCommand, Command
  <2> HIDE DEF c
  <2> QED
    BY <1>t, <1>o, <2>1, OtherSettles
<1>1. ASSUME NEW param \in Params, CreatePV(param) PROVE Settles(i)'
  <2>1. Len(pvs) < MaxPVs /\ UNCHANGED <<readyState, server, refused>>
    BY <1>1 DEF CreatePV
  <2>2. CASE Join(param)
    <3>1. sent' = sent /\ internalPVArray' = internalPVArray /\ toServer' = toServer
      BY <2>2 DEF Join
    <3>2. PICK j \in internalPVArray :
             /\ internals'[j] = [internals[j] EXCEPT !.myPVs = @ \cup {Len(pvs) + 1}]
             /\ \A l \in 1..Len(internals) : l # j => internals'[l] = internals[l]
      BY <1>t, <2>1, <2>2, JoinEffect
    <3>3. internals'[j].isPaused = internals[j].isPaused
      BY <1>r, <1>t, <3>2 DEF InternalRecord
    <3>4. wanted'[i] = wanted[i]
      BY <1>t, <3>1, <3>2, <3>3, WantedSame
    <3> QED
      BY <1>q, <2>1, <3>1, <3>4
  <2>3. CASE CreateNew(param)
    <3> DEFINE n == Len(internals) + 1
    <3>0. /\ n \in Ids /\ internalPVArray' = internalPVArray \cup {n}
          /\ internals'[n] = [param |-> param, myPVs |-> {Len(pvs) + 1}, isPaused |-> FALSE, shown |-> 0]
          /\ \A l \in 1..Len(internals) : internals'[l] = internals[l]
      BY <1>t, <2>1, <2>3, CreateNewEffect
    <3>1. /\ n \in Ids /\ internalPVArray' = internalPVArray \cup {n} /\ internals'[n].isPaused = FALSE
          /\ \A l \in 1..Len(internals) : internals'[l] = internals[l]
      BY <3>0
    <3>2. \/ Sends("CreatePV", n) /\ sent' = sent \cup {n}
          \/ toServer' = toServer /\ sent' = sent
      BY <2>3 DEF CreateNew
    <3>3. n \notin sent /\ n \notin 1..Len(internals)
      BY <1>t DEF Registered
    <3> HIDE DEF n
    <3>4. CASE i = n
      <4>1. wanted'[i] = "running" /\ i \in internalPVArray' /\ i \notin sent
        BY <3>1, <3>3, <3>4 DEF wanted
      <4>2. CASE Sends("CreatePV", n) /\ sent' = sent \cup {n}
        BY <1>t, <2>1, <3>4, <4>1, <4>2, CreationSettles
      <4>3. CASE toServer' = toServer /\ sent' = sent
        BY <1>t, <2>1, <4>1, <4>3, OtherSettles
      <4> QED
        BY <3>2, <4>2, <4>3
    <3>5. CASE i # n
      <4>1. wanted'[i] = wanted[i] /\ (i \in internalPVArray' <=> i \in internalPVArray)
        BY <1>t, <3>1, <3>5, WantedSame
      <4>2. CASE Sends("CreatePV", n) /\ sent' = sent \cup {n}
        BY <1>o, <2>1, <3>1, <3>5, <4>1, <4>2
      <4>3. CASE toServer' = toServer /\ sent' = sent
        BY <1>t, <2>1, <4>1, <4>3, OtherSettles
      <4> QED
        BY <3>2, <4>2, <4>3
    <3> QED
      BY <3>4, <3>5
  <2> QED
    BY <1>1, <2>2, <2>3, SteadyUse DEF CreatePV
<1>2. ASSUME NEW p \in 1..Len(pvs), ClosePV(p) PROVE Settles(i)'
  <2> DEFINE j == pvs[p].internal
  <2>1. /\ j \in Ids /\ j \in 1..Len(internals)
        /\ internals'[j] = [internals[j] EXCEPT !.myPVs = @ \ {p}]
        /\ \A l \in 1..Len(internals) : l # j => internals'[l] = internals[l]
    BY <1>t, <1>2, ClosePVEffect
  <2>2. UNCHANGED <<readyState, server, refused, sent>> /\ j \in sent
    BY <1>2, SteadyUse DEF ClosePV
  <2>3. \/ UNCHANGED <<internalPVArray, toServer>>
        \/ Sends("ClosePV", j) /\ internalPVArray' = internalPVArray \ {j}
    BY <1>2 DEF ClosePV, CloseInternalPV
  <2> HIDE DEF j
  <2>4. internals'[j].isPaused = internals[j].isPaused
    BY <1>r, <2>1 DEF InternalRecord
  <2>5. (i \in internalPVArray' <=> i \in internalPVArray) => wanted'[i] = wanted[i]
    BY <1>t, <2>1, <2>4, WantedSame
  <2>6. CASE UNCHANGED <<internalPVArray, toServer>>
    BY <1>q, <2>2, <2>5, <2>6
  <2>7. CASE Sends("ClosePV", j) /\ internalPVArray' = internalPVArray \ {j}
    <3>1. CASE i = j
      BY <1>t, <2>2, <2>7, <3>1, ClosingSettles
    <3>2. CASE i # j
      BY <1>o, <2>1, <2>2, <2>5, <2>7, <3>2
    <3> QED
      BY <3>1, <3>2
  <2> QED
    BY <2>3, <2>6, <2>7
<1>3. ASSUME NEW p \in 1..Len(pvs), NEW paused \in BOOLEAN, SetPaused(p, paused) PROVE Settles(i)'
  <2> DEFINE j    == pvs[p].internal
             all  == AllPaused(j, p, paused)
             name == IF all THEN "PausePV" ELSE "ResumePV"
  <2>1. /\ j \in Ids /\ j \in 1..Len(internals) /\ internalPVArray' = internalPVArray
        /\ \A l \in 1..Len(internals) : l # j => internals'[l] = internals[l]
    BY <1>t, <1>3, SetPausedEffect
  <2>2. UNCHANGED <<readyState, server, refused, sent>> /\ j \in sent
    BY <1>3, SteadyUse DEF SetPaused
  <2>3. \/ UNCHANGED <<internals, toServer>>
        \/ Sends(name, j) /\ internals' = [internals EXCEPT ![j].isPaused = all]
    BY <1>3 DEF SetPaused, PauseInternalPV
  <2>4. all \in BOOLEAN /\ name \in {"PausePV", "ResumePV"}
    BY DEF AllPaused
  <2>5. S!Outcome(name) = IF all THEN "paused" ELSE "running"
    BY DEF S!Outcome
  <2> HIDE DEF j, all, name
  <2>6. CASE UNCHANGED <<internals, toServer>>
    <3>1. wanted'[i] = wanted[i]
      BY <1>t, <2>1, <2>6, WantedSame
    <3> QED
      BY <1>q, <2>1, <2>2, <2>6, <3>1
  <2>7. CASE Sends(name, j) /\ internals' = [internals EXCEPT ![j].isPaused = all]
    <3>1. CASE i = j
      <4>1. internals'[j].isPaused = all
        BY <1>r, <1>t, <2>1, <2>7 DEF InternalRecord
      <4>2. i \in internalPVArray => wanted'[i] = S!Outcome(name)
        BY <2>1, <2>4, <2>5, <3>1, <4>1 DEF wanted
      <4> QED
        BY <1>t, <2>1, <2>2, <2>4, <2>7, <3>1, <4>2, PausingSettles
    <3>2. CASE i # j
      <4>1. wanted'[i] = wanted[i]
        BY <1>t, <2>1, <3>2, WantedSame
      <4> QED
        BY <1>o, <2>1, <2>2, <2>4, <2>7, <3>2, <4>1
    <3> QED
      BY <3>1, <3>2
  <2> QED
    BY <2>3, <2>6, <2>7
<1> QED
  BY <1>1, <1>2, <1>3 DEF ChannelActs

LEMMA SettlesStep ==
  ASSUME "early" \notin Habits, Steady, Types, Socket, Registered, Listeners, Calling, [Next]_vars,
         NEW i \in Ids, Settles(i)
  PROVE  Settles(i)'
<1> USE DEF socketVars, clientVars, openVars, loopVars, serverVars
<1>t. /\ ClientType /\ ServerType /\ internalPVArray \subseteq 1..Len(internals)
      /\ NewCommand("Login", 0) \in Command /\ NewCommand("Login", 0).name = "Login"
  BY DEF Types, ClientType, NewCommand, Command
<1>w. ASSUME UNCHANGED clientVars PROVE wanted'[i] = wanted[i] /\ internalPVArray' = internalPVArray
  BY <1>t, <1>w, WantedSame
<1>s. ASSUME SameChannels PROVE wanted'[i] = wanted[i] /\ internalPVArray' = internalPVArray
  BY <1>t, <1>s, WantedSame DEF SameChannels
<1>1. CASE Quiet
  <2>1. wanted'[i] = wanted[i] /\ internalPVArray' = internalPVArray
    BY <1>1, <1>s DEF Quiet
  <2> QED
    BY <1>t, <1>1, <2>1, OtherSettles DEF Quiet
<1>2. CASE ChannelActs
  BY <1>2, PageSettles
<1>3. ASSUME NEW p \in 1..Len(pvs), SetPVValue(p) PROVE Settles(i)'
  <2> DEFINE c == NewCommand("SetPVValue", pvs[p].internal)
  <2>1. pvs[p].internal \in Ids /\ pvs[p].internal \in sent
    <3>1. pvs[p] \in PVRecord
      BY <1>t DEF ClientType
    <3> QED
      BY <1>3, <3>1, SteadyUse DEF PVRecord, SetPVValue
  <2>2. c \in Command /\ c.name = "SetPVValue" /\ (c.id = i => i \in sent)
    BY <2>1 DEF NewCommand, Command
  <2>3. UNCHANGED <<readyState, server, refused, sent>> /\ UNCHANGED clientVars
        /\ (toServer' = toServer \/ toServer' = Append(toServer, c))
    BY <1>3 DEF SetPVValue, Say, Sends
  <2> HIDE DEF c
  <2> QED
    BY <1>t, <1>w, <2>2, <2>3, OtherSettles
<1>4. ASSUME NEW name \in {"Login", "Logout"}, LogInOrOut(name) PROVE Settles(i)'
  <2> DEFINE c == NewCommand(name, 0)
  <2>1. c \in Command /\ c.name \in {"Login", "Logout"}
    BY DEF NewCommand, Command
  <2>2. UNCHANGED <<readyState, server, refused, sent>> /\ UNCHANGED clientVars
        /\ (toServer' = toServer \/ toServer' = Append(toServer, c))
    BY <1>4 DEF LogInOrOut, Say, Sends
  <2> HIDE DEF c
  <2> QED
    BY <1>t, <1>w, <2>1, <2>2, OtherSettles
<1>5. CASE OnOpen
  <2> DEFINE c == NewCommand("Login", 0)
  <2>1. /\ toServer' = Append(toServer, c) /\ sent = {} /\ UNCHANGED <<server, refused, sent>> /\ UNCHANGED clientVars
    BY <1>5 DEF OnOpen, Socket
  <2> HIDE DEF c
  <2> QED
    BY <1>t, <1>w, <2>1, OtherSettles DEF c
<1>6. CASE OnClose
  BY <1>6, LostSettles
<1>7. ASSUME NEW j \in Ids, Flushes(j) PROVE Settles(i)'
  <2>1. /\ Sends("CreatePV", j) /\ sent' = sent \cup {j} /\ UNCHANGED <<readyState, server, refused>>
        /\ wanted'[i] = wanted[i] /\ internalPVArray' = internalPVArray
    BY <1>7, <1>s DEF Flushes
  <2>2. CASE i = j
    <3>1. j \notin sent
      <4>1. Head(todo) = todo[1] /\ 1 \in 1..Len(todo) /\ Head(todo).key \in Nat
        <5>1. todo \in Seq(Turn) /\ todo # <<>>
          BY <1>7 DEF Types, LoopType, Flushes
        <5>2. Head(todo) = todo[1] /\ Len(todo) \in Nat /\ Len(todo) > 0 /\ Head(todo) \in Turn
          BY <5>1, TailOne
        <5> QED
          BY <5>2, TurnFacts
      <4> QED
        BY <1>7, <4>1 DEF Flushes, Calling
    <3>2. wanted[i] = "running" /\ i \in internalPVArray
      <4>1. j \in 1..Len(internals)
        <5>1. j <= Len(internals) /\ Len(internals) \in Nat
          BY <1>7, <1>t DEF Flushes, Listeners, ClientType
        <5> QED
          BY <5>1 DEF Ids
      <4> QED
        BY <2>2, <3>1, <4>1 DEF Registered, wanted
    <3> QED
      BY <1>t, <2>1, <2>2, <3>1, <3>2, CreationSettles
  <2>3. CASE i # j
    <3> DEFINE c == NewCommand("CreatePV", j)
    <3>1. c \in Command /\ c.id = j /\ (toServer' = toServer \/ toServer' = Append(toServer, c))
      BY <2>1 DEF Sends, NewCommand, Command
    <3> HIDE DEF c
    <3> QED
      BY <1>t, <2>1, <2>3, <3>1, OtherSettles
  <2> QED
    BY <2>2, <2>3
<1>8. CASE Execute
  <2>1. UNCHANGED <<readyState, sent, internalPVArray>> /\ UNCHANGED clientVars
    BY <1>8 DEF Execute
  <2> QED
    BY <1>t, <1>w, <1>8, <2>1, TakingSettles
<1> QED
  BY <1>1, <1>2, <1>3, <1>4, <1>5, <1>6, <1>7, <1>8, StepKinds

(* The invariant of client and server: the session follows a client in use.       *)
ServerInv ==
  /\ Types /\ Socket /\ Listeners
  /\ Steady => Registered /\ Calling /\ \A i \in Ids : Settles(i)

LEMMA ServerInvInit == Init => ServerInv
<1> SUFFICES ASSUME Init PROVE ServerInv
  OBVIOUS
<1>1. /\ Len(internals) = 0 /\ Len(onOpen) = 0 /\ Len(todo) = 0 /\ Len(toServer) = 0
      /\ sent = {} /\ internalPVArray = {} /\ refused = {} /\ \A i \in Ids : server[i] = "none"
      /\ readyState = "connecting"
  BY DEF Init
<1>2. \A i \in Ids : Settles(i)
  BY <1>1 DEF Settles, Unsaid, CreatedFirst, RefusedNone, Lives, Gone
<1>3. Registered /\ Listeners /\ Calling
  BY <1>1 DEF Registered, Listeners, Calling
<1>4. Socket
  BY DEF Init, Socket
<1> QED
  BY <1>2, <1>3, <1>4, TypesInit DEF ServerInv

LEMMA ServerInvStep ==
  ASSUME "early" \notin Habits, ServerInv, [Next]_vars
  PROVE  ServerInv'
<1> USE DEF ServerInv
<1>1. Types' /\ Socket' /\ Listeners'
  BY TypesStep, SocketStep, ListenersStep
<1>2. ASSUME Steady' PROVE Registered' /\ Calling' /\ \A i \in Ids : Settles(i)'
  <2>1. Steady
    BY <1>2, SteadyStays
  <2>2. Registered' /\ Calling'
    BY <2>1, RegisteredStep, CallingStep
  <2>3. \A i \in Ids : Settles(i)'
    BY <2>1, SettlesStep
  <2> QED
    BY <2>2, <2>3
<1> QED
  BY <1>1, <1>2

(* With nothing on its way the PVs of the session are those the client counts on, *)
(* in the state it believes, for any number of PVs, calls and users, whatever the *)
(* page closes in callbacks, uses after closing it or removes while it runs.      *)
THEOREM AgreedHolds == ASSUME "early" \notin Habits PROVE Spec => []Agreed
<1>1. Spec => []ServerInv
  BY ServerInvInit, ServerInvStep, PTL DEF Spec
<1>2. ASSUME ServerInv PROVE Agreed
  <2> SUFFICES ASSUME toServer = <<>>, readyState = "open", NEW i \in Ids \ refused,
                      i \notin internalPVArray \/ i \in sent
               PROVE  server[i] = wanted[i]
    BY DEF Agreed
  <2>1. Settles(i) /\ Len(toServer) = 0
    BY <1>2 DEF ServerInv, Steady, Socket
  <2>2. CASE i \in internalPVArray
    <3>1. WillAgree(i)
      BY <2>1, <2>2 DEF Settles, Lives
    <3> QED
      BY <2>1, <3>1 DEF WillAgree
  <2>3. CASE i \notin internalPVArray
    <3>1. server[i] = "none"
      BY <2>1, <2>3 DEF Settles, Unsaid, Gone, OnItsWay
    <3> QED
      BY <2>3, <3>1 DEF wanted
  <2> QED
    BY <2>2, <2>3
<1> QED
  BY <1>1, <1>2, PTL

-----------------------------------------------------------------------------
(* Commands find their PV, and the client and the server implement            *)
(* Subscriptions, for a page that uses no PV it has closed.                   *)

Uses == {"PausePV", "ResumePV", "SetPVValue"}

(* A command that uses a PV comes after its CreatePV and before its ClosePV.     *)
Guarded(i) ==
  \A k \in 1..Len(toServer) :
    toServer[k].name \in Uses /\ toServer[k].id = i =>
      /\ i \in refused \/ server[i] # "none" \/ \E j \in 1..(k-1) : Says(j, "CreatePV", i)
      /\ \A j \in 1..(k-1) : ~Says(j, "ClosePV", i)

LEMMA SpokenGuarded ==
  ASSUME ServerType, NEW i \in Ids, Guarded(i), NEW c \in Command,
         toServer' = toServer \/ toServer' = Append(toServer, c), server' = server, refused' = refused,
         c.name \in Uses /\ c.id = i /\ readyState = "open" => i \in internalPVArray \cap sent /\ Lives(i),
         toServer' # toServer => readyState = "open" \/ c.name \notin Uses
  PROVE  Guarded(i)'
<1>1. toServer \in Seq(Command) /\ Len(toServer) \in Nat
  BY DEF ServerType
<1>2. CASE toServer' = toServer
  BY <1>2 DEF Guarded, Says
<1>3. CASE toServer' = Append(toServer, c) /\ toServer' # toServer
  <2>1. /\ Len(toServer') = Len(toServer) + 1 /\ toServer'[Len(toServer) + 1] = c
        /\ \A k \in 1..Len(toServer) : toServer'[k] = toServer[k]
        /\ 1..Len(toServer') = 1..Len(toServer) \cup {Len(toServer) + 1}
    BY <1>1, <1>3, AppendOne
  <2> SUFFICES ASSUME NEW k \in 1..Len(toServer'), toServer'[k].name \in Uses, toServer'[k].id = i
               PROVE  /\ i \in refused \/ server[i] # "none" \/ \E j \in 1..(k-1) : Says(j, "CreatePV", i)'
                      /\ \A j \in 1..(k-1) : ~Says(j, "ClosePV", i)'
    BY DEF Guarded
  <2>2. \A j \in 1..(k-1) : j \in 1..Len(toServer) /\ toServer'[j] = toServer[j]
    BY <1>1, <2>1
  <2>3. CASE k \in 1..Len(toServer)
    BY <2>1, <2>2, <2>3 DEF Guarded, Says
  <2>4. CASE k = Len(toServer) + 1
    <3>1. Lives(i) /\ i \in internalPVArray \cap sent /\ readyState = "open"
      BY <1>3, <2>1, <2>4
    <3>2. ~OnItsWay("ClosePV", i) /\ (i \in refused \/ server[i] # "none" \/ OnItsWay("CreatePV", i))
      BY <3>1 DEF Lives
    <3>3. 1..(k-1) = 1..Len(toServer)
      BY <1>1, <2>4
    <3> QED
      BY <2>2, <3>2, <3>3 DEF OnItsWay, Says
  <2> QED
    BY <2>1, <2>3, <2>4
<1> QED
  BY <1>2, <1>3

LEMMA TakenGuarded ==
  ASSUME ServerType, NEW i \in Ids, Guarded(i), Execute
  PROVE  Guarded(i)'
<1> DEFINE c == Head(toServer)
<1>1. /\ c \in Command /\ c = toServer[1]
      /\ Len(toServer) \in Nat /\ Len(toServer) > 0 /\ Len(toServer') = Len(toServer) - 1
      /\ \A k \in 1..(Len(toServer) - 1) : toServer'[k] = toServer[k + 1]
  BY ExecuteEffect
<1>2. \/ ~S!About(c, i) /\ server'[i] = server[i] /\ (i \in refused' <=> i \in refused)
      \/ c.id = i /\ c.name = "CreatePV" /\ server'[i] = "running" /\ refused' = refused
      \/ c.id = i /\ c.name = "CreatePV" /\ server'[i] = server[i] /\ i \in refused'
      \/ c.id = i /\ c.name = "ClosePV" /\ server'[i] = "none" /\ refused' = refused
      \/ /\ c.id = i /\ c.name \in {"PausePV", "ResumePV"} /\ refused' = refused
         /\ server'[i] = IF server[i] = "none" THEN "none" ELSE S!Outcome(c.name)
  BY ExecuteEffect
<1> HIDE DEF c
<1> SUFFICES ASSUME NEW k \in 1..Len(toServer'), toServer'[k].name \in Uses, toServer'[k].id = i
             PROVE  /\ i \in refused' \/ server'[i] # "none" \/ \E j \in 1..(k-1) : Says(j, "CreatePV", i)'
                    /\ \A j \in 1..(k-1) : ~Says(j, "ClosePV", i)'
  BY DEF Guarded
<1>3. /\ k + 1 \in 1..Len(toServer) /\ toServer'[k] = toServer[k + 1] /\ 1 \in 1..((k + 1) - 1)
      /\ \A j \in 1..(k-1) : j + 1 \in 1..((k + 1) - 1) /\ toServer'[j] = toServer[j + 1]
      /\ \A j \in 1..((k + 1) - 1) : j = 1 \/ (j - 1 \in 1..(k-1) /\ toServer'[j - 1] = toServer[j])
  <2>1. /\ k + 1 \in 1..Len(toServer) /\ 1 \in 1..((k + 1) - 1) /\ k \in 1..(Len(toServer) - 1)
        /\ \A j \in 1..(k-1) : j + 1 \in 1..((k + 1) - 1) /\ j \in 1..(Len(toServer) - 1)
        /\ \A j \in 1..((k + 1) - 1) : j = 1 \/ (j - 1 \in 1..(k-1) /\ j - 1 \in 1..(Len(toServer) - 1) /\ (j - 1) + 1 = j)
    BY <1>1
  <2> QED
    BY <1>1, <2>1
<1>4. /\ i \in refused \/ server[i] # "none" \/ \E j \in 1..((k + 1) - 1) : Says(j, "CreatePV", i)
      /\ \A j \in 1..((k + 1) - 1) : ~Says(j, "ClosePV", i)
  BY <1>3 DEF Guarded
<1>5. ~(c.name = "ClosePV" /\ c.id = i)
  BY <1>1, <1>3, <1>4 DEF Says
<1>6. \A j \in 1..(k-1) : ~Says(j, "ClosePV", i)'
  BY <1>3, <1>4 DEF Says
<1>7. CASE i \in refused \/ server[i] # "none"
  BY <1>2, <1>5, <1>6, <1>7 DEF S!Outcome
<1>8. ASSUME NEW j \in 1..((k + 1) - 1), Says(j, "CreatePV", i)
      PROVE  i \in refused' \/ server'[i] # "none" \/ \E l \in 1..(k-1) : Says(l, "CreatePV", i)'
  <2>1. CASE j = 1
    BY <1>1, <1>2, <1>8, <2>1 DEF Says, S!About, S!Names
  <2>2. CASE j # 1
    <3>1. PICK l \in 1..(k-1) : toServer'[l] = toServer[j]
      BY <1>3, <2>2
    <3> QED
      BY <1>8, <3>1 DEF Says
  <2> QED
    BY <2>1, <2>2
<1> QED
  BY <1>4, <1>6, <1>7, <1>8

LEMMA GuardedStep ==
  ASSUME "early" \notin Habits, "stale" \notin Habits, ServerInv, Channels, [Next]_vars,
         NEW i \in Ids, Guarded(i)
  PROVE  Guarded(i)'
<1> USE DEF socketVars, clientVars, openVars, loopVars, serverVars
<1>t. /\ Types /\ Socket /\ ClientType /\ ServerType /\ Lives(i) /\ Steady
      /\ NewCommand("Login", 0) \in Command /\ NewCommand("Login", 0).name = "Login"
  BY DEF ServerInv, Steady, Types, Settles, NewCommand, Command
<1>u. ASSUME NEW p \in 1..Len(pvs), MayUse(p)
      PROVE  pvs[p].internal \in Ids /\ pvs[p].internal \in internalPVArray \cap sent
  <2>1. pvs[p] \in PVRecord
    BY <1>t DEF ClientType
  <2> QED
    BY <1>t, <1>u, <2>1, SteadyUse DEF PVRecord, MayUse, Channels, Numbered
<1>1. ASSUME toServer' = toServer, server' = server, refused' = refused PROVE Guarded(i)'
  BY <1>t, <1>1, SpokenGuarded DEF Uses
<1>2. ASSUME NEW name \in {"Login", "Logout", "CreatePV", "ClosePV", "PausePV", "ResumePV", "SetPVValue"},
             NEW j \in {0} \cup Ids, Sends(name, j), server' = server, refused' = refused,
             name \in Uses => j \in internalPVArray \cap sent
      PROVE  Guarded(i)'
  <2> DEFINE c == NewCommand(name, j)
  <2>1. /\ c \in Command /\ c.name = name /\ c.id = j
        /\ toServer' = toServer \/ toServer' = Append(toServer, c)
        /\ toServer' # toServer => readyState = "open"
    BY <1>2 DEF Sends, NewCommand, Command
  <2> HIDE DEF c
  <2> QED
    BY <1>t, <1>2, <2>1, SpokenGuarded
<1>3. CASE Quiet
  BY <1>1, <1>3 DEF Quiet
<1>4. ASSUME NEW param \in Params, CreatePV(param) PROVE Guarded(i)'
  <2>1. server' = server /\ refused' = refused /\ Len(pvs) < MaxPVs
    BY <1>4 DEF CreatePV
  <2>2. CASE toServer' = toServer
    BY <1>1, <2>1, <2>2
  <2>3. CASE CreateNew(param) /\ Sends("CreatePV", Len(internals) + 1)
    <3>1. Len(internals) + 1 \in Ids
      BY <1>t, <2>1, <2>3, CreateNewEffect
    <3> QED
      BY <1>2, <2>1, <2>3, <3>1 DEF Uses
  <2> QED
    BY <1>4, <1>t, <2>2, <2>3, SteadyUse DEF CreatePV, Join, CreateNew
<1>5. ASSUME NEW p \in 1..Len(pvs), ClosePV(p) PROVE Guarded(i)'
  <2>1. /\ server' = server /\ refused' = refused /\ MayUse(p)
        /\ toServer' = toServer \/ Sends("ClosePV", pvs[p].internal)
    BY <1>5 DEF ClosePV, CloseInternalPV
  <2> QED
    BY <1>1, <1>2, <1>u, <2>1 DEF Uses
<1>6. ASSUME NEW p \in 1..Len(pvs), NEW paused \in BOOLEAN, SetPaused(p, paused) PROVE Guarded(i)'
  <2>1. /\ server' = server /\ refused' = refused /\ MayUse(p)
        /\ toServer' = toServer \/ Sends("PausePV", pvs[p].internal) \/ Sends("ResumePV", pvs[p].internal)
    BY <1>6 DEF SetPaused, PauseInternalPV
  <2> QED
    BY <1>1, <1>2, <1>u, <2>1 DEF Uses
<1>7. ASSUME NEW p \in 1..Len(pvs), SetPVValue(p) PROVE Guarded(i)'
  <2>1. /\ server' = server /\ refused' = refused /\ MayUse(p)
        /\ toServer' = toServer \/ Sends("SetPVValue", pvs[p].internal)
    BY <1>7 DEF SetPVValue, Say
  <2> QED
    BY <1>1, <1>2, <1>u, <2>1 DEF Uses
<1>8. ASSUME NEW name \in {"Login", "Logout"}, LogInOrOut(name) PROVE Guarded(i)'
  <2>1. /\ server' = server /\ refused' = refused
        /\ toServer' = toServer \/ Sends(name, 0)
    BY <1>8 DEF LogInOrOut, Say
  <2> QED
    BY <1>1, <1>2, <2>1 DEF Uses
<1>9. CASE OnOpen
  <2> DEFINE c == NewCommand("Login", 0)
  <2>1. toServer' = Append(toServer, c) /\ server' = server /\ refused' = refused
    BY <1>9 DEF OnOpen
  <2> HIDE DEF c
  <2> QED
    BY <1>t, <2>1, SpokenGuarded DEF c, Uses
<1>10. CASE OnClose
  <2>1. toServer' = <<>>
    BY <1>10 DEF OnClose
  <2> QED
    BY <2>1 DEF Guarded
<1>11. ASSUME NEW j \in Ids, Flushes(j) PROVE Guarded(i)'
  BY <1>2, <1>11 DEF Flushes, Uses
<1>12. CASE Execute
  BY <1>t, <1>12, TakenGuarded
<1> QED
  BY <1>t, <1>3, <1>4, <1>5, <1>6, <1>7, <1>8, <1>9, <1>10, <1>11, <1>12, StepKinds DEF ChannelActs

(* A command meets no PV only if the creation of its PV was refused. *)
LEMMA StrayStep ==
  ASSUME Types, \A i \in Ids : Guarded(i), CommandsFindPV, [Next]_vars
  PROVE  CommandsFindPV'
<1> USE DEF serverVars
<1>1. ASSUME UNCHANGED <<stray, refused>> PROVE CommandsFindPV'
  BY <1>1 DEF CommandsFindPV
<1>2. CASE Quiet
  BY <1>1, <1>2 DEF Quiet
<1>3. ASSUME NEW param \in Params, CreatePV(param) PROVE CommandsFindPV'
  BY <1>1, <1>3 DEF CreatePV
<1>4. ASSUME NEW p \in 1..Len(pvs), ClosePV(p) PROVE CommandsFindPV'
  BY <1>1, <1>4 DEF ClosePV
<1>5. ASSUME NEW p \in 1..Len(pvs), NEW paused \in BOOLEAN, SetPaused(p, paused) PROVE CommandsFindPV'
  BY <1>1, <1>5 DEF SetPaused
<1>6. ASSUME NEW p \in 1..Len(pvs), SetPVValue(p) PROVE CommandsFindPV'
  BY <1>1, <1>6 DEF SetPVValue, Say
<1>7. ASSUME NEW name \in {"Login", "Logout"}, LogInOrOut(name) PROVE CommandsFindPV'
  BY <1>1, <1>7 DEF LogInOrOut, Say
<1>8. CASE OnOpen \/ OnClose
  BY <1>1, <1>8 DEF OnOpen, OnClose
<1>9. ASSUME NEW i \in Ids, Flushes(i) PROVE CommandsFindPV'
  BY <1>1, <1>9 DEF Flushes
<1>10. CASE Execute
  <2> DEFINE c == Head(toServer)
  <2>1. \/ stray' = stray /\ refused \subseteq refused'
        \/ /\ c.name \in Uses /\ server[c.id] = "none"
           /\ stray' = stray \cup {c.id} /\ refused' = refused
    BY <1>10 DEF Execute, Obey, Uses
  <2>2. CASE stray' = stray /\ refused \subseteq refused'
    BY <2>2 DEF CommandsFindPV
  <2>3. CASE /\ c.name \in Uses /\ server[c.id] = "none"
             /\ stray' = stray \cup {c.id} /\ refused' = refused
    <3>1. c = toServer[1] /\ Len(toServer) \in Nat /\ Len(toServer) > 0
      <4>1. toServer \in Seq(Command) /\ toServer # <<>>
        BY <1>10 DEF Types, ServerType, Execute
      <4> QED
        BY <4>1
    <3>2. 1 \in 1..Len(toServer) /\ \A j \in 1..(1-1) : FALSE
      BY <3>1
    <3>3. c.id \in Ids
      BY <2>3, <3>1, <3>2 DEF Uses, Types, ServerType, Addressed
    <3>4. c.id \in refused
      BY <2>3, <3>1, <3>2, <3>3 DEF Guarded
    <3> QED
      BY <2>3, <3>4 DEF CommandsFindPV
  <2> QED
    BY <2>1, <2>2, <2>3
<1> QED
  BY <1>2, <1>3, <1>4, <1>5, <1>6, <1>7, <1>8, <1>9, <1>10, StepKinds DEF ChannelActs

PageInv ==
  /\ ServerInv /\ Channels /\ Awake /\ Steady
  /\ \A i \in Ids : Guarded(i)
  /\ CommandsFindPV

LEMMA PageInvInit == Init => PageInv
<1> SUFFICES ASSUME Init PROVE PageInv
  OBVIOUS
<1>1. Len(toServer) = 0 /\ stray = {} /\ Steady
  BY DEF Init, Steady
<1> QED
  BY <1>1, ServerInvInit, ChannelInit DEF PageInv, ChannelInv, Guarded, CommandsFindPV

LEMMA PageInvStep ==
  ASSUME "early" \notin Habits, "stale" \notin Habits, PageInv, [Next]_vars
  PROVE  PageInv'
<1>1. ServerInv'
  BY ServerInvStep DEF PageInv
<1>2. Channels' /\ Awake'
  BY ChannelStep DEF PageInv, ServerInv, ChannelInv
<1>3. \A i \in Ids : Guarded(i)'
  BY GuardedStep DEF PageInv
<1>4. CommandsFindPV'
  BY StrayStep DEF PageInv, ServerInv
<1> QED
  BY <1>1, <1>2, <1>3, <1>4 DEF PageInv, Steady

(* Every command finds its PV on the server, but for PVs that were refused, on    *)
(* any page that waits for its PVs and leaves closed ones alone.                  *)
THEOREM CommandsFindPVHolds ==
  ASSUME "early" \notin Habits, "stale" \notin Habits
  PROVE  Spec => []CommandsFindPV
<1>1. Spec => []PageInv
  BY PageInvInit, PageInvStep, PTL DEF Spec
<1>2. PageInv => CommandsFindPV
  BY DEF PageInv
<1> QED
  BY <1>1, <1>2, PTL

-----------------------------------------------------------------------------
(* The client and the server implement Subscriptions.                       *)

LEMMA WantedKept ==
  ASSUME \A j \in Ids : wanted'[j] = wanted[j]
  PROVE  wanted' = wanted
BY DEF wanted

LEMMA WantedBecomes ==
  ASSUME NEW i \in Ids, NEW status, wanted'[i] = status, \A j \in Ids : j # i => wanted'[j] = wanted[j]
  PROVE  wanted' = [wanted EXCEPT ![i] = status]
BY DEF wanted

(* createPV() of new parameters is a Want ... *)
LEMMA CreateWants ==
  ASSUME PageInv, NEW param \in Params, CreatePV(param)
  PROVE  [S!Next]_(S!vars)
<1> USE DEF socketVars, clientVars, openVars, loopVars, serverVars
<1>t. /\ SocketType /\ ClientType /\ ServerType /\ Socket /\ Registered /\ Len(internals) \in Nat
      /\ internals \in Seq(InternalRecord) /\ internalPVArray \subseteq 1..Len(internals)
  BY DEF PageInv, ServerInv, Types, ClientType
<1>1. Len(pvs) < MaxPVs /\ UNCHANGED <<readyState, server, refused>> /\ phase' = phase
  BY DEF CreatePV, phase
<1>2. CASE Join(param)
  <2>1. sent' = sent /\ internalPVArray' = internalPVArray /\ toServer' = toServer
    BY <1>2 DEF Join
  <2>2. PICK j \in internalPVArray :
           /\ internals'[j] = [internals[j] EXCEPT !.myPVs = @ \cup {Len(pvs) + 1}]
           /\ \A l \in 1..Len(internals) : l # j => internals'[l] = internals[l]
    BY <1>t, <1>1, <1>2, JoinEffect
  <2>3. internals'[j].isPaused = internals[j].isPaused
    BY <1>t, <2>2 DEF InternalRecord
  <2>4. \A i \in Ids : wanted'[i] = wanted[i]
    BY <1>t, <2>1, <2>2, <2>3, WantedSame
  <2>5. wanted' = wanted
    BY <2>4, WantedKept
  <2> QED
    BY <1>1, <2>1, <2>5 DEF S!vars
<1>3. CASE CreateNew(param)
  <2> DEFINE n == Len(internals) + 1
  <2>1. /\ n \in Ids /\ internalPVArray' = internalPVArray \cup {n}
        /\ internals'[n] = [param |-> param, myPVs |-> {Len(pvs) + 1}, isPaused |-> FALSE, shown |-> 0]
        /\ \A l \in 1..Len(internals) : internals'[l] = internals[l]
    BY <1>t, <1>1, <1>3, CreateNewEffect
  <2>2. internals'[n].isPaused = FALSE
    BY <2>1
  <2>3. \/ isLive /\ Sends("CreatePV", n) /\ sent' = sent \cup {n}
        \/ ~isLive /\ toServer' = toServer /\ sent' = sent
    BY <1>3 DEF CreateNew
  <2>4. n \notin sent /\ n \notin internalPVArray
    BY <1>t DEF Registered
  <2> HIDE DEF n
  <2>5. wanted[n] = "none" /\ wanted'[n] = "running"
    BY <2>1, <2>2, <2>4 DEF wanted
  <2>6. \A j \in Ids : j # n => wanted'[j] = wanted[j]
    BY <1>t, <2>1, WantedSame
  <2>7. wanted' = [wanted EXCEPT ![n] = "running"]
    BY <2>1, <2>5, <2>6, WantedBecomes
  <2>8. S!Fresh(n) /\ n \notin refused
    <3>1. server[n] = "none" /\ n \notin refused /\ \A k \in 1..Len(toServer) : ~Speaks(k, n)
      BY <2>1, <2>4 DEF PageInv, ServerInv, Settles, Unsaid
    <3>2. toServer \in Seq(Command)
      BY <1>t DEF ServerType
    <3>3. \A k \in DOMAIN toServer : ~S!About(toServer[k], n)
      BY <3>1, <3>2 DEF Speaks, S!About, S!Names
    <3> QED
      BY <2>5, <3>1, <3>3 DEF S!Fresh
  <2>9. CASE isLive /\ Sends("CreatePV", n) /\ sent' = sent \cup {n}
    <3>1. phase # "new" /\ S!Log("CreatePV", n)
      BY <1>t, <2>9 DEF SocketType, Socket, phase, Sends, S!Log, NewCommand
    <3>2. internalPVArray' \ sent' = internalPVArray \ sent /\ n \notin internalPVArray \ sent
      BY <2>1, <2>4, <2>9
    <3>3. S!Want(n)
      BY <1>1, <2>7, <2>8, <3>1, <3>2 DEF S!Want
    <3> QED
      BY <2>1, <3>3 DEF S!Next
  <2>10. CASE ~isLive /\ toServer' = toServer /\ sent' = sent
    <3>1. phase # "open"
      BY <1>t, <2>10 DEF Socket, phase
    <3>2. internalPVArray' \ sent' = (internalPVArray \ sent) \cup {n} /\ n \notin internalPVArray \ sent
      BY <2>1, <2>4, <2>10
    <3>3. S!Want(n)
      BY <1>1, <2>7, <2>8, <2>10, <3>1, <3>2 DEF S!Want
    <3> QED
      BY <2>1, <3>3 DEF S!Next
  <2> QED
    BY <2>3, <2>9, <2>10
<1> QED
  BY <1>2, <1>3, SteadyUse DEF CreatePV, PageInv, ServerInv

(* The internal PV that the page uses is one of the client's, and sent. *)
LEMMA Usable ==
  ASSUME "early" \notin Habits, "stale" \notin Habits, PageInv, NEW p \in 1..Len(pvs), MayUse(p)
  PROVE  /\ pvs[p].internal \in Ids /\ pvs[p].internal \in internalPVArray \cap sent
         /\ phase # "new" /\ websocket
<1>1. SocketType /\ ClientType /\ Socket /\ Channels /\ Steady
  BY DEF PageInv, ServerInv, Types
<1>2. pvs[p] \in PVRecord
  BY <1>1 DEF ClientType
<1>3. pvs[p].internal \in Ids /\ pvs[p].internal \in internalPVArray \cap sent /\ websocket
  BY <1>1, <1>2, SteadyUse DEF PVRecord, MayUse, Channels, Numbered
<1> QED
  BY <1>1, <1>3 DEF SocketType, Socket, phase

(* ... closing the last PV of an internal PV, pausing all or resuming one says so ... *)
LEMMA CloseSays ==
  ASSUME "early" \notin Habits, "stale" \notin Habits, PageInv, NEW p \in 1..Len(pvs), ClosePV(p)
  PROVE  [S!Next]_(S!vars)
<1> USE DEF socketVars, clientVars, openVars, loopVars, serverVars
<1> DEFINE j == pvs[p].internal
<1>t. ClientType /\ internals \in Seq(InternalRecord) /\ internalPVArray \subseteq 1..Len(internals)
  BY DEF PageInv, ServerInv, Types, ClientType
<1>1. /\ j \in Ids /\ j \in 1..Len(internals)
      /\ internals'[j] = [internals[j] EXCEPT !.myPVs = @ \ {p}]
      /\ \A l \in 1..Len(internals) : l # j => internals'[l] = internals[l]
  BY <1>t, ClosePVEffect
<1>2. UNCHANGED <<readyState, server, refused, sent>> /\ phase' = phase
  BY DEF ClosePV, phase
<1>3. \/ UNCHANGED <<internalPVArray, toServer>>
      \/ Sends("ClosePV", j) /\ internalPVArray' = internalPVArray \ {j}
  BY DEF ClosePV, CloseInternalPV
<1>4. j \in internalPVArray \cap sent /\ phase # "new"
  BY Usable DEF ClosePV
<1> HIDE DEF j
<1>5. internals'[j].isPaused = internals[j].isPaused
  BY <1>t, <1>1 DEF InternalRecord
<1>6. \A i \in Ids : (i \in internalPVArray' <=> i \in internalPVArray) => wanted'[i] = wanted[i]
  BY <1>t, <1>1, <1>5, WantedSame
<1>7. CASE UNCHANGED <<internalPVArray, toServer>>
  <2>1. wanted' = wanted
    BY <1>6, <1>7, WantedKept
  <2> QED
    BY <1>2, <1>7, <2>1 DEF S!vars
<1>8. CASE Sends("ClosePV", j) /\ internalPVArray' = internalPVArray \ {j}
  <2>1. wanted[j] # "none" /\ wanted'[j] = "none"
    BY <1>1, <1>4, <1>8 DEF wanted
  <2>2. wanted' = [wanted EXCEPT ![j] = "none"]
    BY <1>1, <1>6, <1>8, <2>1, WantedBecomes
  <2>3. internalPVArray' \ sent' = internalPVArray \ sent /\ j \notin internalPVArray \ sent
    BY <1>2, <1>4, <1>8
  <2>4. S!Log("ClosePV", j)
    BY <1>8 DEF Sends, S!Log, NewCommand, phase
  <2>5. S!Outcome("ClosePV") = "none"
    BY DEF S!Outcome
  <2>6. S!Say(j, "ClosePV")
    BY <1>2, <1>4, <2>1, <2>2, <2>3, <2>4, <2>5 DEF S!Say
  <2> QED
    BY <1>1, <2>6 DEF S!Next, S!Names
<1> QED
  BY <1>3, <1>7, <1>8

LEMMA PauseSays ==
  ASSUME "early" \notin Habits, "stale" \notin Habits, PageInv, NEW p \in 1..Len(pvs),
         NEW paused \in BOOLEAN, SetPaused(p, paused)
  PROVE  [S!Next]_(S!vars)
<1> USE DEF socketVars, clientVars, openVars, loopVars, serverVars
<1> DEFINE j    == pvs[p].internal
           all  == AllPaused(j, p, paused)
           name == IF all THEN "PausePV" ELSE "ResumePV"
<1>t. ClientType /\ internals \in Seq(InternalRecord) /\ internalPVArray \subseteq 1..Len(internals)
  BY DEF PageInv, ServerInv, Types, ClientType
<1>1. /\ j \in Ids /\ j \in 1..Len(internals) /\ internalPVArray' = internalPVArray
      /\ \A l \in 1..Len(internals) : l # j => internals'[l] = internals[l]
  BY <1>t, SetPausedEffect
<1>2. UNCHANGED <<readyState, server, refused, sent>> /\ phase' = phase
  BY DEF SetPaused, phase
<1>3. \/ UNCHANGED <<internals, toServer>>
      \/ all # internals[j].isPaused /\ Sends(name, j) /\ internals' = [internals EXCEPT ![j].isPaused = all]
  BY DEF SetPaused, PauseInternalPV
<1>4. j \in internalPVArray \cap sent /\ phase # "new"
  BY Usable DEF SetPaused
<1>5. all \in BOOLEAN /\ name \in {"PausePV", "ResumePV"}
  BY DEF AllPaused
<1>6. S!Outcome(name) = IF all THEN "paused" ELSE "running"
  BY DEF S!Outcome
<1> HIDE DEF j, all, name
<1>7. CASE UNCHANGED <<internals, toServer>>
  <2>1. wanted' = wanted
    BY <1>t, <1>1, <1>7, WantedSame, WantedKept
  <2> QED
    BY <1>1, <1>2, <1>7, <2>1 DEF S!vars
<1>8. CASE all # internals[j].isPaused /\ Sends(name, j) /\ internals' = [internals EXCEPT ![j].isPaused = all]
  <2>0. internals[j] \in InternalRecord
    BY <1>t, <1>1
  <2>1. internals[j] \in InternalRecord /\ internals[j].isPaused \in BOOLEAN
    BY <2>0 DEF InternalRecord
  <2>2. internals'[j].isPaused = all
    BY <1>t, <1>1, <1>8, <2>1 DEF InternalRecord
  <2>3. wanted'[j] = S!Outcome(name) /\ wanted[j] # S!Outcome(name) /\ wanted[j] # "none"
    BY <1>1, <1>4, <1>5, <1>6, <1>8, <2>1, <2>2 DEF wanted
  <2>4. \A i \in Ids : i # j => wanted'[i] = wanted[i]
    BY <1>t, <1>1, WantedSame
  <2>5. wanted' = [wanted EXCEPT ![j] = S!Outcome(name)]
    BY <1>1, <2>3, <2>4, WantedBecomes
  <2>6. S!Log(name, j)
    BY <1>8 DEF Sends, S!Log, NewCommand, phase
  <2>7. S!Say(j, name)
    BY <1>1, <1>2, <1>4, <1>5, <2>3, <2>5, <2>6 DEF S!Say
  <2> QED
    BY <1>1, <1>5, <2>7 DEF S!Next, S!Names
<1> QED
  BY <1>3, <1>7, <1>8

(* ... the other commands go along ... *)
LEMMA SaidMentions ==
  ASSUME NEW name \in {"Login", "Logout", "SetPVValue"}, NEW i \in {0} \cup Ids, Say(name, i)
  PROVE  [S!Next]_(S!vars)
<1> USE DEF socketVars, clientVars, openVars, loopVars, serverVars
<1> DEFINE c == NewCommand(name, i)
<1>1. c \in S!Chat
  BY DEF NewCommand, Command, S!Chat, S!Names
<1>2. UNCHANGED <<phase, wanted, internalPVArray \ sent, server, refused>>
  BY DEF Say, phase, wanted
<1>3. toServer' = toServer \/ (phase = "open" /\ toServer' = Append(toServer, c))
  BY DEF Say, Sends, phase
<1> HIDE DEF c
<1>4. toServer' = toServer => UNCHANGED S!vars
  BY <1>2 DEF S!vars
<1>5. phase = "open" /\ toServer' = Append(toServer, c) => S!Mention
  BY <1>1, <1>2 DEF S!Mention
<1> QED
  BY <1>3, <1>4, <1>5 DEF S!Next

(* ... an on-open callback sends what was left unsent ... *)
LEMMA CallbackFlushes ==
  ASSUME PageInv, NEW j \in Ids, Flushes(j)
  PROVE  [S!Next]_(S!vars)
<1>t. Types /\ ClientType /\ Socket /\ Registered /\ Listeners /\ Calling /\ Len(internals) \in Nat
  BY DEF PageInv, ServerInv, Types, ClientType
<1>1. Head(todo) = todo[1] /\ 1 \in 1..Len(todo) /\ Head(todo).key \in Nat
  <2>1. todo \in Seq(Turn) /\ todo # <<>>
    BY <1>t DEF Types, LoopType, Flushes
  <2>2. Head(todo) = todo[1] /\ Len(todo) \in Nat /\ Len(todo) > 0 /\ Head(todo) \in Turn
    BY <2>1, TailOne
  <2> QED
    BY <2>2, TurnFacts
<1>2. j \notin sent /\ readyState \in {"open", "closing"}
  BY <1>t, <1>1 DEF Flushes, Calling
<1>3. readyState = "open"
  BY <1>t, <1>2 DEF Flushes, Throws, Socket
<1>4. j \in internalPVArray
  <2>1. j <= Len(internals)
    BY <1>t DEF Flushes, Listeners
  <2> QED
    BY <1>t, <1>2, <2>1 DEF Ids, Registered
<1>5. wanted' = wanted
  <2>1. \A i \in Ids : wanted'[i] = wanted[i]
    BY <1>t, WantedSame DEF Flushes, SameChannels
  <2> QED
    BY <2>1, WantedKept
<1>6. phase = "open" /\ phase' = phase /\ S!Log("CreatePV", j)
  BY <1>3 DEF Flushes, phase, Sends, S!Log, NewCommand
<1>7. internalPVArray' \ sent' = (internalPVArray \ sent) \ {j} /\ j \in internalPVArray \ sent
  BY <1>2, <1>4 DEF Flushes, SameChannels
<1>8. S!Flush(j)
  BY <1>5, <1>6, <1>7 DEF S!Flush, Flushes
<1> QED
  BY <1>8 DEF S!Next

(* ... and the session takes the commands, as Subscriptions has it. *)
LEMMA ExecuteTakes ==
  ASSUME PageInv, Execute
  PROVE  [S!Next]_(S!vars)
<1> USE DEF socketVars, clientVars, openVars, loopVars, serverVars
<1> DEFINE c == Head(toServer)
<1>t. ServerType /\ server \in [Ids -> {"none", "running", "paused"}] /\ Len(toServer) \in Nat
  BY DEF PageInv, ServerInv, Types, ServerType
<1>1. toServer # <<>> /\ toServer' = Tail(toServer) /\ c = toServer[1] /\ 1 \in 1..Len(toServer) /\ c \in Command
  <2>1. toServer \in Seq(Command) /\ toServer # <<>> /\ toServer' = Tail(toServer)
    BY <1>t DEF Execute, ServerType
  <2> QED
    BY <2>1, TailOne
<1>2. /\ c.name \in {"Login", "Logout", "CreatePV", "ClosePV", "PausePV", "ResumePV", "SetPVValue"}
      /\ c.name \notin {"Login", "Logout"} => c.id \in Ids
  BY <1>t, <1>1 DEF Command, ServerType, Addressed
<1>3. \/ c.name \in {"Login", "Logout"} /\ UNCHANGED <<server, refused>>
      \/ c.name \notin {"Login", "Logout"} /\ Obey(c.name, c.id) /\ refused' = refused
      \/ c.name = "CreatePV" /\ server' = server /\ refused' = refused \cup {c.id}
      \/ c.name = "SetPVValue" /\ UNCHANGED <<server, refused>>
  BY <1>2 DEF Execute, Permitted, Authorizations
<1>4. UNCHANGED <<phase, wanted, internalPVArray \ sent>>
  BY DEF Execute, phase, wanted
<1>5. /\ c.name = "CreatePV" => c.id \notin refused
      /\ c.name \in Uses => c.id \in refused \/ server[c.id] # "none"
      /\ c.name \notin {"Login", "Logout"} /\ c.id \in refused => server[c.id] = "none"
  <2>1. ASSUME c.name \notin {"Login", "Logout"}
        PROVE  Settles(c.id) /\ Guarded(c.id)
    BY <1>2, <2>1 DEF PageInv, ServerInv
  <2>2. \A k \in 1..(1-1) : FALSE
    OBVIOUS
  <2> QED
    BY <1>1, <2>1, <2>2 DEF Settles, CreatedFirst, RefusedNone, Guarded, Says, Uses
<1> HIDE DEF c
<1> DEFINE Taken == \/ /\ c.name \in S!Names
                       /\ server' = [server EXCEPT ![c.id] = IF c.id \in refused THEN "none" ELSE S!Outcome(c.name)]
                       /\ UNCHANGED refused
                    \/ c.name = "CreatePV" /\ refused' = refused \cup {c.id} /\ UNCHANGED server
                    \/ c.name \notin S!Names /\ UNCHANGED <<server, refused>>
<1>6. Taken
  <2>1. CASE c.name \notin {"Login", "Logout"} /\ Obey(c.name, c.id) /\ refused' = refused
    <3>1. CASE c.name = "CreatePV"
      BY <1>5, <2>1, <3>1 DEF Obey, S!Names, S!Outcome
    <3>2. CASE c.name = "ClosePV"
      BY <2>1, <3>2 DEF Obey, S!Names, S!Outcome
    <3>3. CASE c.name \in {"PausePV", "ResumePV"} /\ server[c.id] = "none"
      <4>1. server' = server /\ c.id \in refused /\ c.id \in Ids
        BY <1>2, <1>5, <2>1, <3>3 DEF Obey, Uses
      <4>2. server = [server EXCEPT ![c.id] = "none"]
        BY <1>t, <3>3, <4>1
      <4> QED
        BY <2>1, <3>3, <4>1, <4>2 DEF S!Names
    <3>4. CASE c.name \in {"PausePV", "ResumePV"} /\ server[c.id] # "none"
      <4>1. c.id \notin refused /\ server' = [server EXCEPT ![c.id] = S!Outcome(c.name)]
        BY <1>5, <2>1, <3>4 DEF Obey, S!Outcome
      <4> QED
        BY <2>1, <3>4, <4>1 DEF S!Names
    <3>5. CASE c.name = "SetPVValue"
      BY <2>1, <3>5 DEF Obey, S!Names
    <3> QED
      BY <1>2, <2>1, <3>1, <3>2, <3>3, <3>4, <3>5
  <2>2. CASE c.name \in {"Login", "Logout", "SetPVValue"} /\ UNCHANGED <<server, refused>>
    BY <2>2 DEF S!Names
  <2>3. CASE c.name = "CreatePV" /\ server' = server /\ refused' = refused \cup {c.id}
    BY <2>3
  <2> QED
    BY <1>3, <2>1, <2>2, <2>3
<1>7. S!Take
  BY <1>1, <1>4, <1>6 DEF S!Take, c
<1> QED
  BY <1>7 DEF S!Next

LEMMA StepImplements ==
  ASSUME "early" \notin Habits, "stale" \notin Habits, PageInv, [Next]_vars
  PROVE  [S!Next]_(S!vars)
<1> USE DEF socketVars, clientVars, openVars, loopVars, serverVars
<1>t. Types /\ ClientType
  BY DEF PageInv, ServerInv, Types
<1>1. CASE Quiet
  <2>1. \A i \in Ids : wanted'[i] = wanted[i]
    BY <1>t, <1>1, WantedSame DEF Quiet, SameChannels
  <2>2. wanted' = wanted /\ internalPVArray' \ sent' = internalPVArray \ sent
        /\ UNCHANGED <<toServer, server, refused>>
    BY <1>1, <2>1, WantedKept DEF Quiet, SameChannels
  <2>3. phase' = phase \/ (phase # "closed" /\ phase' = "closing")
    BY <1>1 DEF Quiet, phase
  <2>4. phase' = phase => UNCHANGED S!vars
    BY <2>2 DEF S!vars
  <2>5. phase # "closed" /\ phase' = "closing" => S!Close
    BY <2>2 DEF S!Close
  <2> QED
    BY <2>3, <2>4, <2>5 DEF S!Next
<1>2. CASE ChannelActs
  BY <1>2, CreateWants, CloseSays, PauseSays DEF ChannelActs
<1>3. ASSUME NEW p \in 1..Len(pvs), SetPVValue(p) PROVE [S!Next]_(S!vars)
  BY <1>3, Usable, SaidMentions DEF SetPVValue
<1>4. ASSUME NEW name \in {"Login", "Logout"}, LogInOrOut(name) PROVE [S!Next]_(S!vars)
  BY <1>4, SaidMentions DEF LogInOrOut
<1>5. CASE OnOpen
  <2>1. NewCommand("Login", 0) \in S!Chat
    BY DEF NewCommand, Command, S!Chat, S!Names
  <2>2. /\ UNCHANGED <<wanted, internalPVArray \ sent, server, refused>>
        /\ phase = "new" /\ phase' = "open" /\ toServer' = Append(toServer, NewCommand("Login", 0))
    BY <1>5 DEF OnOpen, phase, wanted
  <2>3. S!Open
    BY <2>1, <2>2 DEF S!Open
  <2> QED
    BY <2>3 DEF S!Next
<1>6. CASE OnClose
  <2>1. /\ UNCHANGED <<wanted, internalPVArray \ sent, refused>> /\ phase' = "closed"
        /\ toServer' = <<>> /\ server' = [i \in Ids |-> "none"]
    BY <1>6 DEF OnClose, phase, wanted
  <2>2. S!Lost
    BY <2>1 DEF S!Lost
  <2> QED
    BY <2>2 DEF S!Next
<1>7. ASSUME NEW i \in Ids, Flushes(i) PROVE [S!Next]_(S!vars)
  BY <1>7, CallbackFlushes
<1>8. CASE Execute
  BY <1>8, ExecuteTakes
<1> QED
  BY <1>t, <1>1, <1>2, <1>3, <1>4, <1>5, <1>6, <1>7, <1>8, StepKinds

LEMMA InitImplements == Init => S!Init
BY DEF Init, S!Init, phase, wanted

(* closePV(), pausePV(), the on-open listeners and the commands implement           *)
(* Subscriptions, for any page that waits for its PVs and leaves closed ones alone: *)
(* each step of client and server is a step of the promise, or none of its concern. *)
THEOREM Implements ==
  ASSUME "early" \notin Habits, "stale" \notin Habits
  PROVE  Spec => ImplementsSubscriptions
<1>1. Init => PageInv
  BY PageInvInit
<1>2. PageInv /\ [Next]_vars => PageInv'
  BY PageInvStep
<1>3. PageInv /\ [Next]_vars => [S!Next]_(S!vars)
  BY StepImplements
<1>4. Init => S!Init
  BY InitImplements
<1> QED
  BY <1>1, <1>2, <1>3, <1>4, PTL DEF Spec, ImplementsSubscriptions, S!Spec

-----------------------------------------------------------------------------
(* Who is told: a PV that has not been told what its internal PV shows has a     *)
(* turn to come in the running loop.                                             *)

Reaches(item, i, k) ==
  \/ item.kind = "internals"
  \/ item.kind = "internal" /\ item.id = i
  \/ item.kind = "slot" /\ item.id = i /\ item.key = k

Rank(p)  == Cardinality(Below(internals[pvs[p].internal].myPVs, p)) + 1
Due(p)   == \E m \in 1..Len(todo) : Reaches(todo[m], pvs[p].internal, Rank(p))
Heard(p) == ~pvs[p].paused => told[p] = internals[pvs[p].internal].shown \/ Due(p)

(* A PV that is yet to come has been told nothing, and fireOnClose() ends with   *)
(* the internal PVs.                                                             *)
Untold == \A p \in Ids : p > Len(pvs) => told[p] = 0
Ending ==
  \A m \in 1..Len(todo) :
    todo[m].kind = "pv" => \E l \in (m + 1)..Len(todo) : todo[l].kind = "internals"

Telling == (\A p \in pvArray : Heard(p)) /\ Untold /\ Ending

LEMMA SameRank ==
  ASSUME NEW p, pvs'[p].internal = pvs[p].internal,
         internals'[pvs[p].internal].myPVs = internals[pvs[p].internal].myPVs
  PROVE  Rank(p)' = Rank(p)
BY DEF Rank

(* A PV that nothing happens to stays heard, if its turn stays. *)
LEMMA HeardKept ==
  ASSUME NEW p, Heard(p), pvs'[p].internal = pvs[p].internal, pvs[p].paused => pvs'[p].paused,
         internals'[pvs[p].internal].shown = internals[pvs[p].internal].shown,
         Rank(p)' = Rank(p), told'[p] = told[p],
         \/ todo' = todo
         \/ told[p] = internals[pvs[p].internal].shown
         \/ Due(p) => \E m \in 1..Len(todo') : Reaches(todo'[m], pvs[p].internal, Rank(p))
  PROVE  Heard(p)'
<1>1. Due(p)' <=> \E m \in 1..Len(todo') : Reaches(todo'[m], pvs[p].internal, Rank(p))
  BY DEF Due
<1>2. Due(p) <=> \E m \in 1..Len(todo) : Reaches(todo[m], pvs[p].internal, Rank(p))
  BY DEF Due
<1>3. told'[p] = internals'[pvs'[p].internal].shown \/ Due(p)' => Heard(p)'
  BY DEF Heard
<1>4. pvs[p].paused => Heard(p)'
  BY DEF Heard
<1>5. ~pvs[p].paused => told[p] = internals[pvs[p].internal].shown \/ Due(p)
  BY DEF Heard
<1>6. Due(p) => told[p] = internals[pvs[p].internal].shown \/ Due(p)'
  BY <1>1, <1>2
<1> QED
  BY <1>3, <1>4, <1>5, <1>6

(* The turns of a loop that goes on: those put first, and those left. *)
LEMMA GoesOn ==
  ASSUME NEW K, NEW s \in Seq(K), s # <<>>, NEW items \in Seq(K)
  PROVE  LET t == items \o Tail(s)
         IN  /\ Len(t) = Len(items) + Len(s) - 1 /\ Len(items) \in Nat /\ Len(s) \in Nat /\ Len(s) > 0
             /\ \A m \in 1..Len(items) : m \in 1..Len(t) /\ t[m] = items[m]
             /\ \A m \in 2..Len(s) : Len(items) + m - 1 \in 1..Len(t) /\ t[Len(items) + m - 1] = s[m]
<1>1. /\ Tail(s) \in Seq(K) /\ Len(Tail(s)) = Len(s) - 1 /\ Len(s) > 0 /\ Len(s) \in Nat /\ Len(items) \in Nat
      /\ \A k \in 1..(Len(s) - 1) : Tail(s)[k] = s[k + 1]
  BY TailOne
<1> DEFINE r == Tail(s)
           t == items \o r
<1> HIDE DEF r
<1>2. /\ Len(t) = Len(items) + Len(r)
      /\ \A m \in 1..Len(items) : t[m] = items[m]
      /\ \A m \in 1..Len(r) : t[Len(items) + m] = r[m]
  BY <1>1 DEF r
<1> HIDE DEF t
<1>3. Len(t) = Len(items) + Len(s) - 1 /\ \A m \in 1..Len(items) : m \in 1..Len(t) /\ t[m] = items[m]
  BY <1>1, <1>2 DEF r
<1>4. ASSUME NEW m \in 2..Len(s)
      PROVE  Len(items) + m - 1 \in 1..Len(t) /\ t[Len(items) + m - 1] = s[m]
  <2>1. m - 1 \in 1..(Len(s) - 1) /\ (m - 1) + 1 = m /\ Len(items) + (m - 1) = Len(items) + m - 1
    BY <1>1, <1>4
  <2>2. t[Len(items) + (m - 1)] = r[m - 1] /\ r[m - 1] = s[m]
    BY <1>1, <1>2, <2>1 DEF r
  <2> QED
    BY <1>1, <1>3, <2>1, <2>2
<1> QED
  BY <1>1, <1>3, <1>4 DEF t, r

(* ... keep the turns of PVs that the turn taken was not for. *)
LEMMA TurnKept ==
  ASSUME Types, todo # <<>>, NEW items \in Seq(Turn), Goes(items), NEW p, Due(p),
         ~Reaches(Head(todo), pvs[p].internal, Rank(p))
  PROVE  \E m \in 1..Len(todo') : Reaches(todo'[m], pvs[p].internal, Rank(p))
<1>1. todo \in Seq(Turn) /\ todo' = items \o Tail(todo) /\ Head(todo) = todo[1]
  BY TailOne DEF Types, LoopType, Goes
<1>2. PICK m \in 1..Len(todo) : Reaches(todo[m], pvs[p].internal, Rank(p))
  BY DEF Due
<1>3. m \in 2..Len(todo) /\ Len(todo) \in Nat
  BY <1>1, <1>2
<1>4. Len(items) + m - 1 \in 1..Len(todo') /\ todo'[Len(items) + m - 1] = todo[m]
  BY <1>1, <1>3, GoesOn
<1> QED
  BY <1>2, <1>4

(* ... and the order of the loops. *)
LEMMA EndingKept ==
  ASSUME Types, todo # <<>>, NEW items \in Seq(Turn), Goes(items), Ending,
         \A m \in 1..Len(items) : items[m].kind # "pv"
  PROVE  Ending'
<1>1. todo \in Seq(Turn) /\ todo' = items \o Tail(todo)
  BY DEF Types, LoopType, Goes
<1>2. /\ Len(todo') = Len(items) + Len(todo) - 1 /\ Len(items) \in Nat /\ Len(todo) \in Nat /\ Len(todo) > 0
      /\ \A m \in 1..Len(items) : m \in 1..Len(todo') /\ todo'[m] = items[m]
      /\ \A m \in 2..Len(todo) : Len(items) + m - 1 \in 1..Len(todo') /\ todo'[Len(items) + m - 1] = todo[m]
  BY <1>1, GoesOn
<1> SUFFICES ASSUME NEW m \in 1..Len(todo'), todo'[m].kind = "pv"
             PROVE  \E l \in (m + 1)..Len(todo') : todo'[l].kind = "internals"
  BY DEF Ending
<1>3. m \notin 1..Len(items)
  BY <1>2
<1>4. PICK n \in 2..Len(todo) : m = Len(items) + n - 1
  <2>1. m - Len(items) + 1 \in 2..Len(todo) /\ m = Len(items) + (m - Len(items) + 1) - 1
    BY <1>2, <1>3
  <2> QED
    BY <2>1
<1>5. todo[n].kind = "pv"
  BY <1>2, <1>4
<1>6. n \in 1..Len(todo)
  BY <1>2, <1>4
<1>7. PICK l \in (n + 1)..Len(todo) : todo[l].kind = "internals"
  BY <1>5, <1>6 DEF Ending
<1>8. l \in 2..Len(todo) /\ Len(items) + l - 1 \in (m + 1)..Len(todo')
  BY <1>2, <1>4, <1>6, <1>7
<1>9. todo'[Len(items) + l - 1].kind = "internals"
  BY <1>2, <1>7, <1>8
<1> QED
  BY <1>8, <1>9

(* A PV has a turn in the loop over its internal PV, and that one in the loop     *)
(* over all.                                                                      *)
LEMMA SlotReaches ==
  ASSUME "stale" \notin Habits, Types, Channels, NEW p \in pvArray
  PROVE  LET i == pvs[p].internal
         IN  /\ i \in internalPVArray /\ i \in 1..Len(internals) /\ p \in internals[i].myPVs /\ p \in Ids
             /\ Rank(p) \in 1..Cardinality(internals[i].myPVs)
             /\ Nth(internals[i].myPVs, Rank(p)) = p
             /\ \E m \in 1..Len(Slots(i)) : Reaches(Slots(i)[m], i, Rank(p))
<1> DEFINE i == pvs[p].internal
           ids == internals[i].myPVs
<1>1. ClientType
  BY DEF Types
<1>2. i \in internalPVArray /\ i \in 1..Len(internals) /\ p \in ids
  BY <1>1 DEF Channels, Numbered, ClientType
<1>3. /\ ids \subseteq Ids /\ Slots(i) \in Seq(Turn) /\ Len(Slots(i)) = Cardinality(ids)
      /\ Cardinality(ids) \in Nat /\ IsFiniteSet(ids)
  BY <1>1, <1>2, SlotsType, ItemsType
<1>4. ids \subseteq Nat /\ MaxPVs + 1 \in Nat /\ \A x \in ids : x < MaxPVs + 1
  BY <1>3, ParamsAssumption DEF Ids
<1>5. Rank(p) \in 1..Cardinality(ids) /\ Nth(ids, Rank(p)) = p
  <2> HIDE DEF ids
  <2>1. Rank(p) = Cardinality(Below(ids, p)) + 1
    BY DEF Rank, ids
  <2> QED
    BY <1>2, <1>3, <1>4, <2>1, NthCovers
<1>6. Slots(i)[Rank(p)] = NewItem("slot", i, Rank(p))
  BY <1>5 DEF Slots
<1>7. Reaches(Slots(i)[Rank(p)], i, Rank(p)) /\ Rank(p) \in 1..Len(Slots(i))
  BY <1>3, <1>5, <1>6 DEF Reaches, NewItem
<1> QED
  BY <1>2, <1>3, <1>5, <1>7

LEMMA InternalReaches ==
  ASSUME Types, NEW i \in internalPVArray, NEW k
  PROVE  \E m \in 1..Len(Items("internal", internalPVArray)) : Reaches(Items("internal", internalPVArray)[m], i, k)
<1>1. internalPVArray \subseteq Ids
  <2>1. Len(pvs) \in Nat /\ Len(internals) \in Nat /\ Len(pvs) <= MaxPVs /\ Len(internals) <= MaxPVs
    BY DEF Types, ClientType
  <2> QED
    BY <2>1, ParamsAssumption DEF Types, ClientType, Ids
<1>2. IsFiniteSet(internalPVArray) /\ Len(Items("internal", internalPVArray)) = Cardinality(internalPVArray)
  BY <1>1, ItemsType
<1>3. internalPVArray \subseteq Nat /\ MaxPVs + 1 \in Nat /\ \A x \in internalPVArray : x < MaxPVs + 1
  BY <1>1, ParamsAssumption DEF Ids
<1>4. PICK m \in 1..Cardinality(internalPVArray) : Nth(internalPVArray, m) = i
  BY <1>2, <1>3, NthCovers
<1>5. Items("internal", internalPVArray)[m] = NewItem("internal", i, 0)
  BY <1>4 DEF Items
<1> QED
  BY <1>2, <1>4, <1>5 DEF Reaches, NewItem

(* A turn of the running loop. *)
LEMMA StepTells ==
  ASSUME "stale" \notin Habits, Types, Channels, Calling, Telling, Step
  PROVE  Telling'
<1> USE DEF Telling
<1> DEFINE item == Head(todo)
<1>t. ClientType /\ LoopType /\ Len(pvs) \in Nat /\ internals \in Seq(InternalRecord)
  BY DEF Types, ClientType
<1>1. /\ todo # <<>> /\ item = todo[1] /\ item \in Turn /\ Len(todo) \in Nat /\ 1 \in 1..Len(todo)
      /\ Tail(todo) = <<>> \o Tail(todo) /\ <<>> \in Seq(Turn) /\ Len(<<>>) = 0
  <2>1. todo # <<>> /\ todo \in Seq(Turn)
    BY <1>t DEF Step, LoopType
  <2>2. Tail(todo) \in Seq(Turn)
    BY <2>1, TailOne
  <2> QED
    BY <2>1, <2>2, TailOne
<1>2. UNCHANGED <<pvs, pvArray, internalPVArray>>
  BY DEF Step
<1>3. CallPage \/ Skip => Goes(<<>>)
  BY DEF CallPage, Skip
<1>4. ASSUME NEW p, Heard(p), internals'[pvs[p].internal].shown = internals[pvs[p].internal].shown,
             internals'[pvs[p].internal].myPVs = internals[pvs[p].internal].myPVs, told'[p] = told[p],
             NEW items \in Seq(Turn), Goes(items), ~Reaches(item, pvs[p].internal, Rank(p))
      PROVE  Heard(p)'
  <2>1. Due(p) => \E m \in 1..Len(todo') : Reaches(todo'[m], pvs[p].internal, Rank(p))
    BY <1>1, <1>4, TurnKept
  <2>2. Rank(p)' = Rank(p)
    BY <1>2, <1>4, SameRank
  <2> QED
    BY <1>2, <1>4, <2>1, <2>2, HeardKept
<1>5. ASSUME NEW p, \E m \in 1..Len(todo') : Reaches(todo'[m], pvs[p].internal, Rank(p)), Rank(p)' = Rank(p)
      PROVE  Heard(p)'
  <2>1. Due(p)'
    BY <1>2, <1>5 DEF Due
  <2> QED
    BY <2>1 DEF Heard
<1>6. ASSUME Goes(<<>>) PROVE Ending'
  <2>1. \A m \in 1..Len(<<>>) : FALSE
    BY <1>1
  <2> QED
    BY <1>1, <1>6, <2>1, EndingKept
<1>7. CASE item.kind = "open" /\ CallOnOpen(item.key)
  <2>1. told' = told /\ internals' = internals
    BY <1>7 DEF CallOnOpen
  <2>2. CASE Goes(<<>>)
    <3>1. \A p \in pvArray : ~Reaches(item, pvs[p].internal, Rank(p))
      BY <1>7 DEF Reaches
    <3>2. \A p \in pvArray : Heard(p)'
      BY <1>1, <1>4, <2>1, <2>2, <3>1
    <3> QED
      BY <1>2, <1>6, <2>1, <2>2, <3>2 DEF Untold
  <2>3. CASE todo' = <<>>
    <3>1. \A m \in 1..Len(todo) : todo[m].kind = "open"
      BY <1>1, <1>7 DEF Calling
    <3>2. \A p \in pvArray : ~Due(p)
      BY <3>1 DEF Due, Reaches
    <3>3. \A p \in pvArray : Heard(p)'
      <4>1. ASSUME NEW p \in pvArray PROVE Heard(p)'
        <5>1. Rank(p)' = Rank(p)
          BY <1>2, <2>1, SameRank
        <5> QED
          BY <1>2, <2>1, <3>2, <5>1, HeardKept
      <4> QED
        BY <4>1
    <3> QED
      BY <1>2, <2>1, <2>3, <3>3 DEF Untold, Ending
  <2> QED
    BY <1>3, <1>7, <2>2, <2>3 DEF CallOnOpen
<1>8. CASE item.kind = "pv" /\ FirePV(item.id)
  <2>1. internals' = internals /\ Goes(<<>>)
    BY <1>3, <1>8 DEF FirePV, Tell
  <2>2. Untold'
    <3>1. told' = told \/ (item.id \in pvArray /\ told' = [told EXCEPT ![item.id] = 0])
      BY <1>8 DEF FirePV, Tell
    <3>2. told \in [Ids -> Nat]
      BY <1>t DEF ClientType
    <3> QED
      BY <1>2, <3>1, <3>2 DEF Untold
  <2>3. \E m \in 1..Len(todo') : todo'[m].kind = "internals"
    <3>1. PICK l \in (1 + 1)..Len(todo) : todo[l].kind = "internals"
      BY <1>1, <1>8 DEF Ending
    <3>2. todo \in Seq(Turn) /\ todo' = <<>> \o Tail(todo)
      BY <1>t, <2>1 DEF LoopType, Goes
    <3>3. l \in 2..Len(todo)
      BY <3>1
    <3>4. Len(<<>>) + l - 1 \in 1..Len(todo') /\ todo'[Len(<<>>) + l - 1] = todo[l]
      BY <1>1, <3>2, <3>3, GoesOn
    <3> QED
      BY <3>1, <3>4
  <2>4. ASSUME NEW p \in pvArray PROVE Heard(p)'
    <3>1. \E m \in 1..Len(todo') : Reaches(todo'[m], pvs[p].internal, Rank(p))
      BY <2>3 DEF Reaches
    <3>2. Rank(p)' = Rank(p)
      BY <1>2, <2>1, SameRank
    <3> QED
      BY <1>5, <3>1, <3>2
  <2> QED
    BY <1>2, <1>6, <2>1, <2>2, <2>4
<1>9. CASE item.kind = "internals" /\ FireInternalPVs
  <2> DEFINE items == Items("internal", internalPVArray)
  <2>1. internals' = internals /\ told' = told /\ Goes(items) /\ todo' = items \o Tail(todo)
    BY <1>9 DEF FireInternalPVs, Goes
  <2>2. items \in Seq(Turn) /\ \A m \in 1..Len(items) : items[m].kind = "internal"
    <3>1. internalPVArray \subseteq Ids
      <4>1. Len(internals) \in Nat /\ Len(internals) <= MaxPVs
        BY <1>t DEF ClientType
      <4> QED
        BY <1>t, <4>1, ParamsAssumption DEF ClientType, Ids
    <3>2. items \in Seq(Turn) /\ Len(items) = Cardinality(internalPVArray)
      BY <3>1, ItemsType
    <3>3. \A m \in 1..Cardinality(internalPVArray) : items[m] = NewItem("internal", Nth(internalPVArray, m), 0)
      BY DEF Items
    <3>4. \A k, x, y : NewItem(k, x, y).kind = k
      BY DEF NewItem
    <3> HIDE DEF items
    <3> QED
      BY <3>2, <3>3, <3>4
  <2>3. ASSUME NEW p \in pvArray PROVE Heard(p)'
    <3>1. PICK m \in 1..Len(items) : Reaches(items[m], pvs[p].internal, Rank(p))
      <4>1. pvs[p].internal \in internalPVArray
        BY DEF Channels, Numbered
      <4> QED
        BY <4>1, InternalReaches
    <3>2. m \in 1..Len(todo') /\ todo'[m] = items[m]
      <4> HIDE DEF items
      <4>1. todo \in Seq(Turn)
        BY <1>t DEF LoopType
      <4> QED
        BY <1>1, <2>1, <2>2, <4>1, GoesOn
    <3>3. Rank(p)' = Rank(p)
      BY <1>2, <2>1, SameRank
    <3> QED
      BY <1>5, <3>1, <3>2, <3>3
  <2>4. Ending'
    <3> HIDE DEF items
    <3>1. \A m \in 1..Len(items) : items[m].kind # "pv"
      BY <2>2
    <3> QED
      BY <1>1, <2>1, <2>2, <3>1, EndingKept
  <2> QED
    BY <1>2, <2>1, <2>3, <2>4 DEF Untold
<1>10. CASE item.kind = "internal" /\ FireInternalPV(item.id)
  <2> DEFINE i == item.id
  <2>0. Slot(i) = {i} \cap internalPVArray
    BY <1>t, SlotIs DEF Channels
  <2>1. told' = told
    BY <1>10 DEF FireInternalPV
  <2>2. CASE i \in internalPVArray
    <3>1. internals' = [internals EXCEPT ![i].shown = 0] /\ Goes(Slots(i)) /\ todo' = Slots(i) \o Tail(todo)
      BY <1>10, <2>0, <2>2 DEF FireInternalPV, Goes
    <3>2. i \in 1..Len(internals)
      BY <1>t, <2>2 DEF ClientType
    <3>3. Slots(i) \in Seq(Turn) /\ \A m \in 1..Len(Slots(i)) : Slots(i)[m].kind = "slot"
      <4>1. Slots(i) \in Seq(Turn) /\ Len(Slots(i)) = Cardinality(internals[i].myPVs)
        BY <1>t, <3>2, SlotsType
      <4>2. \A m \in 1..Cardinality(internals[i].myPVs) : Slots(i)[m] = NewItem("slot", i, m)
        BY DEF Slots
      <4>3. \A k, x, y : NewItem(k, x, y).kind = k
        BY DEF NewItem
      <4> QED
        BY <4>1, <4>2, <4>3
    <3>4. /\ internals'[i] = [internals[i] EXCEPT !.shown = 0]
          /\ \A j \in 1..Len(internals) : j # i => internals'[j] = internals[j]
      <4> HIDE DEF i
      <4> QED
        BY <1>t, <3>1, <3>2, ShownEffect
    <3>5. internals'[i].myPVs = internals[i].myPVs
      <4>1. internals[i] \in InternalRecord
        BY <1>t, <3>2
      <4> QED
        BY <3>4, <4>1 DEF InternalRecord
    <3>6. ASSUME NEW p \in pvArray PROVE Heard(p)'
      <4>1. pvs[p].internal \in 1..Len(internals)
        BY SlotReaches
      <4>2. internals'[pvs[p].internal].myPVs = internals[pvs[p].internal].myPVs
        BY <3>4, <3>5, <4>1
      <4>3. CASE pvs[p].internal = i
        <5>1. PICK m \in 1..Len(Slots(i)) : Reaches(Slots(i)[m], i, Rank(p))
          BY <4>3, SlotReaches
        <5>2. m \in 1..Len(todo') /\ todo'[m] = Slots(i)[m]
          <6>1. todo \in Seq(Turn)
            BY <1>t DEF LoopType
          <6> QED
            BY <1>1, <3>1, <3>3, <6>1, GoesOn
        <5>3. Rank(p)' = Rank(p)
          BY <1>2, <4>2, SameRank
        <5> QED
          BY <1>5, <4>3, <5>1, <5>2, <5>3
      <4>4. CASE pvs[p].internal # i
        <5>1. ~Reaches(item, pvs[p].internal, Rank(p))
          BY <1>10, <4>4 DEF Reaches
        <5>2. internals'[pvs[p].internal] = internals[pvs[p].internal]
          BY <3>4, <4>1, <4>4
        <5> QED
          BY <1>4, <2>1, <3>1, <3>3, <5>1, <5>2
      <4> QED
        BY <4>3, <4>4
    <3>7. Ending'
      <4>1. \A m \in 1..Len(Slots(i)) : Slots(i)[m].kind # "pv"
        BY <3>3
      <4> QED
        BY <1>1, <3>1, <3>3, <4>1, EndingKept
    <3> QED
      BY <1>2, <2>1, <3>6, <3>7 DEF Untold
  <2>3. CASE i \notin internalPVArray
    <3>1. Goes(<<>>) /\ internals' = internals
      BY <1>3, <1>10, <2>0, <2>3 DEF FireInternalPV
    <3>2. ASSUME NEW p \in pvArray PROVE Heard(p)'
      <4>1. ~Reaches(item, pvs[p].internal, Rank(p))
        BY <1>10, <2>3 DEF Channels, Numbered, Reaches
      <4> QED
        BY <1>1, <1>4, <2>1, <3>1, <4>1
    <3> QED
      BY <1>2, <1>6, <2>1, <3>1, <3>2 DEF Untold
  <2> QED
    BY <2>2, <2>3
<1>11. CASE item.kind = "slot" /\ FireSlot(item.id, item.key)
  <2> DEFINE i   == item.id
             q   == Nth(internals[i].myPVs, item.key)
             now == internals[i].shown
  <2>1. internals' = internals /\ Goes(<<>>)
    BY <1>3, <1>11 DEF FireSlot, Tell
  <2>2. i \in 1..Len(internals) /\ item.key \in Nat /\ item.key > 0
    BY <1>1, <1>11, TurnFacts
  <2>3. \/ item.key <= Cardinality(internals[i].myPVs) /\ pvs[q].paused /\ told' = told
        \/ item.key <= Cardinality(internals[i].myPVs) /\ ~pvs[q].paused /\ told' = [told EXCEPT ![q] = now]
        \/ item.key > Cardinality(internals[i].myPVs) /\ told' = told
    BY <1>11 DEF FireSlot, Tell
  <2>4. /\ internals[i].myPVs \subseteq Ids /\ IsFiniteSet(internals[i].myPVs)
        /\ Cardinality(internals[i].myPVs) \in Nat
    BY <1>t, <2>2, SlotsType, ItemsType
  <2>5. item.key <= Cardinality(internals[i].myPVs) => q \in internals[i].myPVs
    <3>1. internals[i].myPVs \subseteq Nat /\ MaxPVs + 1 \in Nat /\ \A x \in internals[i].myPVs : x < MaxPVs + 1
      BY <2>4, ParamsAssumption DEF Ids
    <3>2. item.key <= Cardinality(internals[i].myPVs) => item.key \in 1..Cardinality(internals[i].myPVs)
      BY <2>2, <2>4
    <3> QED
      BY <2>4, <3>1, <3>2, NthIsElement
  <2>6. q \in internals[i].myPVs => q \in pvArray /\ pvs[q].internal = i
    BY <2>2 DEF Channels
  <2>7. told \in [Ids -> Nat] /\ pvArray \subseteq 1..Len(pvs)
    BY <1>t DEF ClientType
  <2>8. Untold'
    <3>0. Len(pvs) \in Nat
      BY <1>t DEF ClientType
    <3>1. \A p \in Ids : p > Len(pvs) => told[p] = 0 /\ p \notin pvArray
      BY <2>7, <3>0 DEF Untold, Ids
    <3>2. told' = told \/ (q \in pvArray /\ told' = [told EXCEPT ![q] = now])
      BY <2>3, <2>5, <2>6
    <3> HIDE DEF q, now
    <3>3. \A p \in Ids : p \notin pvArray => told'[p] = told[p]
      BY <2>7, <3>2
    <3> QED
      BY <1>2, <3>1, <3>3 DEF Untold
  <2>9. ASSUME NEW p \in pvArray PROVE Heard(p)'
    <3>1. p \in Ids /\ Rank(p) \in 1..Cardinality(internals[pvs[p].internal].myPVs)
          /\ Nth(internals[pvs[p].internal].myPVs, Rank(p)) = p
      BY SlotReaches
    <3>2. CASE ~Reaches(item, pvs[p].internal, Rank(p)) /\ told'[p] = told[p]
      BY <1>1, <1>4, <2>1, <3>2
    <3>3. CASE Reaches(item, pvs[p].internal, Rank(p))
      <4>1. pvs[p].internal = i /\ item.key = Rank(p)
        BY <1>11, <3>3 DEF Reaches
      <4>2. q = p /\ item.key <= Cardinality(internals[i].myPVs)
        BY <2>4, <3>1, <4>1
      <4>3. pvs[p].paused \/ told'[p] = now
        <5>1. pvs[p].paused \/ told' = [told EXCEPT ![p] = now]
          BY <2>2, <2>3, <2>4, <4>2
        <5> QED
          BY <2>7, <3>1, <5>1
      <4> QED
        BY <1>2, <2>1, <4>1, <4>3 DEF Heard
    <3>4. CASE told'[p] # told[p]
      <4>1. q = p /\ told'[p] = now
        BY <2>3, <2>7, <3>1, <3>4
      <4>2. pvs[p].internal = i
        BY <2>3, <2>5, <2>6, <3>4, <4>1
      <4> QED
        BY <1>2, <2>1, <4>1, <4>2 DEF Heard
    <3> QED
      BY <3>2, <3>3, <3>4
  <2> QED
    BY <1>2, <1>6, <2>1, <2>8, <2>9
<1> QED
  BY <1>7, <1>8, <1>9, <1>10, <1>11 DEF Step

(* A call of the page: a PV that is new, or that goes on, knows what its internal *)
(* PV shows; the others keep their turns.                                         *)
LEMMA CallTells ==
  ASSUME "early" \notin Habits, "callback" \notin Habits, "stale" \notin Habits,
         Types, Socket, Channels, Telling, ChannelActs
  PROVE  Telling'
<1> USE DEF Telling, Returns
<1>t. ClientType /\ Len(pvs) \in Nat /\ Len(internals) \in Nat /\ internals \in Seq(InternalRecord)
      /\ told \in [Ids -> Nat] /\ pvArray \subseteq 1..Len(pvs) /\ Len(pvs) <= MaxPVs
  BY DEF Types, ClientType
<1>r. \A i \in 1..Len(internals) : internals[i] \in InternalRecord
  BY <1>t
<1>i. \A p \in 1..Len(pvs) : pvs[p].internal \in 1..Len(internals) /\ p \in Ids
  BY <1>t, ParamsAssumption DEF ClientType, Ids
<1>1. ASSUME NEW param \in Params, CreatePV(param) PROVE Telling'
  <2>t. ~CreateThrows(param)
    BY <1>1, SteadyUse DEF Steady
  <2>0. PICK new \in Nat : new = Len(pvs) + 1
    BY <1>t
  <2>1. todo' = todo /\ Len(pvs) < MaxPVs
    BY <1>1, <2>t DEF CreatePV, Join, CreateNew, loopVars
  <2>2. Ending'
    BY <2>1 DEF Ending
  <2>3. new \in Ids
    BY <1>t, <2>0, <2>1, ParamsAssumption DEF Ids
  <2>4. CASE Join(param)
    <3>1. PICK i \in internalPVArray :
             /\ Len(pvs') = new /\ \A q \in 1..Len(pvs) : pvs'[q] = pvs[q]
             /\ pvs'[new] = [internal |-> i, paused |-> FALSE] /\ pvArray' = pvArray \cup {new}
             /\ internals'[i] = [internals[i] EXCEPT !.myPVs = @ \cup {new}]
             /\ \A j \in 1..Len(internals) : j # i => internals'[j] = internals[j]
             /\ told' = [told EXCEPT ![new] = internals[i].shown]
      BY <1>t, <2>0, <2>1, <2>4, JoinEffect
    <3>2. i \in 1..Len(internals)
      BY <1>t DEF ClientType
    <3>3. internals'[i].shown = internals[i].shown /\ internals'[i].myPVs = internals[i].myPVs \cup {new}
      BY <1>r, <3>1, <3>2 DEF InternalRecord
    <3>4. internals[i].myPVs \subseteq Ids
      BY <1>r, <3>2 DEF InternalRecord
    <3>5. pvs'[new].internal = i
      BY <3>1
    <3>6. told'[new] = internals[i].shown /\ \A p \in Ids : p # new => told'[p] = told[p]
      BY <1>t, <2>3, <3>1
    <3>7. ASSUME NEW p \in pvArray PROVE Heard(p)'
      <4>1. pvs'[p] = pvs[p] /\ p # new /\ p \in Ids /\ p < new /\ pvs[p].internal \in 1..Len(internals)
        BY <1>t, <1>i, <2>0, <3>1
      <4>2. internals'[pvs[p].internal].shown = internals[pvs[p].internal].shown
        BY <3>1, <3>3, <4>1
      <4>3. Rank(p)' = Rank(p)
        <5>1. CASE pvs[p].internal # i
          BY <3>1, <4>1, <5>1, SameRank
        <5>2. CASE pvs[p].internal = i
          <6>1. ~(new < p) /\ p # new
            BY <1>t, <4>1, <2>3 DEF Ids
          <6>2. Below(internals[i].myPVs \cup {new}, p) = Below(internals[i].myPVs, p)
            BY <6>1, Zenon DEF Below
          <6>3. Rank(p)' = Cardinality(Below(internals'[i].myPVs, p)) + 1
            BY <4>1, <5>2 DEF Rank
          <6>4. Rank(p) = Cardinality(Below(internals[i].myPVs, p)) + 1
            BY <5>2 DEF Rank
          <6> QED
            BY <3>3, <6>2, <6>3, <6>4
        <5> QED
          BY <5>1, <5>2
      <4> QED
        BY <2>1, <3>6, <4>1, <4>2, <4>3, HeardKept
    <3>8. Heard(new)'
      BY <3>3, <3>5, <3>6 DEF Heard
    <3>9. Untold'
      <4>1. \A p \in Ids : p > Len(pvs') => p > Len(pvs) /\ p # new
        BY <1>t, <2>0, <3>1 DEF Ids
      <4> QED
        BY <3>6, <4>1 DEF Untold
    <3> QED
      BY <2>2, <3>1, <3>7, <3>8, <3>9
  <2>5. CASE CreateNew(param)
    <3> DEFINE n == Len(internals) + 1
    <3>1. /\ Len(pvs') = new /\ \A q \in 1..Len(pvs) : pvs'[q] = pvs[q]
          /\ pvs'[new] = [internal |-> n, paused |-> FALSE] /\ pvArray' = pvArray \cup {new}
          /\ internals'[n] = [param |-> param, myPVs |-> {new}, isPaused |-> FALSE, shown |-> 0]
          /\ \A j \in 1..Len(internals) : internals'[j] = internals[j]
      BY <1>t, <2>0, <2>1, <2>5, CreateNewEffect
    <3>2. told' = told
      BY <2>5 DEF CreateNew
    <3>3. ASSUME NEW p \in pvArray PROVE Heard(p)'
      <4>1. pvs'[p] = pvs[p] /\ pvs[p].internal \in 1..Len(internals)
        BY <1>t, <1>i, <3>1
      <4>2. internals'[pvs[p].internal] = internals[pvs[p].internal]
        BY <3>1, <4>1
      <4> QED
        BY <2>1, <3>2, <4>1, <4>2, SameRank, HeardKept
    <3>4. told[new] = 0
      BY <1>t, <2>0, <2>3 DEF Untold
    <3>5. pvs'[new].internal = n /\ internals'[n].shown = 0
      BY <3>1
    <3> HIDE DEF n
    <3>6. Heard(new)'
      BY <3>2, <3>4, <3>5 DEF Heard
    <3>7. Untold'
      <4>1. \A p \in Ids : p > Len(pvs') => p > Len(pvs)
        BY <1>t, <2>0, <3>1 DEF Ids
      <4> QED
        BY <3>2, <4>1 DEF Untold
    <3> QED
      BY <2>2, <3>1, <3>3, <3>6, <3>7
  <2> QED
    BY <1>1, <2>t, <2>4, <2>5 DEF CreatePV
<1>2. ASSUME NEW p \in 1..Len(pvs), ClosePV(p) PROVE Telling'
  <2> DEFINE i == pvs[p].internal
  <2>1. /\ i \in 1..Len(internals) /\ pvs' = pvs /\ pvArray' = pvArray \ {p}
        /\ internals'[i] = [internals[i] EXCEPT !.myPVs = @ \ {p}]
        /\ \A j \in 1..Len(internals) : j # i => internals'[j] = internals[j]
    BY <1>t, <1>2, ClosePVEffect
  <2>2. internals'[i].shown = internals[i].shown
    BY <1>r, <2>1 DEF InternalRecord
  <2>3. todo = <<>> /\ told' = told /\ todo' = <<>>
    BY <1>2 DEF ClosePV, Fails, loopVars
  <2> HIDE DEF i
  <2>4. ASSUME NEW q \in pvArray' PROVE Heard(q)'
    <3>1. q \in pvArray /\ pvs[q].internal \in 1..Len(internals)
      BY <1>t, <1>i, <2>1
    <3>2. internals'[pvs[q].internal].shown = internals[pvs[q].internal].shown
      BY <2>1, <2>2, <3>1
    <3>3. ~Due(q)
      BY <2>3 DEF Due
    <3>4. Heard(q)
      BY <3>1
    <3> QED
      BY <2>1, <2>3, <3>2, <3>3, <3>4 DEF Heard
  <2>5. Untold' /\ Ending'
    BY <2>1, <2>3 DEF Untold, Ending
  <2> QED
    BY <2>4, <2>5
<1>3. ASSUME NEW p \in 1..Len(pvs), NEW paused \in BOOLEAN, SetPaused(p, paused) PROVE Telling'
  <2> DEFINE i == pvs[p].internal
  <2>1. /\ i \in 1..Len(internals) /\ Len(pvs') = Len(pvs) /\ pvs'[p] = [internal |-> i, paused |-> paused]
        /\ \A q \in 1..Len(pvs) : q # p => pvs'[q] = pvs[q]
        /\ pvArray' = pvArray
        /\ \/ internals' = internals
           \/ internals'[i] = [internals[i] EXCEPT !.isPaused = AllPaused(i, p, paused)]
        /\ \A j \in 1..Len(internals) : j # i => internals'[j] = internals[j]
    BY <1>t, <1>3, SetPausedEffect
  <2>2. internals'[i].shown = internals[i].shown /\ internals'[i].myPVs = internals[i].myPVs
    BY <1>r, <2>1 DEF InternalRecord
  <2>3. ~Throws
    BY <1>3 DEF SetPaused, MayUse, Throws, Socket
  <2>4. todo' = todo
    BY <1>3, <2>3 DEF SetPaused, loopVars
  <2>5. told' = IF pvs[p].paused /\ ~paused THEN [told EXCEPT ![p] = internals[i].shown] ELSE told
    BY <1>3 DEF SetPaused
  <2>6. pvs'[p].internal = i /\ pvs'[p].paused = paused
    BY <2>1
  <2> HIDE DEF i
  <2>7. ASSUME NEW q \in pvArray PROVE Heard(q)'
    <3>1. q \in 1..Len(pvs) /\ q \in Ids /\ pvs[q].internal \in 1..Len(internals) /\ Heard(q)
      BY <1>t, <1>i
    <3>2. /\ internals'[pvs[q].internal].shown = internals[pvs[q].internal].shown
          /\ internals'[pvs[q].internal].myPVs = internals[pvs[q].internal].myPVs
      BY <2>1, <2>2, <3>1
    <3>3. pvs'[q].internal = pvs[q].internal
      BY <2>1, <2>6, <3>1 DEF i
    <3>4. Rank(q)' = Rank(q)
      BY <3>2, <3>3, SameRank
    <3>5. CASE q # p
      <4>1. told'[q] = told[q] /\ pvs'[q] = pvs[q]
        BY <1>t, <2>1, <2>5, <3>1, <3>5
      <4> QED
        BY <2>4, <3>1, <3>2, <3>3, <3>4, <4>1, HeardKept
    <3>6. CASE q = p
      <4>1. CASE paused
        BY <2>6, <3>6, <4>1 DEF Heard
      <4>2. CASE ~paused /\ pvs[p].paused
        <5>1. told'[p] = internals[i].shown
          BY <1>t, <2>5, <3>1, <3>6, <4>2
        <5> QED
          BY <2>2, <2>6, <3>6, <5>1 DEF Heard
      <4>3. CASE ~paused /\ ~pvs[p].paused
        <5>1. told' = told
          BY <2>5, <4>3
        <5> QED
          BY <2>4, <3>1, <3>2, <3>3, <3>4, <3>6, <4>3, <5>1, HeardKept
      <4> QED
        BY <4>1, <4>2, <4>3
    <3> QED
      BY <3>5, <3>6
  <2>8. Untold'
    <3>1. ASSUME NEW q \in Ids, q > Len(pvs) PROVE told'[q] = 0
      <4>1. q # p
        BY <1>t, <3>1 DEF Ids
      <4>2. told'[q] = told[q]
        BY <1>t, <2>5, <4>1
      <4> QED
        BY <3>1, <4>2 DEF Untold
    <3> QED
      BY <2>1, <3>1 DEF Untold
  <2>9. Ending'
    BY <2>4 DEF Ending
  <2> QED
    BY <2>1, <2>7, <2>8, <2>9
<1> QED
  BY <1>1, <1>2, <1>3 DEF ChannelActs

(* The handlers start when nobody has a turn to come. *)
LEMMA HandlerTells ==
  ASSUME "stale" \notin Habits, Types, Channels, Telling, OnOpen \/ OnMessage \/ OnClose \/ OnTimeout
  PROVE  Telling'
<1> USE DEF Telling, clientVars
<1>t. ClientType /\ ServerType /\ Len(pvs) \in Nat /\ internals \in Seq(InternalRecord)
  BY DEF Types, ClientType
<1>1. todo = <<>> /\ UNCHANGED <<pvs, pvArray, told>>
  BY DEF OnOpen, OnMessage, OnClose, OnTimeout, Runs
<1>2. Untold'
  BY <1>1 DEF Untold
<1>3. \A p \in pvArray : ~pvs[p].paused => told[p] = internals[pvs[p].internal].shown
  BY <1>1 DEF Heard, Due
<1>4. ASSUME NEW p \in pvArray, internals'[pvs[p].internal].shown = internals[pvs[p].internal].shown
      PROVE  Heard(p)'
  BY <1>1, <1>3, <1>4 DEF Heard
<1>5. CASE OnOpen
  <2>1. internals' = internals /\ todo' = [k \in 1..Len(onOpen) |-> NewItem("open", 0, k)]
    BY <1>5 DEF OnOpen, Runs
  <2>2. \A m \in 1..Len(todo') : todo'[m].kind = "open"
    <3>1. Len(onOpen) \in Nat
      BY DEF Types, LoopType
    <3>2. Len(todo') = Len(onOpen) /\ \A m \in 1..Len(onOpen) : todo'[m] = NewItem("open", 0, m)
      BY <2>1, <3>1
    <3>3. \A k, x, y : NewItem(k, x, y).kind = k
      BY DEF NewItem
    <3> QED
      BY <3>2, <3>3
  <2>3. Ending'
    BY <2>2 DEF Ending
  <2> QED
    BY <1>1, <1>2, <1>4, <2>1, <2>3
<1>6. CASE OnTimeout
  <2>1. internals' = internals /\ todo' = <<>>
    BY <1>6 DEF OnTimeout, Runs
  <2>2. Ending'
    BY <2>1 DEF Ending
  <2> QED
    BY <1>1, <1>2, <1>4, <2>1, <2>2
<1>7. CASE OnMessage
  <2> DEFINE event == Head(toClient)
             i     == event.id
  <2>1. event \in Event
    BY <1>t, <1>7, TailOne DEF OnMessage, ServerType
  <2>2. CASE internals' = internals /\ todo' = <<>>
    <3>1. Ending'
      BY <2>2 DEF Ending
    <3> QED
      BY <1>1, <1>2, <1>4, <2>2, <3>1
  <2>3. CASE /\ i \in internalPVArray /\ todo' = Slots(i)
             /\ internals' = [internals EXCEPT ![i].shown = event.number]
    <3>1. i \in 1..Len(internals) /\ event.number \in Nat
      BY <1>t, <2>1, <2>3 DEF ClientType, Event
    <3> HIDE DEF event, i
    <3>2. /\ internals'[i] = [internals[i] EXCEPT !.shown = event.number]
          /\ \A j \in 1..Len(internals) : j # i => internals'[j] = internals[j]
      BY <1>t, <2>3, <3>1, ShownEffect
    <3>3. internals'[i].myPVs = internals[i].myPVs
      <4>1. internals[i] \in InternalRecord
        BY <1>t, <3>1
      <4> QED
        BY <3>2, <4>1 DEF InternalRecord
    <3>4. ASSUME NEW p \in pvArray PROVE Heard(p)'
      <4>1. pvs[p].internal \in 1..Len(internals)
        BY SlotReaches
      <4>2. CASE pvs[p].internal = i
        <5>1. PICK m \in 1..Len(todo') : Reaches(todo'[m], i, Rank(p))
          BY <2>3, <4>2, SlotReaches
        <5>2. Rank(p)' = Rank(p)
          BY <1>1, <3>3, <4>2, SameRank
        <5>3. Due(p)'
          BY <1>1, <4>2, <5>1, <5>2 DEF Due
        <5> QED
          BY <5>3 DEF Heard
      <4>3. CASE pvs[p].internal # i
        BY <1>4, <3>2, <4>1, <4>3
      <4> QED
        BY <4>2, <4>3
    <3>5. Ending'
      <4>1. Len(Slots(i)) = Cardinality(internals[i].myPVs)
        BY <1>t, <3>1, SlotsType
      <4>2. \A m \in 1..Cardinality(internals[i].myPVs) : Slots(i)[m] = NewItem("slot", i, m)
        BY DEF Slots
      <4>3. \A m \in 1..Len(todo') : todo'[m].kind = "slot"
        BY <2>3, <4>1, <4>2 DEF NewItem
      <4> QED
        BY <4>3 DEF Ending
    <3> QED
      BY <1>1, <1>2, <3>4, <3>5
  <2> QED
    BY <1>7, <2>2, <2>3 DEF OnMessage, Runs
<1>8. CASE OnClose
  <2> DEFINE items == Items("pv", pvArray)
             last  == NewItem("internals", 0, 0)
  <2>1. internals' = internals /\ todo' = items \o <<last>>
    BY <1>8 DEF OnClose, Runs
  <2>2. items \in Seq(Turn) /\ last.kind = "internals"
    <3>1. pvArray \subseteq Ids
      BY <1>t, ParamsAssumption DEF ClientType, Ids
    <3> QED
      BY <3>1, ItemsType DEF NewItem
  <2> HIDE DEF items, last
  <2>3. PICK n \in Nat : n = Len(items) + 1
    BY <2>2
  <2>4. Len(todo') = n /\ todo'[n] = last /\ n \in 1..Len(todo')
    BY <2>1, <2>2, <2>3
  <2>5. ASSUME NEW p \in pvArray PROVE Heard(p)'
    <3>1. Due(p)'
      BY <2>2, <2>4 DEF Due, Reaches
    <3> QED
      BY <3>1 DEF Heard
  <2>6. Ending'
    <3> SUFFICES ASSUME NEW m \in 1..Len(todo'), todo'[m].kind = "pv"
                 PROVE  \E l \in (m + 1)..Len(todo') : todo'[l].kind = "internals"
      BY DEF Ending
    <3>1. m # n
      BY <2>2, <2>4
    <3>2. n \in (m + 1)..Len(todo')
      BY <2>4, <3>1
    <3> QED
      BY <2>2, <2>4, <3>2
  <2> QED
    BY <1>1, <1>2, <2>5, <2>6
<1> QED
  BY <1>5, <1>6, <1>7, <1>8

LEMMA TellingStep ==
  ASSUME "early" \notin Habits, "callback" \notin Habits, "stale" \notin Habits,
         Types, Socket, Channels, Calling, Telling, [Next]_vars
  PROVE  Telling'
<1> USE DEF socketVars, clientVars, openVars, loopVars, serverVars, Returns
<1>1. ASSUME UNCHANGED <<pvs, pvArray, internals, told, todo>> PROVE Telling'
  <2>1. \A p \in pvArray : Heard(p)'
    BY <1>1 DEF Telling, Heard, Due, Rank
  <2>2. Untold' /\ Ending'
    BY <1>1 DEF Telling, Untold, Ending
  <2> QED
    BY <1>1, <2>1, <2>2 DEF Telling
<1>2. CASE ChannelActs
  BY <1>2, CallTells
<1>3. ASSUME NEW p \in 1..Len(pvs), SetPVValue(p) PROVE Telling'
  <2>1. ~Throws
    BY <1>3 DEF SetPVValue, MayUse, Throws, Socket
  <2> QED
    BY <1>1, <1>3, <2>1 DEF SetPVValue, Say
<1>4. ASSUME NEW name \in {"Login", "Logout"}, LogInOrOut(name) PROVE Telling'
  <2>1. ~Throws
    BY <1>4 DEF LogInOrOut, Throws
  <2> QED
    BY <1>1, <1>4, <2>1 DEF LogInOrOut, Say
<1>5. CASE AddOnOpen \/ RemoveOnOpen \/ Close
  BY <1>1, <1>5 DEF AddOnOpen, RemoveOnOpen, Close
<1>6. CASE OnOpen \/ OnMessage \/ OnClose \/ OnTimeout
  BY <1>6, HandlerTells
<1>7. CASE Step
  BY <1>7, StepTells
<1>8. CASE Execute
  BY <1>1, <1>8 DEF Execute
<1>9. ASSUME NEW i \in Ids, Update(i) PROVE Telling'
  BY <1>1, <1>9 DEF Update
<1>10. CASE UNCHANGED vars
  BY <1>1, <1>10 DEF vars
<1> QED
  BY <1>2, <1>3, <1>4, <1>5, <1>6, <1>7, <1>8, <1>9, <1>10 DEF Next, PageActs, ChannelActs

(* Nobody is skipped: between two handlers each PV that is not paused has been    *)
(* told the last event of its internal PV, on a page that closes no PV in its     *)
(* callbacks, uses none too early and none that is closed.                        *)
THEOREM EveryPVToldHolds ==
  ASSUME "early" \notin Habits, "callback" \notin Habits, "stale" \notin Habits
  PROVE  Spec => []EveryPVTold
<1> DEFINE Inv == ServerInv /\ ChannelInv /\ Telling
<1>1. Init => Inv
  <2> SUFFICES ASSUME Init PROVE Telling
    BY ServerInvInit, ChannelInit
  <2>1. Len(todo) = 0 /\ pvArray = {} /\ \A p \in Ids : told[p] = 0
    BY DEF Init
  <2> QED
    BY <2>1 DEF Telling, Untold, Ending
<1>2. Inv /\ [Next]_vars => Inv'
  <2> SUFFICES ASSUME Inv, [Next]_vars PROVE Inv'
    OBVIOUS
  <2>1. ServerInv' /\ ChannelInv'
    BY ServerInvStep, ChannelStep
  <2>2. Telling'
    BY TellingStep DEF ServerInv, ChannelInv, Steady
  <2> QED
    BY <2>1, <2>2
<1>3. Inv => EveryPVTold
  BY DEF Telling, Heard, Due, EveryPVTold
<1> QED
  BY <1>1, <1>2, <1>3, PTL DEF Spec

-----------------------------------------------------------------------------
(* No channel is left without its CreatePV: fireOnOpen() passes over no listener  *)
(* of internalCreatePV(), and none that is still needed is removed before.        *)
NoneUnsent == readyState = "open" /\ todo = <<>> => internalPVArray \subseteq sent

(* While the socket connects an on-open callback is registered for each channel,  *)
(* and fireOnOpen() comes to every one of them.                                   *)
Awaits(i) == \E j \in 1..Len(onOpen) : onOpen[j] = i
HasTurn(i) ==
  \E m \in 1..Len(todo) :
    todo[m].kind = "open" /\ todo[m].key \in 1..Len(onOpen) /\ onOpen[todo[m].key] = i
Waiting ==
  /\ readyState = "connecting" => timers = {} /\ \A i \in internalPVArray : Awaits(i)
  /\ readyState = "open" => \A i \in internalPVArray \ sent : HasTurn(i)

LEMMA WaitingKept ==
  ASSUME Waiting, readyState' \in {readyState, "closing", "closed"}, UNCHANGED <<onOpen, timers, sent>>,
         internalPVArray' \subseteq internalPVArray,
         todo' = todo \/ todo = <<>> \/ readyState # "open"
  PROVE  Waiting'
<1>1. todo = <<>> => \A i : ~HasTurn(i)
  BY DEF HasTurn
<1> QED
  BY <1>1 DEF Waiting, Awaits, HasTurn

(* A callback added to the array moves no other ... *)
LEMMA WaitingGrows ==
  ASSUME Types, Waiting, readyState = "connecting", readyState' = readyState, timers' = timers,
         NEW e \in {Page} \cup Ids, onOpen' = Append(onOpen, e),
         \A i \in internalPVArray' \ internalPVArray : i = e
  PROVE  Waiting'
<1>1. onOpen \in Seq({Page} \cup Ids) /\ Len(onOpen) \in Nat
  BY DEF Types, LoopType
<1>2. /\ Len(onOpen') = Len(onOpen) + 1 /\ onOpen'[Len(onOpen) + 1] = e
      /\ \A j \in 1..Len(onOpen) : onOpen'[j] = onOpen[j]
  BY <1>1, AppendOne
<1>3. \A i : Awaits(i) \/ i = e => \E j \in 1..Len(onOpen') : onOpen'[j] = i
  BY <1>1, <1>2 DEF Awaits
<1>4. \A i \in internalPVArray' : Awaits(i) \/ i = e
  BY DEF Waiting
<1>5. \A i \in internalPVArray' : Awaits(i)'
  BY <1>3, <1>4 DEF Awaits
<1> QED
  BY <1>5 DEF Waiting

(* ... and one of the page taken out leaves those of the internal PVs.            *)
LEMMA WaitingWithout ==
  ASSUME Types, Waiting, todo = <<>>, Contains(onOpen, Page), onOpen' = Without(Page),
         UNCHANGED <<readyState, timers, sent, internalPVArray, todo>>
  PROVE  Waiting'
<1>1. onOpen \in Seq({Page} \cup Ids) /\ Len(onOpen) \in Nat
  BY DEF Types, LoopType
<1>2. internalPVArray \subseteq Ids /\ Page \notin Ids
  <2>1. Len(internals) \in Nat /\ Len(pvs) \in Nat
    BY DEF Types, ClientType
  <2> QED
    BY <2>1, ParamsAssumption DEF Types, ClientType, Ids, Page
<1>3. PICK c \in 1..Len(onOpen) : onOpen[c] = Page /\ onOpen' = RemoveAt(onOpen, c)
  <2> DEFINE First(k) == onOpen[k] = Page /\ \A j \in 1..(k-1) : onOpen[j] # Page
             T == {k \in 1..Len(onOpen) : onOpen[k] = Page}
  <2>1. T \subseteq Nat /\ T # {}
    BY <1>1 DEF Contains
  <2>2. PICK k \in T : \A j \in T : k <= j
    BY <2>1, Least
  <2>3. k \in 1..Len(onOpen) /\ First(k)
    BY <1>1, <2>2
  <2>4. DOMAIN onOpen = 1..Len(onOpen) /\ onOpen # <<>>
    BY <1>1, <2>3
  <2> DEFINE c == CHOOSE n \in DOMAIN onOpen : First(n)
  <2>5. c \in 1..Len(onOpen) /\ First(c)
    BY <2>3, <2>4
  <2>6. onOpen' = RemoveAt(onOpen, c)
    BY <2>4 DEF Without
  <2> HIDE DEF c
  <2> QED
    BY <2>5, <2>6
<1>4. /\ Len(onOpen') = Len(onOpen) - 1
      /\ \A k \in 1..(Len(onOpen) - 1) : onOpen'[k] = IF k < c THEN onOpen[k] ELSE onOpen[k + 1]
  BY <1>1, <1>3, RemoveOne
<1>5. ASSUME NEW i \in internalPVArray, Awaits(i) PROVE Awaits(i)'
  <2>1. PICK j \in 1..Len(onOpen) : onOpen[j] = i
    BY <1>5 DEF Awaits
  <2>2. j # c
    BY <1>2, <1>3, <2>1
  <2>3. CASE j < c
    <3>1. j \in 1..Len(onOpen') /\ onOpen'[j] = i
      BY <1>1, <1>4, <2>1, <2>3
    <3> QED
      BY <3>1 DEF Awaits
  <2>4. CASE j > c
    <3>1. j - 1 \in 1..Len(onOpen') /\ ~(j - 1 < c) /\ (j - 1) + 1 = j
      BY <1>1, <1>4, <2>1, <2>4
    <3>2. onOpen'[j - 1] = i
      BY <1>4, <2>1, <3>1
    <3> QED
      BY <3>1, <3>2 DEF Awaits
  <2> QED
    BY <1>1, <2>2, <2>3, <2>4
<1>6. \A i : ~HasTurn(i)
  BY DEF HasTurn
<1> QED
  BY <1>5, <1>6 DEF Waiting

(* websocket.onopen gives every callback registered a turn. *)
LEMMA OpeningWaits ==
  ASSUME Types, Waiting, OnOpen
  PROVE  Waiting'
<1>1. /\ readyState = "connecting" /\ readyState' = "open" /\ UNCHANGED <<internalPVArray, onOpen, sent>>
      /\ todo' = [k \in 1..Len(onOpen) |-> NewItem("open", 0, k)]
  BY DEF OnOpen, Runs, clientVars, openVars
<1>2. Len(onOpen) \in Nat
  BY DEF Types, LoopType
<1>3. Len(todo') = Len(onOpen) /\ \A k \in 1..Len(onOpen) : todo'[k].kind = "open" /\ todo'[k].key = k
  <2>1. Len(todo') = Len(onOpen) /\ \A k \in 1..Len(onOpen) : todo'[k] = NewItem("open", 0, k)
    BY <1>1, <1>2
  <2>2. \A k : NewItem("open", 0, k).kind = "open" /\ NewItem("open", 0, k).key = k
    BY DEF NewItem
  <2> QED
    BY <2>1, <2>2
<1>4. ASSUME NEW i \in internalPVArray PROVE HasTurn(i)'
  <2>1. PICK j \in 1..Len(onOpen) : onOpen[j] = i
    BY <1>1 DEF Waiting, Awaits
  <2> QED
    BY <1>1, <1>3, <2>1 DEF HasTurn
<1> QED
  BY <1>1, <1>4 DEF Waiting

(* A turn that is taken sends the command, and leaves the others theirs.          *)
LEMMA StepWaits ==
  ASSUME Types, Socket, Waiting, Step
  PROVE  Waiting'
<1> DEFINE item == Head(todo)
<1>t. ClientType /\ onOpen \in Seq({Page} \cup Ids) /\ todo \in Seq(Turn)
  BY DEF Types, LoopType
<1>1. todo # <<>> /\ UNCHANGED <<readyState, internalPVArray>>
  BY DEF Step, socketVars
<1>2. /\ item = todo[1] /\ item \in Turn /\ Len(todo) \in Nat /\ 1 \in 1..Len(todo)
      /\ Tail(todo) = <<>> \o Tail(todo) /\ <<>> \in Seq(Turn)
  BY <1>t, <1>1, TailOne
<1>3. internalPVArray \subseteq Ids /\ internalPVArray \subseteq 1..Len(internals)
  <2>1. Len(internals) \in Nat /\ Len(pvs) \in Nat
    BY <1>t DEF ClientType
  <2> QED
    BY <1>t, <2>1, ParamsAssumption DEF ClientType, Ids
<1>4. onOpen' = onOpen
  BY DEF Step, CallOnOpen, FirePV, FireInternalPVs, FireInternalPV, FireSlot, RemoveLater
<1>5. CASE readyState = "connecting"
  <2>1. timers' = timers
    BY <1>5 DEF Step, CallOnOpen, FirePV, FireInternalPVs, FireInternalPV, FireSlot, Throws
  <2> QED
    BY <1>1, <1>4, <1>5, <2>1 DEF Waiting, Awaits
<1>6. CASE readyState = "open"
  <2>1. ~Throws
    BY <1>6 DEF Socket, Throws
  <2>2. PICK items \in Seq(Turn) : Goes(items)
    <3>1. CallPage \/ Skip => Goes(<<>>)
      BY DEF CallPage, Skip
    <3>2. CASE item.kind = "open" /\ CallOnOpen(item.key)
      BY <1>2, <2>1, <3>1, <3>2 DEF CallOnOpen
    <3>3. CASE item.kind = "pv" /\ FirePV(item.id)
      BY <1>2, <3>1, <3>3 DEF FirePV, Tell
    <3>4. CASE item.kind = "slot" /\ FireSlot(item.id, item.key)
      BY <1>2, <3>1, <3>4 DEF FireSlot, Tell
    <3>5. CASE item.kind = "internals" /\ FireInternalPVs
      BY <1>3, <3>5, ItemsType DEF FireInternalPVs
    <3>6. CASE item.kind = "internal" /\ FireInternalPV(item.id)
      <4>1. CASE \E i \in internalPVArray : Goes(Slots(i))
        BY <1>t, <1>3, <4>1, SlotsType
      <4> QED
        BY <1>2, <3>1, <3>6, <4>1 DEF FireInternalPV, Slot
    <3> QED
      BY <3>2, <3>3, <3>4, <3>5, <3>6 DEF Step
  <2>3. /\ sent \subseteq sent'
        /\ \A i \in Ids : item.kind = "open" /\ item.key \in 1..Len(onOpen) /\ onOpen[item.key] = i => i \in sent'
    <3>1. CASE item.kind = "open" /\ CallOnOpen(item.key)
      <4>1. item.key \in 1..Len(onOpen) => ~(item.key > Len(onOpen))
        BY <1>t
      <4>2. Page \notin Ids
        BY DEF Page, Ids
      <4> QED
        BY <2>1, <3>1, <4>1, <4>2 DEF CallOnOpen
    <3>2. CASE item.kind # "open" /\ sent' = sent
      BY <3>2
    <3> QED
      BY <3>1, <3>2 DEF Step, FirePV, FireInternalPVs, FireInternalPV, FireSlot
  <2>4. ASSUME NEW i \in internalPVArray \ sent' PROVE HasTurn(i)'
    <3>1. PICK m \in 1..Len(todo) :
            todo[m].kind = "open" /\ todo[m].key \in 1..Len(onOpen) /\ onOpen[todo[m].key] = i
      BY <1>6, <2>3, <2>4 DEF Waiting, HasTurn
    <3>2. m # 1
      BY <1>2, <1>3, <2>3, <2>4, <3>1
    <3>3. m \in 2..Len(todo) /\ todo' = items \o Tail(todo)
      BY <1>2, <2>2, <3>1, <3>2 DEF Goes
    <3>4. Len(items) + m - 1 \in 1..Len(todo') /\ todo'[Len(items) + m - 1] = todo[m]
      BY <1>t, <1>1, <3>3, GoesOn
    <3> QED
      BY <1>4, <3>1, <3>4 DEF HasTurn
  <2> QED
    BY <1>1, <1>6, <2>4 DEF Waiting
<1>7. CASE readyState \notin {"connecting", "open"}
  BY <1>1, <1>7 DEF Waiting
<1> QED
  BY <1>5, <1>6, <1>7

(* createPV() of new parameters: the command is sent, or a listener registered.   *)
LEMMA CreationWaits ==
  ASSUME Types, Socket, Waiting, NEW param \in Params, CreatePV(param)
  PROVE  Waiting'
<1> USE DEF socketVars, loopVars, Returns
<1>1. UNCHANGED <<readyState, timers>> /\ (todo' = todo \/ CreateThrows(param))
  BY DEF CreatePV, Join, CreateNew
<1>2. CASE Join(param)
  BY <1>1, <1>2, WaitingKept DEF Join
<1>0. CASE CreateThrows(param)
  BY <1>0, <1>1, ThrowsLate DEF Waiting
<1>3. CASE CreateNew(param)
  <2> DEFINE i == Len(internals) + 1
  <2>1. internalPVArray' = internalPVArray \cup {i} /\ i \in Ids
    BY <1>3, CreateNewEffect DEF CreatePV, Types
  <2>2. CASE isLive
    <3>1. sent' = sent \cup {i} /\ onOpen' = onOpen
      BY <1>3, <2>2 DEF CreateNew
    <3>2. readyState # "connecting"
      BY <2>2 DEF Socket
    <3>3. todo' = todo
      BY <1>3 DEF CreateNew
    <3> HIDE DEF i
    <3> QED
      BY <1>1, <2>1, <3>1, <3>2, <3>3 DEF Waiting, HasTurn
  <2>3. CASE ~isLive
    <3>1. onOpen' = Append(onOpen, i) /\ sent' = sent
      BY <1>3, <2>3 DEF CreateNew
    <3>2. readyState # "open"
      BY <2>3 DEF Socket
    <3> HIDE DEF i
    <3>3. CASE readyState = "connecting"
      BY <1>1, <2>1, <3>1, <3>3, WaitingGrows
    <3> QED
      BY <1>1, <3>2, <3>3 DEF Waiting
  <2> QED
    BY <2>2, <2>3
<1> QED
  BY <1>0, <1>2, <1>3 DEF CreatePV

LEMMA WaitingStep ==
  ASSUME "oneShot" \notin Habits, Types, Socket, Waiting, [Next]_vars
  PROVE  Waiting'
<1> USE DEF socketVars, clientVars, openVars, loopVars, serverVars, Returns, Fails
<1>0. Throws => readyState # "open"
  BY DEF Throws, Socket
<1>1. ASSUME NEW param \in Params, CreatePV(param) PROVE Waiting'
  BY <1>1, CreationWaits
<1>2. ASSUME NEW p \in 1..Len(pvs), ClosePV(p) PROVE Waiting'
  BY <1>0, <1>2, WaitingKept DEF ClosePV, CloseInternalPV
<1>3. ASSUME NEW p \in 1..Len(pvs), NEW paused \in BOOLEAN, SetPaused(p, paused) PROVE Waiting'
  BY <1>0, <1>3, WaitingKept DEF SetPaused
<1>4. ASSUME NEW p \in 1..Len(pvs), SetPVValue(p) PROVE Waiting'
  BY <1>0, <1>4, WaitingKept DEF SetPVValue, Say
<1>5. ASSUME NEW name \in {"Login", "Logout"}, LogInOrOut(name) PROVE Waiting'
  BY <1>0, <1>5, WaitingKept DEF LogInOrOut, Say
<1>6. CASE AddOnOpen
  BY <1>6, WaitingGrows DEF AddOnOpen
<1>7. CASE RemoveOnOpen
  BY <1>7, WaitingWithout DEF RemoveOnOpen
<1>8. CASE Close
  BY <1>8, WaitingKept DEF Close
<1>9. CASE OnMessage
  BY <1>9, WaitingKept DEF OnMessage, Runs
<1>10. CASE OnClose
  BY <1>10, WaitingKept DEF OnClose, Runs
<1>11. CASE OnTimeout
  <2>1. /\ timers # {} /\ todo = <<>> /\ todo' = <<>>
        /\ UNCHANGED <<readyState, internalPVArray, sent>>
    BY <1>11 DEF OnTimeout, Runs
  <2>2. \A i : ~HasTurn(i)
    BY <2>1 DEF HasTurn
  <2> QED
    BY <2>1, <2>2 DEF Waiting
<1>12. CASE Execute
  BY <1>12, WaitingKept DEF Execute
<1>13. ASSUME NEW i \in Ids, Update(i) PROVE Waiting'
  BY <1>13, WaitingKept DEF Update
<1>14. CASE UNCHANGED vars
  BY <1>14, WaitingKept DEF vars
<1> QED
  BY <1>1, <1>2, <1>3, <1>4, <1>5, <1>6, <1>7, <1>8, <1>9, <1>10, <1>11, <1>12, <1>13, <1>14,
     OpeningWaits, StepWaits DEF Next, PageActs

(* Between two handlers of an open connection no channel waits for its CreatePV,  *)
(* on any page that removes no on-open callback while it runs: fireOnOpen() comes *)
(* to every listener of internalCreatePV(), whatever else has been removed.       *)
THEOREM NoneUnsentHolds == ASSUME "oneShot" \notin Habits PROVE Spec => []NoneUnsent
<1> DEFINE Inv == Types /\ Socket /\ Waiting
<1>1. Init => Inv
  <2>1. Init => Socket /\ Waiting
    BY DEF Init, Socket, Waiting
  <2> QED
    BY <2>1, TypesInit
<1>2. Inv /\ [Next]_vars => Inv'
  BY TypesStep, SocketStep, WaitingStep
<1>3. Inv => NoneUnsent
  BY DEF Waiting, HasTurn, NoneUnsent
<1> QED
  BY <1>1, <1>2, <1>3, PTL DEF Spec

=============================================================================
