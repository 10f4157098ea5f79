-------------------------- MODULE PVLifecycle_proofs --------------------------
(***************************************************************************)
(* Why the threads of PVLifecycle keep the PVs of a session in order.       *)
(*                                                                         *)
(* start() is called once for a PV (Once), by the command that has created  *)
(* it (NewOnes), so that it cannot meet the stop() of removePV(), which the *)
(* same thread calls, nor that of close(), as long as the PV was not being  *)
(* created when the session closed.  Hence what is open can always be       *)
(* closed (Closable), and nothing else than removePV() takes away what the  *)
(* commands and events of an open session use (Uses, Serves).  The listeners *)
(* of a running PV know of its connection, or will (Learning).              *)
(***************************************************************************)
EXTENDS PVLifecycle, TLAPS

Busy     == {"addPV", "addListener", "checkReader", "useReader", "checkWriter", "useWriter",
             "start", "await"}
UsesPV   == Busy \cup {"check", "use"}
StartPC  == {"startReader", "startWriter", "countDown"}

(* The PV is new, and its start() has not come to its end. *)
IsNew(p) == cmd.pv = p /\ cmd.isNew /\ cpc \in Busy

HasTask(p)     == \E k \in 1..Len(tasks) : tasks[k].pv = p
StartQueued(p) == \E k \in 1..Len(tasks) : tasks[k].pv = p /\ tasks[k].kind = "start"
OnceQueued     ==
  \A k \in 1..Len(tasks), l \in 1..Len(tasks) :
    tasks[k].kind = "start" /\ tasks[l].kind = "start" /\ tasks[k].pv = tasks[l].pv => k = l
InStart(p)     == StartQueued(p) \/ (npc \in StartPC /\ task.pv = p)

IsOpen(p, h) == handle[p][h] = "open"
Mapped(p)    == \E i \in Ids : pvMap[i] = p

(* Where the three threads stand.                                               *)
Control ==
  /\ cpc # "idle" => cmd.id \in Ids
  /\ cpc \in UsesPV => cmd.pv \in created
  /\ cpc \notin UsesPV => cmd.pv = NoPV
  /\ cpc \in {"remove", "removing"} <=> (cpc # "idle" /\ cmd.op = "close")
  /\ cpc \in {"addPV", "await"} => cmd.isNew
  /\ cpc \in {"check", "use"} => cmd.op \in {"pause", "resume", "write"}
  /\ cpc \in Busy => cmd.op = "create"
  /\ monitor = "removePV" <=> cpc = "removing"
  /\ monitor = "close" => ~isOpen
  /\ monitor = "free" => toStop = {} /\ stopPC = "none"
  /\ stopPC # "none" => stopping \in PVs
  /\ npc # "idle" => task \in Task /\ task.pv \in created
  /\ npc \in StartPC => task.kind = "start"
  /\ npc \notin StartPC /\ npc # "idle" => task.kind # "start"
  /\ npc = "startWriter" => task.pv \in Writable
  /\ cpc = "getPV" => ~cmd.isNew
  /\ \A p \in PVs \ Writable : ~field[p]["writer"]

(* A PV that is not created yet, or has just been, is unknown to all threads.    *)
Unknown(p) ==
  /\ ~Mapped(p) /\ ~HasTask(p) /\ (npc # "idle" => task.pv # p)
  /\ p \notin toStop /\ (stopPC # "none" => stopping # p)
  /\ p \notin failed /\ p \notin latched
  /\ ~startFlag[p] /\ \A h \in Handles : handle[p][h] = "none"

Fresh ==
  \A p \in PVs : p \notin created \/ (cpc = "addPV" /\ cmd.pv = p) => Unknown(p)

(* The map holds each PV once, and removePV() stops only the PV it removes.      *)
Mapping ==
  /\ \A i \in Ids, j \in Ids : pvMap[i] = pvMap[j] /\ pvMap[i] # NoPV => i = j
  /\ monitor = "removePV" =>
       /\ toStop \subseteq {pvMap[cmd.id]}
       /\ stopPC # "none" => stopping = pvMap[cmd.id]
  /\ monitor = "close" => \A p \in toStop : Mapped(p)
  /\ ~isOpen /\ monitor # "close" => \A i \in Ids : pvMap[i] = NoPV
  /\ cpc = "addPV" => pvMap[cmd.id] = NoPV

GivenUp(p) == \A i \in Ids : pvMap[i] = p => cpc = "removing" /\ cmd.id = i

(* While the session is open a field that has been tested is null only for a PV  *)
(* that is being given up.                                                       *)
Uses ==
  isOpen =>
    /\ cpc = "useReader" => field[cmd.pv]["reader"]
    /\ cpc = "useWriter" => field[cmd.pv]["writer"]
    /\ cpc = "use" => field[cmd.pv][IF cmd.op = "write" THEN "writer" ELSE "reader"]
    /\ npc = "use" /\ ~field[task.pv][HandleOf(task.kind)] => GivenUp(task.pv)
    /\ \A p \in failed : GivenUp(p)

(* start() is called once for each PV. *)
Once ==
  /\ OnceQueued
  /\ npc \in StartPC => ~StartQueued(task.pv)
  /\ \A p \in latched : ~InStart(p)
  /\ \A p \in PVs : IsNew(p) /\ cpc # "await" => ~InStart(p) /\ p \notin latched

(* A PV of an open session is to be started, or runs, unless it is removed now.  *)
Running(p) == field[p]["reader"] /\ IsOpen(p, "reader")

Serves ==
  isOpen =>
    \A i \in Ids : pvMap[i] # NoPV /\ ~(cpc = "removing" /\ cmd.id = i) =>
      LET p == pvMap[i]
      IN  \/ Running(p) \/ StartQueued(p) \/ (npc = "startReader" /\ task.pv = p)
          \/ IsNew(p) /\ cpc # "await"

(* A PV is new only while the session is open, in the map, and the only one to   *)
(* be started.                                                                   *)
NewOnes ==
  \A p \in created \ exposed :
    /\ InStart(p) => IsNew(p) /\ cpc = "await" /\ startFlag[p]
    /\ IsNew(p) /\ cpc # "addPV" => isOpen /\ Mapped(p)

(* What is open can be closed: its field is not null and startFlag is TRUE; and  *)
(* stop() closes one after the other, before the map forgets the PV.             *)
Closable ==
  \A p \in created \ exposed :
    /\ \A h \in Handles : IsOpen(p, h) => field[p][h] /\ startFlag[p] /\ Mapped(p)
    /\ stopPC # "none" /\ stopping = p =>
         /\ stopPC # "closeReader" => ~IsOpen(p, "reader")
         /\ stopPC \notin {"closeReader", "closeWriter"} => ~IsOpen(p, "writer")
    /\ p \notin toStop /\ ~(stopPC # "none" /\ stopping = p)
       /\ (monitor = "close" \/ (monitor = "removePV" /\ pvMap[cmd.id] = p)) =>
         \A h \in Handles : ~IsOpen(p, h)

IInv == TypeOK /\ Control /\ Fresh /\ Mapping /\ Uses /\ Once /\ Serves /\ NewOnes /\ Closable

-----------------------------------------------------------------------------
(* What the operators on sequences return: the queue of tasks, and the           *)
(* listeners of a PV.                                                            *)
LEMMA SequenceFacts ==
  ASSUME NEW S, NEW s \in Seq(S)
  PROVE  /\ Len(s) \in Nat /\ \A k \in 1..Len(s) : s[k] \in S
         /\ \A e \in S : Append(s, e) \in Seq(S)
         /\ s # <<>> => Head(s) \in S /\ Tail(s) \in Seq(S)
OBVIOUS

(* A sequence whose elements are all replaced, *)
LEMMA ReplaceFact ==
  ASSUME NEW S, NEW s \in Seq(S), NEW f \in [1..Len(s) -> S]
  PROVE  f \in Seq(S)
<1>1. Len(s) \in Nat
  OBVIOUS
<1> QED
  BY <1>1

(* or one of them, *)
LEMMA ExceptFact ==
  ASSUME NEW S, NEW s \in Seq(S), NEW k, NEW e \in S
  PROVE  [s EXCEPT ![k] = e] \in Seq(S)
<1>1. s \in [1..Len(s) -> S]
  OBVIOUS
<1>2. [s EXCEPT ![k] = e] \in [1..Len(s) -> S]
  BY <1>1
<1> QED
  BY <1>2, ReplaceFact

(* or one by itself, is a sequence. *)
LEMMA KeepFact ==
  ASSUME NEW S, NEW s \in Seq(S), NEW k
  PROVE  [s EXCEPT ![k] = s[k]] \in Seq(S)
<1>1. s \in [1..Len(s) -> S]
  OBVIOUS
<1>2. [s EXCEPT ![k] = s[k]] \in [1..Len(s) -> S]
  BY <1>1
<1> QED
  BY <1>2, ReplaceFact

(* The listeners of a PV stay as many when they are told. *)
LEMMA TellTyping ==
  ASSUME TypeOK, task \in Task, NEW what \in Told, Tell(what)
  PROVE  told' \in [PVs -> Seq(Told)]
<1>1. task.pv \in PVs /\ told[task.pv] \in Seq(Told)
  BY DEF TypeOK, Task
<1>2. [l \in 1..Len(told[task.pv]) |-> IF l \in Audience THEN what ELSE told[task.pv][l]]
        \in Seq(Told)
  BY <1>1, ReplaceFact
<1> QED
  BY <1>1, <1>2 DEF TypeOK, Tell

-----------------------------------------------------------------------------
(* Every step keeps the types.                                                   *)
LEMMA TypingStep ==
  ASSUME TypeOK, Control, [Next]_vars
  PROVE  TypeOK'
<1> USE PVsAssumption, BoundsAssumption DEF TypeOK, Control, UsesPV, Busy, StartPC,
        CommandPC, Op, Handles, Range, session, sessionVars, stopVars, pvVars, fieldVars,
        readerVars, threadVars, madeVars, cmdVars, logVars
<1>1. ASSUME NEW op \in Op, NEW i \in Ids, Begin(op, i)
      PROVE  TypeOK'
  BY <1>1 DEF Begin
<1>2. CASE GetPV
  <2>1. CASE pvMap[cmd.id] # NoPV
    BY <1>2, <2>1 DEF GetPV
  <2>2. CASE pvMap[cmd.id] = NoPV /\ cmd.op = "create"
    <3>1. PICK new \in PVs \ created :
             cmd' = [cmd EXCEPT !.pv = new, !.isNew = TRUE] /\ created' = created \cup {new}
      BY <1>2, <2>2 DEF GetPV
    <3> QED
      BY <1>2, <2>2, <3>1 DEF GetPV
  <2>3. CASE pvMap[cmd.id] = NoPV /\ cmd.op # "create"
    <3>1. cpc' = "idle" /\ cmd' = NoCommand /\ created' = created
      BY <1>2, <2>3 DEF GetPV
    <3> QED
      BY <1>2, <3>1 DEF GetPV, NoCommand
  <2> QED
    BY <2>1, <2>2, <2>3
<1>3. CASE AddPV
  BY <1>3 DEF AddPV, Goes
<1>4. CASE AddListener
  <2>1. cmd.pv \in PVs /\ told[cmd.pv] \in Seq(Told)
    BY <1>4 DEF AddListener, Goes
  <2>2. Append(told[cmd.pv], "none") \in Seq(Told)
    BY <2>1, SequenceFacts DEF Told
  <2>3. told' \in [PVs -> Seq(Told)]
    BY <1>4, <2>1, <2>2 DEF AddListener
  <2> QED
    BY <1>4, <2>3 DEF AddListener, Goes
<1>5. CASE CheckField("reader", "checkReader", "useReader", "checkWriter")
  BY <1>5 DEF CheckField, Goes, NoCommand
<1>6. CASE CheckField("writer", "checkWriter", "useWriter", "start")
  BY <1>6 DEF CheckField, Goes, NoCommand
<1>7. CASE cmd.op \in {"pause", "resume"} /\ CheckField("reader", "check", "use", "idle")
  BY <1>7 DEF CheckField, Goes, NoCommand
<1>8. CASE cmd.op = "write" /\ CheckField("writer", "check", "use", "idle")
  BY <1>8 DEF CheckField, Goes, NoCommand
<1>9. CASE FindsNull("reader", "useReader")
  BY <1>9 DEF FindsNull, Goes, NoCommand
<1>10. CASE FindsNull("writer", "useWriter")
  BY <1>10 DEF FindsNull, Goes, NoCommand
<1>11. CASE cmd.op \in {"pause", "resume"} /\ FindsNull("reader", "use")
  BY <1>11 DEF FindsNull, Goes, NoCommand
<1>12. CASE cmd.op = "write" /\ FindsNull("writer", "use")
  BY <1>12 DEF FindsNull, Goes, NoCommand
<1>13. CASE UpdateLater
  <2>1. cmd.pv \in PVs /\ told[cmd.pv] \in Seq(Told) /\ Len(told[cmd.pv]) \in Nat
    BY <1>13 DEF UpdateLater, Goes
  <2>2. \A e \in Told : [told[cmd.pv] EXCEPT ![Len(told[cmd.pv])] = e] \in Seq(Told)
    BY <2>1, ExceptFact
  <2>3. "paused" \in Told /\ [told[cmd.pv] EXCEPT ![Len(told[cmd.pv])] = @] \in Seq(Told)
    BY <2>1, KeepFact DEF Told
  <2>4. told' = [told EXCEPT ![cmd.pv] =
                   [told[cmd.pv] EXCEPT ![Len(told[cmd.pv])] = IF paused[cmd.pv] THEN "paused" ELSE @]]
    BY <1>13 DEF UpdateLater
  <2>5. told' \in [PVs -> Seq(Told)]
    BY <2>1, <2>2, <2>3, <2>4
  <2>6. NewTask("update", cmd.pv, Len(told[cmd.pv])) \in Task
    BY <2>1 DEF Task, NewTask
  <2>7. tasks' \in Seq(Task)
    BY <1>13, <2>6, SequenceFacts DEF UpdateLater
  <2> QED
    BY <1>13, <2>5, <2>7 DEF UpdateLater, Goes
<1>14. CASE PermissionForLater
  <2>1. cmd.pv \in PVs /\ told[cmd.pv] \in Seq(Told) /\ Len(told[cmd.pv]) \in Nat
    BY <1>14 DEF PermissionForLater, Goes
  <2>2. NewTask("permission", cmd.pv, Len(told[cmd.pv])) \in Task
    BY <2>1 DEF Task, NewTask
  <2>3. tasks' \in Seq(Task)
    BY <1>14, <2>2, SequenceFacts DEF PermissionForLater
  <2> QED
    BY <1>14, <2>3 DEF PermissionForLater, Goes
<1>15. CASE Start
  <2>1. cmd.pv \in PVs
    BY <1>15 DEF Start, Goes
  <2>2. NewTask("start", cmd.pv, All) \in Task
    BY <2>1 DEF Task, NewTask, All
  <2>3. tasks' \in Seq(Task)
    <3>1. Append(tasks, NewTask("start", cmd.pv, All)) \in Seq(Task)
      BY <2>2, SequenceFacts
    <3> QED
      BY <1>15, <3>1 DEF Start
  <2>4. startFlag' \in [PVs -> BOOLEAN]
    BY <1>15, <2>1 DEF Start
  <2> QED
    BY <1>15, <2>3, <2>4 DEF Start, Goes, NoCommand
<1>16. CASE StartReturns
  BY <1>16 DEF StartReturns, Goes, NoCommand
<1>17. CASE StartTimesOut
  BY <1>17 DEF StartTimesOut, Goes, NoCommand
<1>18. CASE SetPaused
  BY <1>18 DEF SetPaused, Goes, NoCommand
<1>19. CASE SetValue
  BY <1>19 DEF SetValue, Goes, NoCommand
<1>20. CASE RemovePV
  BY <1>20 DEF RemovePV, Goes
<1>21. CASE EndRemovePV
  BY <1>21 DEF EndRemovePV, Goes, NoCommand
<1>22. CASE Close
  <2>1. toStop' \subseteq PVs /\ exposed' \subseteq created
    BY <1>22 DEF Close
  <2>2. isOpen' \in BOOLEAN
    BY <1>22 DEF Close
  <2> QED
    BY <1>22, <2>1, <2>2 DEF Close
<1>23. CASE EndClose
  <2>1. pvMap' \in [Ids -> PVs \cup {NoPV}]
    BY <1>23 DEF EndClose
  <2>2. registered' \in BOOLEAN
    BY <1>23 DEF EndClose
  <2> QED
    BY <1>23, <2>1, <2>2 DEF EndClose
<1>24. ASSUME NEW p \in PVs, StopBegins(p)
      PROVE  TypeOK'
  BY <1>24 DEF StopBegins
<1>25. CASE StopCloses("reader", "closeReader", "closeWriter")
  BY <1>25 DEF StopCloses, StopGoes
<1>26. CASE StopCloses("writer", "closeWriter", "nullReader")
  BY <1>26 DEF StopCloses, StopGoes
<1>27. CASE StopNulls("reader", "nullReader", "nullWriter")
  BY <1>27 DEF StopNulls, StopGoes
<1>28. CASE StopNulls("writer", "nullWriter", "flag")
  BY <1>28 DEF StopNulls, StopGoes
<1>29. CASE StopClearsFlag
  BY <1>29 DEF StopClearsFlag, StopGoes
<1>30. ASSUME NEW p \in PVs, NEW kind \in {"event", "permission"}, Event(kind, p)
      PROVE  TypeOK'
  <2>1. NewTask(kind, p, All) \in Task
    BY <1>30 DEF Task, NewTask, All
  <2>2. tasks' \in Seq(Task)
    BY <1>30, <2>1, SequenceFacts DEF Event
  <2> QED
    BY <1>30, <2>2 DEF Event
<1>31. CASE TakeTask
  BY <1>31 DEF TakeTask, ThreadGoes
<1>32. CASE StartReader
  BY <1>32 DEF StartReader, ThreadGoes, Opens
<1>33. CASE StartWriter
  BY <1>33 DEF StartWriter, ThreadGoes, Opens
<1>34. CASE CountDown
  BY <1>34 DEF CountDown, ThreadGoes
<1>35. CASE ListenerChecks
  <2>1. \A what \in Told : Tell(what) => told' \in [PVs -> Seq(Told)]
    BY <1>35, TellTyping DEF ListenerChecks, ThreadGoes
  <2>2. told' \in [PVs -> Seq(Told)]
    BY <1>35, <2>1 DEF ListenerChecks, Told
  <2> QED
    BY <1>35, <2>2 DEF ListenerChecks, ThreadGoes
<1>36. CASE ListenerFindsNull
  BY <1>36 DEF ListenerFindsNull, ThreadGoes
<1>37. CASE ListenerUses
  <2>1. \A what \in Told : Tell(what) => told' \in [PVs -> Seq(Told)]
    BY <1>37, TellTyping DEF ListenerUses, ThreadGoes
  <2>2. told' \in [PVs -> Seq(Told)]
    BY <1>37, <2>1 DEF ListenerUses, Told
  <2> QED
    BY <1>37, <2>2 DEF ListenerUses, ThreadGoes
<1>38. CASE ListenerSends
  BY <1>38 DEF ListenerSends, ThreadGoes
<1>39. CASE UNCHANGED vars
  BY <1>39 DEF vars
<1> QED
  BY <1>1, <1>2, <1>3, <1>4, <1>5, <1>6, <1>7, <1>8, <1>9, <1>10, <1>11, <1>12, <1>13,
     <1>14, <1>15, <1>16, <1>17, <1>18, <1>19, <1>20, <1>21, <1>22, <1>23, <1>24, <1>25,
     <1>26, <1>27, <1>28, <1>29, <1>30, <1>31, <1>32, <1>33, <1>34, <1>35, <1>36, <1>37,
     <1>38, <1>39 DEF Next, ContainerThread, AddListenerGoesOn, UsePV, Stop,
     NotificationThread, Handles

-----------------------------------------------------------------------------
(* PVs with a task in the queue of the notification thread, and with a start()   *)
(* in it, after a task is appended.                                              *)
LEMMA QueueGrows ==
  ASSUME TypeOK, NEW t \in Task, tasks' = Append(tasks, t)
  PROVE  /\ \A p \in PVs : HasTask(p)' <=> HasTask(p) \/ t.pv = p
         /\ \A p \in PVs : StartQueued(p)' <=> StartQueued(p) \/ (t.kind = "start" /\ t.pv = p)
         /\ OnceQueued /\ (t.kind = "start" => ~StartQueued(t.pv)) => OnceQueued'
<1> DEFINE n == Len(tasks)
<1>1. n \in Nat /\ Len(tasks') = n + 1 /\ tasks'[n + 1] = t /\ \A k \in 1..n : tasks'[k] = tasks[k]
  BY DEF TypeOK
<1>2. \A k \in 1..Len(tasks') : k \in 1..n \/ k = n + 1
  BY <1>1
<1>3. 1..n \subseteq 1..Len(tasks') /\ n + 1 \in 1..Len(tasks') /\ n + 1 \notin 1..n
  BY <1>1
<1> HIDE DEF n
<1>4. \A p \in PVs : HasTask(p)' <=> HasTask(p) \/ t.pv = p
  BY <1>1, <1>2, <1>3 DEF HasTask, n
<1>5. \A p \in PVs : StartQueued(p)' <=> StartQueued(p) \/ (t.kind = "start" /\ t.pv = p)
  BY <1>1, <1>2, <1>3 DEF StartQueued, n
<1>6. OnceQueued /\ (t.kind = "start" => ~StartQueued(t.pv)) => OnceQueued'
  BY <1>1, <1>2, <1>3 DEF OnceQueued, StartQueued, n
<1> QED
  BY <1>4, <1>5, <1>6

(* And after the first task is taken. *)
LEMMA QueueShrinks ==
  ASSUME TypeOK, tasks # <<>>, tasks' = Tail(tasks), NEW t, t = Head(tasks)
  PROVE  /\ t \in Task
         /\ \A p \in PVs : HasTask(p) <=> HasTask(p)' \/ t.pv = p
         /\ \A p \in PVs : StartQueued(p) <=> StartQueued(p)' \/ (t.kind = "start" /\ t.pv = p)
         /\ OnceQueued => OnceQueued' /\ (t.kind = "start" => ~StartQueued(t.pv)')
<1> DEFINE n == Len(tasks)
<1>1. /\ n \in Nat \ {0} /\ Len(tasks') = n - 1 /\ tasks[1] = t
      /\ \A k \in 1..(n - 1) : tasks'[k] = tasks[k + 1]
  BY DEF TypeOK
<1>2. \A k \in 1..n : k = 1 \/ (k - 1 \in 1..(n - 1) /\ (k - 1) + 1 = k)
  BY <1>1
<1>3. \A k \in 1..(n - 1) : k + 1 \in 1..n /\ k + 1 # 1 /\ k \in Int
  BY <1>1
<1>4. t \in Task
  BY SequenceFacts DEF TypeOK
<1>5. \A p \in PVs : HasTask(p) <=> HasTask(p)' \/ t.pv = p
  <2>1. ASSUME NEW p \in PVs, HasTask(p) PROVE HasTask(p)' \/ t.pv = p
    BY <1>1, <1>2, <2>1 DEF HasTask
  <2>2. ASSUME NEW p \in PVs, HasTask(p)' \/ t.pv = p PROVE HasTask(p)
    BY <1>1, <1>3, <2>2 DEF HasTask
  <2> QED
    BY <2>1, <2>2
<1>6. \A p \in PVs : StartQueued(p) <=> StartQueued(p)' \/ (t.kind = "start" /\ t.pv = p)
  <2>1. ASSUME NEW p \in PVs, StartQueued(p) PROVE StartQueued(p)' \/ (t.kind = "start" /\ t.pv = p)
    BY <1>1, <1>2, <2>1 DEF StartQueued
  <2>2. ASSUME NEW p \in PVs, StartQueued(p)' \/ (t.kind = "start" /\ t.pv = p) PROVE StartQueued(p)
    BY <1>1, <1>3, <2>2 DEF StartQueued
  <2> QED
    BY <2>1, <2>2
<1>7. ASSUME OnceQueued PROVE OnceQueued' /\ (t.kind = "start" => ~StartQueued(t.pv)')
  BY <1>1, <1>3, <1>7 DEF OnceQueued, StartQueued
<1> QED
  BY <1>4, <1>5, <1>6, <1>7

(* What the map holds has been created. *)
LEMMA MappedCreated ==
  ASSUME TypeOK, Fresh, NEW i \in Ids, pvMap[i] # NoPV
  PROVE  pvMap[i] \in created /\ pvMap[i] \in PVs /\ Mapped(pvMap[i])
<1>1. pvMap[i] \in PVs /\ Mapped(pvMap[i])
  BY DEF TypeOK, Mapped
<1> QED
  BY <1>1 DEF Fresh, Unknown

(* Nothing changes as long as the queue does not. *)
LEMMA QueueStays ==
  ASSUME tasks' = tasks
  PROVE  /\ \A p \in PVs : HasTask(p)' <=> HasTask(p)
         /\ \A p \in PVs : StartQueued(p)' <=> StartQueued(p)
         /\ OnceQueued' <=> OnceQueued
BY DEF HasTask, StartQueued, OnceQueued

(* A listener that was added later is queued for a PV that is there, *)
LEMMA LaterTask ==
  ASSUME TypeOK, Control, UpdateLater \/ PermissionForLater
  PROVE  /\ cmd.pv \in created
         /\ \A q \in PVs : HasTask(q)' => HasTask(q) \/ q = cmd.pv
         /\ \A q \in PVs : StartQueued(q)' <=> StartQueued(q)
         /\ OnceQueued => OnceQueued'
<1>1. cmd.pv \in created /\ cmd.pv \in PVs
  BY DEF UpdateLater, PermissionForLater, Goes, Control, UsesPV, Busy, TypeOK
<1>2. Len(told[cmd.pv]) \in Nat
  BY <1>1 DEF TypeOK
<1>3. CASE tasks' = tasks
  BY <1>1, <1>3, QueueStays
<1>4. ASSUME NEW kind \in {"update", "permission"},
             tasks' = Append(tasks, NewTask(kind, cmd.pv, Len(told[cmd.pv])))
      PROVE  /\ \A q \in PVs : HasTask(q)' => HasTask(q) \/ q = cmd.pv
             /\ \A q \in PVs : StartQueued(q)' <=> StartQueued(q)
             /\ OnceQueued => OnceQueued'
  <2>1. NewTask(kind, cmd.pv, Len(told[cmd.pv])) \in Task
    BY <1>1, <1>2 DEF Task, NewTask
  <2>2. /\ NewTask(kind, cmd.pv, Len(told[cmd.pv])).pv = cmd.pv
        /\ NewTask(kind, cmd.pv, Len(told[cmd.pv])).kind # "start"
    BY DEF NewTask
  <2> QED
    BY <1>4, <2>1, <2>2, QueueGrows
<1> QED
  BY <1>1, <1>3, <1>4 DEF UpdateLater, PermissionForLater

(* an event for a PV whose reader or writer is open, *)
LEMMA EventTask ==
  ASSUME TypeOK, NEW p \in PVs, NEW kind \in {"event", "permission"}, Event(kind, p)
  PROVE  /\ \A q \in PVs : HasTask(q)' => HasTask(q) \/ q = p
         /\ \A q \in PVs : StartQueued(q)' <=> StartQueued(q)
         /\ OnceQueued => OnceQueued'
<1>1. NewTask(kind, p, All) \in Task
  BY DEF Task, NewTask, All
<1>2. NewTask(kind, p, All).pv = p /\ NewTask(kind, p, All).kind # "start"
  BY DEF NewTask
<1> QED
  BY <1>1, <1>2, QueueGrows DEF Event

(* and start() for the PV of the command that has created it. *)
LEMMA StartTask ==
  ASSUME TypeOK, Control, Start
  PROVE  /\ cmd.pv \in created
         /\ \A q \in PVs : HasTask(q)' <=> HasTask(q) \/ (cmd.isNew /\ q = cmd.pv)
         /\ \A q \in PVs : StartQueued(q)' <=> StartQueued(q) \/ (cmd.isNew /\ q = cmd.pv)
         /\ OnceQueued /\ ~StartQueued(cmd.pv) => OnceQueued'
<1>1. cmd.pv \in created /\ cmd.pv \in PVs
  BY DEF Start, Goes, Control, UsesPV, Busy, TypeOK
<1>2. CASE ~cmd.isNew
  BY <1>1, <1>2, QueueStays DEF Start
<1>3. CASE cmd.isNew
  <2>1. NewTask("start", cmd.pv, All) \in Task
    BY <1>1 DEF Task, NewTask, All
  <2>2. NewTask("start", cmd.pv, All).pv = cmd.pv /\ NewTask("start", cmd.pv, All).kind = "start"
    BY DEF NewTask
  <2> QED
    BY <1>1, <1>3, <2>1, <2>2, QueueGrows DEF Start
<1> QED
  BY <1>2, <1>3

(* The start() in the queue is a task of its PV. *)
LEMMA StartIsTask ==
  ASSUME NEW p, StartQueued(p)
  PROVE  HasTask(p)
BY DEF StartQueued, HasTask

-----------------------------------------------------------------------------
(* Every step of a thread leaves it where Control says.                          *)
LEMMA ControlStep ==
  ASSUME TypeOK, Control, Fresh, [Next]_vars
  PROVE  Control'
<1> USE PVsAssumption DEF TypeOK, Control, UsesPV, Busy, StartPC, CommandPC, Op, Handles,
        session, sessionVars, stopVars, pvVars, fieldVars, readerVars, threadVars, madeVars,
        cmdVars, logVars
<1>1. ASSUME NEW op \in Op, NEW i \in Ids, Begin(op, i)
      PROVE  Control'
  BY <1>1 DEF Begin
<1>2. CASE GetPV
  <2>1. CASE pvMap[cmd.id] # NoPV
    <3>1. pvMap[cmd.id] \in created
      BY <1>2, <2>1, MappedCreated DEF GetPV
    <3> QED
      BY <1>2, <2>1, <3>1 DEF GetPV
  <2>2. CASE pvMap[cmd.id] = NoPV /\ cmd.op = "create"
    <3>1. PICK new \in PVs \ created :
             cmd' = [cmd EXCEPT !.pv = new, !.isNew = TRUE]
             /\ created' = created \cup {new} /\ cpc' = "addPV"
      BY <1>2, <2>2 DEF GetPV
    <3> QED
      BY <1>2, <2>2, <3>1 DEF GetPV
  <2>3. CASE pvMap[cmd.id] = NoPV /\ cmd.op # "create"
    <3>1. cpc' = "idle" /\ cmd' = NoCommand /\ created' = created
      BY <1>2, <2>3 DEF GetPV
    <3> QED
      BY <1>2, <3>1 DEF GetPV, NoCommand
  <2> QED
    BY <2>1, <2>2, <2>3
<1>3. CASE AddPV
  BY <1>3 DEF AddPV, Goes
<1>4. CASE AddListener
  BY <1>4 DEF AddListener, Goes
<1>5. CASE CheckField("reader", "checkReader", "useReader", "checkWriter")
  BY <1>5 DEF CheckField, Goes, NoCommand
<1>6. CASE CheckField("writer", "checkWriter", "useWriter", "start")
  BY <1>6 DEF CheckField, Goes, NoCommand
<1>7. CASE cmd.op \in {"pause", "resume"} /\ CheckField("reader", "check", "use", "idle")
  BY <1>7 DEF CheckField, Goes, NoCommand
<1>8. CASE cmd.op = "write" /\ CheckField("writer", "check", "use", "idle")
  BY <1>8 DEF CheckField, Goes, NoCommand
<1>9. CASE FindsNull("reader", "useReader")
  BY <1>9 DEF FindsNull, Goes, NoCommand
<1>10. CASE FindsNull("writer", "useWriter")
  BY <1>10 DEF FindsNull, Goes, NoCommand
<1>11. CASE cmd.op \in {"pause", "resume"} /\ FindsNull("reader", "use")
  BY <1>11 DEF FindsNull, Goes, NoCommand
<1>12. CASE cmd.op = "write" /\ FindsNull("writer", "use")
  BY <1>12 DEF FindsNull, Goes, NoCommand
<1>13. CASE UpdateLater
  BY <1>13 DEF UpdateLater, Goes, NewTask
<1>14. CASE PermissionForLater
  BY <1>14 DEF PermissionForLater, Goes, NewTask
<1>15. CASE Start
  BY <1>15 DEF Start, Goes, NewTask, NoCommand, All
<1>16. CASE StartReturns
  BY <1>16 DEF StartReturns, Goes, NoCommand
<1>17. CASE StartTimesOut
  BY <1>17 DEF StartTimesOut, Goes, NoCommand
<1>18. CASE SetPaused
  BY <1>18 DEF SetPaused, Goes, NoCommand
<1>19. CASE SetValue
  BY <1>19 DEF SetValue, Goes, NoCommand
<1>20. CASE RemovePV
  BY <1>20 DEF RemovePV, Goes
<1>21. CASE EndRemovePV
  BY <1>21 DEF EndRemovePV, Goes, NoCommand
<1>22. CASE Close
  BY <1>22 DEF Close, Creating
<1>23. CASE EndClose
  BY <1>23 DEF EndClose
<1>24. ASSUME NEW p \in PVs, StopBegins(p)
      PROVE  Control'
  BY <1>24 DEF StopBegins
<1>25. CASE StopCloses("reader", "closeReader", "closeWriter")
  BY <1>25 DEF StopCloses, StopGoes
<1>26. CASE StopCloses("writer", "closeWriter", "nullReader")
  BY <1>26 DEF StopCloses, StopGoes
<1>27. CASE StopNulls("reader", "nullReader", "nullWriter")
  BY <1>27 DEF StopNulls, StopGoes
<1>28. CASE StopNulls("writer", "nullWriter", "flag")
  BY <1>28 DEF StopNulls, StopGoes
<1>29. CASE StopClearsFlag
  BY <1>29 DEF StopClearsFlag, StopGoes
<1>30. ASSUME NEW p \in PVs, NEW kind \in {"event", "permission"}, Event(kind, p)
      PROVE  Control'
  BY <1>30 DEF Event, NewTask, All, HandleOf
<1>31. CASE TakeTask
  <2>1. Head(tasks) \in Task /\ HasTask(Head(tasks).pv)
    BY <1>31, QueueShrinks DEF TakeTask, Task
  <2>2. Head(tasks).pv \in created
    BY <2>1 DEF Fresh, Unknown, Task
  <2> QED
    BY <1>31, <2>1, <2>2 DEF TakeTask, ThreadGoes
<1>32. CASE StartReader
  BY <1>32 DEF StartReader, ThreadGoes, Opens
<1>33. CASE StartWriter
  BY <1>33 DEF StartWriter, ThreadGoes, Opens
<1>34. CASE CountDown
  BY <1>34 DEF CountDown, ThreadGoes
<1>35. CASE ListenerChecks
  BY <1>35 DEF ListenerChecks, ThreadGoes, Tell
<1>36. CASE ListenerFindsNull
  BY <1>36 DEF ListenerFindsNull, ThreadGoes
<1>37. CASE ListenerUses
  BY <1>37 DEF ListenerUses, ThreadGoes, Tell
<1>38. CASE ListenerSends
  BY <1>38 DEF ListenerSends, ThreadGoes
<1>39. CASE UNCHANGED vars
  BY <1>39 DEF vars
<1> QED
  BY <1>1, <1>2, <1>3, <1>4, <1>5, <1>6, <1>7, <1>8, <1>9, <1>10, <1>11, <1>12, <1>13,
     <1>14, <1>15, <1>16, <1>17, <1>18, <1>19, <1>20, <1>21, <1>22, <1>23, <1>24, <1>25,
     <1>26, <1>27, <1>28, <1>29, <1>30, <1>31, <1>32, <1>33, <1>34, <1>35, <1>36, <1>37,
     <1>38, <1>39 DEF Next, ContainerThread, AddListenerGoesOn, UsePV, Stop,
     NotificationThread, Handles

(* Threads get to know a PV only after addPV(): the map, a task or a monitor.    *)
LEMMA FreshStep ==
  ASSUME TypeOK, Control, Fresh, [Next]_vars
  PROVE  Fresh'
<1> SUFFICES ASSUME NEW p \in PVs, p \notin created' \/ (cpc' = "addPV" /\ cmd'.pv = p)
             PROVE  Unknown(p)'
  BY DEF Fresh
<1> USE PVsAssumption DEF TypeOK, Control, UsesPV, Busy, StartPC, Fresh, Unknown, Mapped,
        Handles, Range, session, sessionVars, stopVars, pvVars, fieldVars, readerVars,
        threadVars, madeVars, cmdVars, logVars
<1>1. ASSUME NEW op \in Op, NEW i \in Ids, Begin(op, i)
      PROVE  Unknown(p)'
  BY <1>1, QueueStays DEF Begin
<1>2. CASE GetPV
  <2>1. CASE cpc' # "addPV"
    <3>1. p \notin created
      BY <1>2, <2>1 DEF GetPV
    <3> QED
      BY <1>2, <3>1, QueueStays DEF GetPV, Fresh
  <2>2. CASE cpc' = "addPV"
    <3>1. PICK new \in PVs \ created :
             cmd' = [cmd EXCEPT !.pv = new, !.isNew = TRUE] /\ created' = created \cup {new}
      BY <1>2, <2>2 DEF GetPV
    <3>2. p \notin created
      BY <1>2, <3>1
    <3> QED
      BY <1>2, <3>2, QueueStays DEF GetPV, Fresh
  <2> QED
    BY <2>1, <2>2
<1>3. CASE AddPV
  BY <1>3, QueueStays DEF AddPV, Goes
<1>4. CASE AddListener
  BY <1>4, QueueStays DEF AddListener, Goes
<1>5. CASE CheckField("reader", "checkReader", "useReader", "checkWriter")
  BY <1>5, QueueStays DEF CheckField, Goes, NoCommand
<1>6. CASE CheckField("writer", "checkWriter", "useWriter", "start")
  BY <1>6, QueueStays DEF CheckField, Goes, NoCommand
<1>7. CASE cmd.op \in {"pause", "resume"} /\ CheckField("reader", "check", "use", "idle")
  BY <1>7, QueueStays DEF CheckField, Goes, NoCommand
<1>8. CASE cmd.op = "write" /\ CheckField("writer", "check", "use", "idle")
  BY <1>8, QueueStays DEF CheckField, Goes, NoCommand
<1>9. CASE FindsNull("reader", "useReader")
  BY <1>9, QueueStays DEF FindsNull, Goes, NoCommand
<1>10. CASE FindsNull("writer", "useWriter")
  BY <1>10, QueueStays DEF FindsNull, Goes, NoCommand
<1>11. CASE cmd.op \in {"pause", "resume"} /\ FindsNull("reader", "use")
  BY <1>11, QueueStays DEF FindsNull, Goes, NoCommand
<1>12. CASE cmd.op = "write" /\ FindsNull("writer", "use")
  BY <1>12, QueueStays DEF FindsNull, Goes, NoCommand
<1>13. CASE UpdateLater
  BY <1>13, LaterTask DEF UpdateLater, Goes, NewTask
<1>14. CASE PermissionForLater
  BY <1>14, LaterTask DEF PermissionForLater, Goes, NewTask
<1>15. CASE Start
  <2>1. cpc' # "addPV" /\ created' = created
    BY <1>15 DEF Start, Goes
  <2>2. Unknown(p) /\ p # cmd.pv
    BY <1>15, <2>1, StartTask
  <2>3. ~HasTask(p)'
    BY <1>15, <2>2, StartTask
  <2>4. UNCHANGED <<pvMap, npc, task, toStop, stopPC, stopping, failed, latched, handle>>
    BY <1>15 DEF Start, Goes
  <2>5. ~startFlag'[p]
    BY <1>15, <2>2 DEF Start
  <2> QED
    BY <2>2, <2>3, <2>4, <2>5
<1>16. CASE StartReturns
  BY <1>16, QueueStays DEF StartReturns, Goes, NoCommand
<1>17. CASE StartTimesOut
  BY <1>17, QueueStays DEF StartTimesOut, Goes, NoCommand
<1>18. CASE SetPaused
  BY <1>18, QueueStays DEF SetPaused, Goes, NoCommand
<1>19. CASE SetValue
  BY <1>19, QueueStays DEF SetValue, Goes, NoCommand
<1>20. CASE RemovePV
  BY <1>20, QueueStays DEF RemovePV, Goes
<1>21. CASE EndRemovePV
  BY <1>21, QueueStays DEF EndRemovePV, Goes, NoCommand
<1>22. CASE Close
  BY <1>22, QueueStays DEF Close, Creating
<1>23. CASE EndClose
  BY <1>23, QueueStays DEF EndClose
<1>24. ASSUME NEW s \in PVs, StopBegins(s)
      PROVE  Unknown(p)'
  BY <1>24, QueueStays DEF StopBegins
<1>25. CASE StopCloses("reader", "closeReader", "closeWriter")
  BY <1>25, QueueStays DEF StopCloses, StopGoes
<1>26. CASE StopCloses("writer", "closeWriter", "nullReader")
  BY <1>26, QueueStays DEF StopCloses, StopGoes
<1>27. CASE StopNulls("reader", "nullReader", "nullWriter")
  BY <1>27, QueueStays DEF StopNulls, StopGoes
<1>28. CASE StopNulls("writer", "nullWriter", "flag")
  BY <1>28, QueueStays DEF StopNulls, StopGoes
<1>29. CASE StopClearsFlag
  BY <1>29, QueueStays DEF StopClearsFlag, StopGoes
<1>30. ASSUME NEW s \in PVs, NEW kind \in {"event", "permission"}, Event(kind, s)
      PROVE  Unknown(p)'
  <2>1. HasTask(p)' => HasTask(p) \/ p = s
    <3> HIDE DEF TypeOK, Control, Fresh, Unknown
    <3> QED
      BY <1>30, EventTask
  <2> QED
    BY <1>30, <2>1 DEF Event, HandleOf
<1>31. CASE TakeTask
  BY <1>31, QueueShrinks DEF TakeTask, ThreadGoes
<1>32. CASE StartReader
  BY <1>32, QueueStays DEF StartReader, ThreadGoes, Opens
<1>33. CASE StartWriter
  BY <1>33, QueueStays DEF StartWriter, ThreadGoes, Opens
<1>34. CASE CountDown
  BY <1>34, QueueStays DEF CountDown, ThreadGoes
<1>35. CASE ListenerChecks
  BY <1>35, QueueStays DEF ListenerChecks, ThreadGoes, Tell
<1>36. CASE ListenerFindsNull
  BY <1>36, QueueStays DEF ListenerFindsNull, ThreadGoes
<1>37. CASE ListenerUses
  BY <1>37, QueueStays DEF ListenerUses, ThreadGoes, Tell
<1>38. CASE ListenerSends
  BY <1>38, QueueStays DEF ListenerSends, ThreadGoes
<1>39. CASE UNCHANGED vars
  BY <1>39, QueueStays DEF vars
<1> QED
  BY <1>1, <1>2, <1>3, <1>4, <1>5, <1>6, <1>7, <1>8, <1>9, <1>10, <1>11, <1>12, <1>13,
     <1>14, <1>15, <1>16, <1>17, <1>18, <1>19, <1>20, <1>21, <1>22, <1>23, <1>24, <1>25,
     <1>26, <1>27, <1>28, <1>29, <1>30, <1>31, <1>32, <1>33, <1>34, <1>35, <1>36, <1>37,
     <1>38, <1>39 DEF Next, ContainerThread, AddListenerGoesOn, UsePV, Stop,
     NotificationThread, Handles

(* addPV() enters a PV that no id has, and removePV() stops the PV of its id.    *)
LEMMA MappingStep ==
  ASSUME TypeOK, Control, Fresh, Mapping, [Next]_vars
  PROVE  Mapping'
<1> USE PVsAssumption DEF TypeOK, Control, UsesPV, Busy, StartPC, Fresh, Unknown, Mapping,
        Mapped, Handles, Range, session, sessionVars, stopVars, pvVars, fieldVars,
        readerVars, threadVars, madeVars, cmdVars, logVars
<1>1. ASSUME NEW op \in Op, NEW i \in Ids, Begin(op, i)
      PROVE  Mapping'
  BY <1>1 DEF Begin
<1>2. CASE GetPV
  <2>1. /\ monitor = "free" /\ cpc = "getPV" /\ cpc' \in {"addListener", "check", "addPV", "idle"}
        /\ UNCHANGED <<isOpen, pvMap, monitor, toStop, stopPC, stopping, field, tasks, task,
                       npc, failed>>
    BY <1>2 DEF GetPV
  <2>2. cpc' = "addPV" => cmd'.id = cmd.id /\ pvMap[cmd.id] = NoPV
    BY <1>2 DEF GetPV
  <2> QED
    BY <2>1, <2>2
<1>3. CASE AddPV
  BY <1>3 DEF AddPV, Goes
<1>4. CASE AddListener
  BY <1>4 DEF AddListener, Goes
<1>5. CASE CheckField("reader", "checkReader", "useReader", "checkWriter")
  BY <1>5 DEF CheckField, Goes, NoCommand
<1>6. CASE CheckField("writer", "checkWriter", "useWriter", "start")
  BY <1>6 DEF CheckField, Goes, NoCommand
<1>7. CASE cmd.op \in {"pause", "resume"} /\ CheckField("reader", "check", "use", "idle")
  BY <1>7 DEF CheckField, Goes, NoCommand
<1>8. CASE cmd.op = "write" /\ CheckField("writer", "check", "use", "idle")
  BY <1>8 DEF CheckField, Goes, NoCommand
<1>9. CASE FindsNull("reader", "useReader")
  BY <1>9 DEF FindsNull, Goes, NoCommand
<1>10. CASE FindsNull("writer", "useWriter")
  BY <1>10 DEF FindsNull, Goes, NoCommand
<1>11. CASE cmd.op \in {"pause", "resume"} /\ FindsNull("reader", "use")
  BY <1>11 DEF FindsNull, Goes, NoCommand
<1>12. CASE cmd.op = "write" /\ FindsNull("writer", "use")
  BY <1>12 DEF FindsNull, Goes, NoCommand
<1>13. CASE UpdateLater
  BY <1>13 DEF UpdateLater, Goes, NewTask
<1>14. CASE PermissionForLater
  BY <1>14 DEF PermissionForLater, Goes, NewTask
<1>15. CASE Start
  BY <1>15 DEF Start, Goes, NewTask, NoCommand, All
<1>16. CASE StartReturns
  BY <1>16 DEF StartReturns, Goes, NoCommand
<1>17. CASE StartTimesOut
  BY <1>17 DEF StartTimesOut, Goes, NoCommand
<1>18. CASE SetPaused
  BY <1>18 DEF SetPaused, Goes, NoCommand
<1>19. CASE SetValue
  BY <1>19 DEF SetValue, Goes, NoCommand
<1>20. CASE RemovePV
  BY <1>20 DEF RemovePV, Goes
<1>21. CASE EndRemovePV
  BY <1>21 DEF EndRemovePV, Goes, NoCommand
<1>22. CASE Close
  BY <1>22 DEF Close, Creating
<1>23. CASE EndClose
  BY <1>23 DEF EndClose
<1>24. ASSUME NEW p \in PVs, StopBegins(p)
      PROVE  Mapping'
  BY <1>24 DEF StopBegins
<1>25. CASE StopCloses("reader", "closeReader", "closeWriter")
  BY <1>25 DEF StopCloses, StopGoes
<1>26. CASE StopCloses("writer", "closeWriter", "nullReader")
  BY <1>26 DEF StopCloses, StopGoes
<1>27. CASE StopNulls("reader", "nullReader", "nullWriter")
  BY <1>27 DEF StopNulls, StopGoes
<1>28. CASE StopNulls("writer", "nullWriter", "flag")
  BY <1>28 DEF StopNulls, StopGoes
<1>29. CASE StopClearsFlag
  BY <1>29 DEF StopClearsFlag, StopGoes
<1>30. ASSUME NEW p \in PVs, NEW kind \in {"event", "permission"}, Event(kind, p)
      PROVE  Mapping'
  BY <1>30 DEF Event, NewTask, All, HandleOf
<1>31. CASE TakeTask
  BY <1>31 DEF TakeTask, ThreadGoes
<1>32. CASE StartReader
  BY <1>32 DEF StartReader, ThreadGoes, Opens
<1>33. CASE StartWriter
  BY <1>33 DEF StartWriter, ThreadGoes, Opens
<1>34. CASE CountDown
  BY <1>34 DEF CountDown, ThreadGoes
<1>35. CASE ListenerChecks
  BY <1>35 DEF ListenerChecks, ThreadGoes, Tell
<1>36. CASE ListenerFindsNull
  BY <1>36 DEF ListenerFindsNull, ThreadGoes
<1>37. CASE ListenerUses
  BY <1>37 DEF ListenerUses, ThreadGoes, Tell
<1>38. CASE ListenerSends
  BY <1>38 DEF ListenerSends, ThreadGoes
<1>39. CASE UNCHANGED vars
  BY <1>39 DEF vars
<1> QED
  BY <1>1, <1>2, <1>3, <1>4, <1>5, <1>6, <1>7, <1>8, <1>9, <1>10, <1>11, <1>12, <1>13,
     <1>14, <1>15, <1>16, <1>17, <1>18, <1>19, <1>20, <1>21, <1>22, <1>23, <1>24, <1>25,
     <1>26, <1>27, <1>28, <1>29, <1>30, <1>31, <1>32, <1>33, <1>34, <1>35, <1>36, <1>37,
     <1>38, <1>39 DEF Next, ContainerThread, AddListenerGoesOn, UsePV, Stop,
     NotificationThread, Handles

(* While the session is open, stop() is on the way of removePV() only: on the    *)
(* container thread, which uses no field then, for the PV of its command.        *)
LEMMA UsesStep ==
  ASSUME TypeOK, Control, Fresh, Mapping, Uses, [Next]_vars
  PROVE  Uses'
<1> USE PVsAssumption DEF TypeOK, Control, UsesPV, Busy, StartPC, Fresh, Unknown, Mapping,
        Uses, GivenUp, Mapped, Handles, HandleOf, Range, session, sessionVars, stopVars,
        pvVars, fieldVars, readerVars, threadVars, madeVars, cmdVars, logVars
<1>1. ASSUME NEW op \in Op, NEW i \in Ids, Begin(op, i)
      PROVE  Uses'
  BY <1>1 DEF Begin
<1>2. CASE GetPV
  <2>1. /\ monitor = "free" /\ cpc = "getPV" /\ cpc' \in {"addListener", "check", "addPV", "idle"}
        /\ UNCHANGED <<isOpen, pvMap, monitor, toStop, stopPC, stopping, field, tasks, task,
                       npc, failed>>
    BY <1>2 DEF GetPV
  <2>2. cpc' = "addPV" => cmd'.id = cmd.id /\ pvMap[cmd.id] = NoPV
    BY <1>2 DEF GetPV
  <2> QED
    BY <2>1, <2>2
<1>3. CASE AddPV
  BY <1>3 DEF AddPV, Goes
<1>4. CASE AddListener
  BY <1>4 DEF AddListener, Goes
<1>5. CASE CheckField("reader", "checkReader", "useReader", "checkWriter")
  BY <1>5 DEF CheckField, Goes, NoCommand
<1>6. CASE CheckField("writer", "checkWriter", "useWriter", "start")
  BY <1>6 DEF CheckField, Goes, NoCommand
<1>7. CASE cmd.op \in {"pause", "resume"} /\ CheckField("reader", "check", "use", "idle")
  BY <1>7 DEF CheckField, Goes, NoCommand
<1>8. CASE cmd.op = "write" /\ CheckField("writer", "check", "use", "idle")
  BY <1>8 DEF CheckField, Goes, NoCommand
<1>9. CASE FindsNull("reader", "useReader")
  BY <1>9 DEF FindsNull, Goes, NoCommand
<1>10. CASE FindsNull("writer", "useWriter")
  BY <1>10 DEF FindsNull, Goes, NoCommand
<1>11. CASE cmd.op \in {"pause", "resume"} /\ FindsNull("reader", "use")
  BY <1>11 DEF FindsNull, Goes, NoCommand
<1>12. CASE cmd.op = "write" /\ FindsNull("writer", "use")
  BY <1>12 DEF FindsNull, Goes, NoCommand
<1>13. CASE UpdateLater
  BY <1>13 DEF UpdateLater, Goes, NewTask
<1>14. CASE PermissionForLater
  BY <1>14 DEF PermissionForLater, Goes, NewTask
<1>15. CASE Start
  BY <1>15 DEF Start, Goes, NewTask, NoCommand, All
<1>16. CASE StartReturns
  BY <1>16 DEF StartReturns, Goes, NoCommand
<1>17. CASE StartTimesOut
  BY <1>17 DEF StartTimesOut, Goes, NoCommand
<1>18. CASE SetPaused
  BY <1>18 DEF SetPaused, Goes, NoCommand
<1>19. CASE SetValue
  BY <1>19 DEF SetValue, Goes, NoCommand
<1>20. CASE RemovePV
  BY <1>20 DEF RemovePV, Goes
<1>21. CASE EndRemovePV
  BY <1>21 DEF EndRemovePV, Goes, NoCommand
<1>22. CASE Close
  BY <1>22 DEF Close, Creating
<1>23. CASE EndClose
  BY <1>23 DEF EndClose
<1>24. ASSUME NEW p \in PVs, StopBegins(p)
      PROVE  Uses'
  BY <1>24 DEF StopBegins
<1>25. CASE StopCloses("reader", "closeReader", "closeWriter")
  BY <1>25 DEF StopCloses, StopGoes
<1>26. CASE StopCloses("writer", "closeWriter", "nullReader")
  BY <1>26 DEF StopCloses, StopGoes
<1>27. CASE StopNulls("reader", "nullReader", "nullWriter")
  BY <1>27 DEF StopNulls, StopGoes
<1>28. CASE StopNulls("writer", "nullWriter", "flag")
  BY <1>28 DEF StopNulls, StopGoes
<1>29. CASE StopClearsFlag
  BY <1>29 DEF StopClearsFlag, StopGoes
<1>30. ASSUME NEW p \in PVs, NEW kind \in {"event", "permission"}, Event(kind, p)
      PROVE  Uses'
  BY <1>30 DEF Event, NewTask, All, HandleOf
<1>31. CASE TakeTask
  BY <1>31 DEF TakeTask, ThreadGoes
<1>32. CASE StartReader
  BY <1>32 DEF StartReader, ThreadGoes, Opens
<1>33. CASE StartWriter
  BY <1>33 DEF StartWriter, ThreadGoes, Opens
<1>34. CASE CountDown
  BY <1>34 DEF CountDown, ThreadGoes
<1>35. CASE ListenerChecks
  BY <1>35 DEF ListenerChecks, ThreadGoes, Tell
<1>36. CASE ListenerFindsNull
  BY <1>36 DEF ListenerFindsNull, ThreadGoes
<1>37. CASE ListenerUses
  BY <1>37 DEF ListenerUses, ThreadGoes, Tell
<1>38. CASE ListenerSends
  BY <1>38 DEF ListenerSends, ThreadGoes
<1>39. CASE UNCHANGED vars
  BY <1>39 DEF vars
<1> QED
  BY <1>1, <1>2, <1>3, <1>4, <1>5, <1>6, <1>7, <1>8, <1>9, <1>10, <1>11, <1>12, <1>13,
     <1>14, <1>15, <1>16, <1>17, <1>18, <1>19, <1>20, <1>21, <1>22, <1>23, <1>24, <1>25,
     <1>26, <1>27, <1>28, <1>29, <1>30, <1>31, <1>32, <1>33, <1>34, <1>35, <1>36, <1>37,
     <1>38, <1>39 DEF Next, ContainerThread, AddListenerGoesOn, UsePV, Stop,
     NotificationThread, Handles

(* Only the command that has created a PV appends its start(), once.             *)
LEMMA OnceStep ==
  ASSUME TypeOK, Control, Fresh, Once, [Next]_vars
  PROVE  Once'
<1> USE PVsAssumption DEF TypeOK, Control, UsesPV, Busy, StartPC, Once, InStart, IsNew,
        session, sessionVars, stopVars, pvVars, fieldVars, readerVars, threadVars, madeVars,
        cmdVars, logVars
<1>1. ASSUME NEW op \in Op, NEW i \in Ids, Begin(op, i)
      PROVE  Once'
  BY <1>1, QueueStays DEF Begin
<1>2. CASE GetPV
  <2>1. cpc = "getPV" /\ cpc' \in {"addListener", "check", "addPV", "idle"}
        /\ UNCHANGED <<tasks, task, npc, latched>>
    BY <1>2 DEF GetPV
  <2>2. cpc' = "addListener" => ~cmd'.isNew
    BY <1>2 DEF GetPV
  <2>3. cpc' = "addPV" => cmd'.pv \in PVs \ created
    BY <1>2 DEF GetPV
  <2>4. cpc' = "addPV" => ~InStart(cmd'.pv) /\ cmd'.pv \notin latched
    BY <2>3, StartIsTask DEF Fresh, Unknown
  <2> QED
    BY <2>1, <2>2, <2>3, <2>4, QueueStays
<1>3. CASE AddPV
  BY <1>3, QueueStays DEF AddPV, Goes
<1>4. CASE AddListener
  BY <1>4, QueueStays DEF AddListener, Goes
<1>5. CASE CheckField("reader", "checkReader", "useReader", "checkWriter")
  BY <1>5, QueueStays DEF CheckField, Goes, NoCommand
<1>6. CASE CheckField("writer", "checkWriter", "useWriter", "start")
  BY <1>6, QueueStays DEF CheckField, Goes, NoCommand
<1>7. CASE cmd.op \in {"pause", "resume"} /\ CheckField("reader", "check", "use", "idle")
  BY <1>7, QueueStays DEF CheckField, Goes, NoCommand
<1>8. CASE cmd.op = "write" /\ CheckField("writer", "check", "use", "idle")
  BY <1>8, QueueStays DEF CheckField, Goes, NoCommand
<1>9. CASE FindsNull("reader", "useReader")
  BY <1>9, QueueStays DEF FindsNull, Goes, NoCommand
<1>10. CASE FindsNull("writer", "useWriter")
  BY <1>10, QueueStays DEF FindsNull, Goes, NoCommand
<1>11. CASE cmd.op \in {"pause", "resume"} /\ FindsNull("reader", "use")
  BY <1>11, QueueStays DEF FindsNull, Goes, NoCommand
<1>12. CASE cmd.op = "write" /\ FindsNull("writer", "use")
  BY <1>12, QueueStays DEF FindsNull, Goes, NoCommand
<1>13. CASE UpdateLater
  BY <1>13, LaterTask DEF UpdateLater, Goes, NewTask
<1>14. CASE PermissionForLater
  BY <1>14, LaterTask DEF PermissionForLater, Goes, NewTask
<1>15. CASE Start
  <2>1. CASE ~cmd.isNew
    BY <1>15, <2>1, QueueStays DEF Start, Goes, NoCommand
  <2>2. CASE cmd.isNew
    <3>1. cpc = "start" /\ cpc' = "await" /\ UNCHANGED <<task, npc, latched>> /\ cmd' = cmd
      BY <1>15, <2>2 DEF Start, Goes
    <3>2. cmd.pv \in PVs /\ ~InStart(cmd.pv) /\ cmd.pv \notin latched
      BY <2>2, <3>1
    <3>3. OnceQueued' /\ \A q \in PVs : StartQueued(q)' <=> StartQueued(q) \/ q = cmd.pv
      <4> HIDE DEF TypeOK, Control
      <4> QED
        BY <1>15, <2>2, <3>2, StartTask
    <3> QED
      BY <3>1, <3>2, <3>3
  <2> QED
    BY <2>1, <2>2
<1>16. CASE StartReturns
  BY <1>16, QueueStays DEF StartReturns, Goes, NoCommand
<1>17. CASE StartTimesOut
  BY <1>17, QueueStays DEF StartTimesOut, Goes, NoCommand
<1>18. CASE SetPaused
  BY <1>18, QueueStays DEF SetPaused, Goes, NoCommand
<1>19. CASE SetValue
  BY <1>19, QueueStays DEF SetValue, Goes, NoCommand
<1>20. CASE RemovePV
  BY <1>20, QueueStays DEF RemovePV, Goes
<1>21. CASE EndRemovePV
  BY <1>21, QueueStays DEF EndRemovePV, Goes, NoCommand
<1>22. CASE Close
  BY <1>22, QueueStays DEF Close, Creating
<1>23. CASE EndClose
  BY <1>23, QueueStays DEF EndClose
<1>24. ASSUME NEW p \in PVs, StopBegins(p)
      PROVE  Once'
  BY <1>24, QueueStays DEF StopBegins
<1>25. CASE StopCloses("reader", "closeReader", "closeWriter")
  BY <1>25, QueueStays DEF StopCloses, StopGoes
<1>26. CASE StopCloses("writer", "closeWriter", "nullReader")
  BY <1>26, QueueStays DEF StopCloses, StopGoes
<1>27. CASE StopNulls("reader", "nullReader", "nullWriter")
  BY <1>27, QueueStays DEF StopNulls, StopGoes
<1>28. CASE StopNulls("writer", "nullWriter", "flag")
  BY <1>28, QueueStays DEF StopNulls, StopGoes
<1>29. CASE StopClearsFlag
  BY <1>29, QueueStays DEF StopClearsFlag, StopGoes
<1>30. ASSUME NEW p \in PVs, NEW kind \in {"event", "permission"}, Event(kind, p)
      PROVE  Once'
  BY <1>30, EventTask DEF Event, NewTask, All, HandleOf
<1>31. CASE TakeTask
  BY <1>31, QueueShrinks DEF TakeTask, ThreadGoes
<1>32. CASE StartReader
  BY <1>32, QueueStays DEF StartReader, ThreadGoes, Opens
<1>33. CASE StartWriter
  BY <1>33, QueueStays DEF StartWriter, ThreadGoes, Opens
<1>34. CASE CountDown
  BY <1>34, QueueStays DEF CountDown, ThreadGoes
<1>35. CASE ListenerChecks
  BY <1>35, QueueStays DEF ListenerChecks, ThreadGoes, Tell
<1>36. CASE ListenerFindsNull
  BY <1>36, QueueStays DEF ListenerFindsNull, ThreadGoes
<1>37. CASE ListenerUses
  BY <1>37, QueueStays DEF ListenerUses, ThreadGoes, Tell
<1>38. CASE ListenerSends
  BY <1>38, QueueStays DEF ListenerSends, ThreadGoes
<1>39. CASE UNCHANGED vars
  BY <1>39, QueueStays DEF vars
<1> QED
  BY <1>1, <1>2, <1>3, <1>4, <1>5, <1>6, <1>7, <1>8, <1>9, <1>10, <1>11, <1>12, <1>13,
     <1>14, <1>15, <1>16, <1>17, <1>18, <1>19, <1>20, <1>21, <1>22, <1>23, <1>24, <1>25,
     <1>26, <1>27, <1>28, <1>29, <1>30, <1>31, <1>32, <1>33, <1>34, <1>35, <1>36, <1>37,
     <1>38, <1>39 DEF Next, ContainerThread, AddListenerGoesOn, UsePV, Stop,
     NotificationThread, Handles

(* A new PV is started, as nothing else can end its command, and stays so until  *)
(* removePV().                                                                   *)
LEMMA ServesStep ==
  ASSUME TypeOK, Control, Fresh, Mapping, Uses, Serves, [Next]_vars
  PROVE  Serves'
<1> USE PVsAssumption DEF TypeOK, Control, UsesPV, Busy, StartPC, Fresh, Mapping, Uses,
        Serves, Running, IsOpen, IsNew, Handles, session, sessionVars, stopVars, pvVars,
        fieldVars, readerVars, threadVars, madeVars, cmdVars, logVars
<1>1. ASSUME NEW op \in Op, NEW i \in Ids, Begin(op, i)
      PROVE  Serves'
  BY <1>1, QueueStays DEF Begin
<1>2. CASE GetPV
  <2>1. cpc = "getPV" /\ monitor = "free"
        /\ UNCHANGED <<isOpen, pvMap, monitor, toStop, stopPC, stopping, startFlag, field,
                       handle, tasks, task, npc, exposed>>
    BY <1>2 DEF GetPV
  <2> QED
    BY <2>1, QueueStays
<1>3. CASE AddPV
  BY <1>3, QueueStays DEF AddPV, Goes
<1>4. CASE AddListener
  BY <1>4, QueueStays DEF AddListener, Goes
<1>5. CASE CheckField("reader", "checkReader", "useReader", "checkWriter")
  BY <1>5, QueueStays DEF CheckField, Goes, NoCommand
<1>6. CASE CheckField("writer", "checkWriter", "useWriter", "start")
  BY <1>6, QueueStays DEF CheckField, Goes, NoCommand
<1>7. CASE cmd.op \in {"pause", "resume"} /\ CheckField("reader", "check", "use", "idle")
  BY <1>7, QueueStays DEF CheckField, Goes, NoCommand
<1>8. CASE cmd.op = "write" /\ CheckField("writer", "check", "use", "idle")
  BY <1>8, QueueStays DEF CheckField, Goes, NoCommand
<1>9. CASE FindsNull("reader", "useReader")
  BY <1>9, QueueStays DEF FindsNull, Goes, NoCommand
<1>10. CASE FindsNull("writer", "useWriter")
  BY <1>10, QueueStays DEF FindsNull, Goes, NoCommand
<1>11. CASE cmd.op \in {"pause", "resume"} /\ FindsNull("reader", "use")
  BY <1>11, QueueStays DEF FindsNull, Goes, NoCommand
<1>12. CASE cmd.op = "write" /\ FindsNull("writer", "use")
  BY <1>12, QueueStays DEF FindsNull, Goes, NoCommand
<1>13. CASE UpdateLater
  BY <1>13, LaterTask DEF UpdateLater, Goes, NewTask
<1>14. CASE PermissionForLater
  BY <1>14, LaterTask DEF PermissionForLater, Goes, NewTask
<1>15. CASE Start
  BY <1>15, StartTask DEF Start, Goes, NewTask, NoCommand, All
<1>16. CASE StartReturns
  BY <1>16, QueueStays DEF StartReturns, Goes, NoCommand
<1>17. CASE StartTimesOut
  BY <1>17, QueueStays DEF StartTimesOut, Goes, NoCommand
<1>18. CASE SetPaused
  BY <1>18, QueueStays DEF SetPaused, Goes, NoCommand
<1>19. CASE SetValue
  BY <1>19, QueueStays DEF SetValue, Goes, NoCommand
<1>20. CASE RemovePV
  BY <1>20, QueueStays DEF RemovePV, Goes
<1>21. CASE EndRemovePV
  BY <1>21, QueueStays DEF EndRemovePV, Goes, NoCommand
<1>22. CASE Close
  BY <1>22, QueueStays DEF Close, Creating
<1>23. CASE EndClose
  BY <1>23, QueueStays DEF EndClose
<1>24. ASSUME NEW p \in PVs, StopBegins(p)
      PROVE  Serves'
  BY <1>24, QueueStays DEF StopBegins
<1>25. CASE StopCloses("reader", "closeReader", "closeWriter")
  BY <1>25, QueueStays DEF StopCloses, StopGoes
<1>26. CASE StopCloses("writer", "closeWriter", "nullReader")
  BY <1>26, QueueStays DEF StopCloses, StopGoes
<1>27. CASE StopNulls("reader", "nullReader", "nullWriter")
  BY <1>27, QueueStays DEF StopNulls, StopGoes
<1>28. CASE StopNulls("writer", "nullWriter", "flag")
  BY <1>28, QueueStays DEF StopNulls, StopGoes
<1>29. CASE StopClearsFlag
  BY <1>29, QueueStays DEF StopClearsFlag, StopGoes
<1>30. ASSUME NEW p \in PVs, NEW kind \in {"event", "permission"}, Event(kind, p)
      PROVE  Serves'
  <2>1. \A q \in PVs : StartQueued(q)' <=> StartQueued(q)
    <3> HIDE DEF TypeOK, Control, Fresh, Mapping
    <3> QED
      BY <1>30, EventTask
  <2> QED
    BY <1>30, <2>1 DEF Event
<1>31. CASE TakeTask
  BY <1>31, QueueShrinks DEF TakeTask, ThreadGoes
<1>32. CASE StartReader
  BY <1>32, QueueStays DEF StartReader, ThreadGoes, Opens
<1>33. CASE StartWriter
  BY <1>33, QueueStays DEF StartWriter, ThreadGoes, Opens
<1>34. CASE CountDown
  BY <1>34, QueueStays DEF CountDown, ThreadGoes
<1>35. CASE ListenerChecks
  BY <1>35, QueueStays DEF ListenerChecks, ThreadGoes, Tell
<1>36. CASE ListenerFindsNull
  BY <1>36, QueueStays DEF ListenerFindsNull, ThreadGoes
<1>37. CASE ListenerUses
  BY <1>37, QueueStays DEF ListenerUses, ThreadGoes, Tell
<1>38. CASE ListenerSends
  BY <1>38, QueueStays DEF ListenerSends, ThreadGoes
<1>39. CASE UNCHANGED vars
  BY <1>39, QueueStays DEF vars
<1> QED
  BY <1>1, <1>2, <1>3, <1>4, <1>5, <1>6, <1>7, <1>8, <1>9, <1>10, <1>11, <1>12, <1>13,
     <1>14, <1>15, <1>16, <1>17, <1>18, <1>19, <1>20, <1>21, <1>22, <1>23, <1>24, <1>25,
     <1>26, <1>27, <1>28, <1>29, <1>30, <1>31, <1>32, <1>33, <1>34, <1>35, <1>36, <1>37,
     <1>38, <1>39 DEF Next, ContainerThread, AddListenerGoesOn, UsePV, Stop,
     NotificationThread, Handles

(* close() exposes the PVs that are being created, and stop() on the way of      *)
(* removePV() belongs to another command.                                        *)
LEMMA NewOnesStep ==
  ASSUME TypeOK, Control, Fresh, Mapping, Once, NewOnes, [Next]_vars
  PROVE  NewOnes'
<1> USE PVsAssumption DEF TypeOK, Control, UsesPV, Busy, StartPC, Mapping, Once, NewOnes,
        InStart, IsNew, Mapped, session, sessionVars, stopVars, pvVars, fieldVars,
        readerVars, threadVars, madeVars, cmdVars, logVars
<1>1. ASSUME NEW op \in Op, NEW i \in Ids, Begin(op, i)
      PROVE  NewOnes'
  BY <1>1, QueueStays DEF Begin
<1>2. CASE GetPV
  <2>1. cpc = "getPV" /\ cpc' \in {"addListener", "check", "addPV", "idle"}
        /\ UNCHANGED <<isOpen, pvMap, startFlag, tasks, task, npc, exposed>>
    BY <1>2 DEF GetPV
  <2>2. \/ /\ cpc' = "addPV"
           /\ \E new \in PVs \ created : cmd'.pv = new /\ created' = created \cup {new}
        \/ (created' = created /\ (cpc' = "addListener" => ~cmd'.isNew))
    BY <1>2 DEF GetPV
  <2>3. \A q \in PVs \ created : ~InStart(q)
    BY StartIsTask DEF Fresh, Unknown
  <2> QED
    BY <2>1, <2>2, <2>3, QueueStays
<1>3. CASE AddPV
  BY <1>3, QueueStays DEF AddPV, Goes
<1>4. CASE AddListener
  BY <1>4, QueueStays DEF AddListener, Goes
<1>5. CASE CheckField("reader", "checkReader", "useReader", "checkWriter")
  BY <1>5, QueueStays DEF CheckField, Goes, NoCommand
<1>6. CASE CheckField("writer", "checkWriter", "useWriter", "start")
  BY <1>6, QueueStays DEF CheckField, Goes, NoCommand
<1>7. CASE cmd.op \in {"pause", "resume"} /\ CheckField("reader", "check", "use", "idle")
  BY <1>7, QueueStays DEF CheckField, Goes, NoCommand
<1>8. CASE cmd.op = "write" /\ CheckField("writer", "check", "use", "idle")
  BY <1>8, QueueStays DEF CheckField, Goes, NoCommand
<1>9. CASE FindsNull("reader", "useReader")
  BY <1>9, QueueStays DEF FindsNull, Goes, NoCommand
<1>10. CASE FindsNull("writer", "useWriter")
  BY <1>10, QueueStays DEF FindsNull, Goes, NoCommand
<1>11. CASE cmd.op \in {"pause", "resume"} /\ FindsNull("reader", "use")
  BY <1>11, QueueStays DEF FindsNull, Goes, NoCommand
<1>12. CASE cmd.op = "write" /\ FindsNull("writer", "use")
  BY <1>12, QueueStays DEF FindsNull, Goes, NoCommand
<1>13. CASE UpdateLater
  BY <1>13, LaterTask DEF UpdateLater, Goes, NewTask
<1>14. CASE PermissionForLater
  BY <1>14, LaterTask DEF PermissionForLater, Goes, NewTask
<1>15. CASE Start
  BY <1>15, StartTask DEF Start, Goes, NewTask, NoCommand, All
<1>16. CASE StartReturns
  BY <1>16, QueueStays DEF StartReturns, Goes, NoCommand
<1>17. CASE StartTimesOut
  BY <1>17, QueueStays DEF StartTimesOut, Goes, NoCommand
<1>18. CASE SetPaused
  BY <1>18, QueueStays DEF SetPaused, Goes, NoCommand
<1>19. CASE SetValue
  BY <1>19, QueueStays DEF SetValue, Goes, NoCommand
<1>20. CASE RemovePV
  BY <1>20, QueueStays DEF RemovePV, Goes
<1>21. CASE EndRemovePV
  BY <1>21, QueueStays DEF EndRemovePV, Goes, NoCommand
<1>22. CASE Close
  BY <1>22, QueueStays DEF Close, Creating
<1>23. CASE EndClose
  BY <1>23, QueueStays DEF EndClose
<1>24. ASSUME NEW p \in PVs, StopBegins(p)
      PROVE  NewOnes'
  BY <1>24, QueueStays DEF StopBegins
<1>25. CASE StopCloses("reader", "closeReader", "closeWriter")
  BY <1>25, QueueStays DEF StopCloses, StopGoes
<1>26. CASE StopCloses("writer", "closeWriter", "nullReader")
  BY <1>26, QueueStays DEF StopCloses, StopGoes
<1>27. CASE StopNulls("reader", "nullReader", "nullWriter")
  BY <1>27, QueueStays DEF StopNulls, StopGoes
<1>28. CASE StopNulls("writer", "nullWriter", "flag")
  BY <1>28, QueueStays DEF StopNulls, StopGoes
<1>29. CASE StopClearsFlag
  BY <1>29, QueueStays DEF StopClearsFlag, StopGoes
<1>30. ASSUME NEW p \in PVs, NEW kind \in {"event", "permission"}, Event(kind, p)
      PROVE  NewOnes'
  <2>1. \A q \in PVs : StartQueued(q)' <=> StartQueued(q)
    <3> HIDE DEF TypeOK, Control, Fresh, Mapping
    <3> QED
      BY <1>30, EventTask
  <2> QED
    BY <1>30, <2>1 DEF Event
<1>31. CASE TakeTask
  BY <1>31, QueueShrinks DEF TakeTask, ThreadGoes
<1>32. CASE StartReader
  BY <1>32, QueueStays DEF StartReader, ThreadGoes, Opens
<1>33. CASE StartWriter
  BY <1>33, QueueStays DEF StartWriter, ThreadGoes, Opens
<1>34. CASE CountDown
  BY <1>34, QueueStays DEF CountDown, ThreadGoes
<1>35. CASE ListenerChecks
  BY <1>35, QueueStays DEF ListenerChecks, ThreadGoes, Tell
<1>36. CASE ListenerFindsNull
  BY <1>36, QueueStays DEF ListenerFindsNull, ThreadGoes
<1>37. CASE ListenerUses
  BY <1>37, QueueStays DEF ListenerUses, ThreadGoes, Tell
<1>38. CASE ListenerSends
  BY <1>38, QueueStays DEF ListenerSends, ThreadGoes
<1>39. CASE UNCHANGED vars
  BY <1>39, QueueStays DEF vars
<1> QED
  BY <1>1, <1>2, <1>3, <1>4, <1>5, <1>6, <1>7, <1>8, <1>9, <1>10, <1>11, <1>12, <1>13,
     <1>14, <1>15, <1>16, <1>17, <1>18, <1>19, <1>20, <1>21, <1>22, <1>23, <1>24, <1>25,
     <1>26, <1>27, <1>28, <1>29, <1>30, <1>31, <1>32, <1>33, <1>34, <1>35, <1>36, <1>37,
     <1>38, <1>39 DEF Next, ContainerThread, AddListenerGoesOn, UsePV, Stop,
     NotificationThread, Handles

(* stop() finds startFlag and the fields set if something is open, as start()    *)
(* does not run at the same time.                                                *)
LEMMA ClosableStep ==
  ASSUME TypeOK, Control, Fresh, Mapping, NewOnes, Closable, [Next]_vars
  PROVE  Closable'
<1> USE PVsAssumption DEF TypeOK, Control, UsesPV, Busy, StartPC, Fresh, Unknown, Mapping,
        NewOnes, Closable, InStart, IsNew, IsOpen, Mapped, Handles, Range, session,
        sessionVars, stopVars, pvVars, fieldVars, readerVars, threadVars, madeVars, cmdVars,
        logVars
<1>1. ASSUME NEW op \in Op, NEW i \in Ids, Begin(op, i)
      PROVE  Closable'
  BY <1>1 DEF Begin
<1>2. CASE GetPV
  <2>1. cpc = "getPV" /\ monitor = "free"
        /\ UNCHANGED <<isOpen, pvMap, monitor, toStop, stopPC, stopping, startFlag, field,
                       handle, exposed>>
    BY <1>2 DEF GetPV
  <2>2. \A q \in created' : q \in created \/ \A h \in Handles : ~IsOpen(q, h)
    <3>1. created' = created \/ \E new \in PVs \ created : created' = created \cup {new}
      BY <1>2 DEF GetPV
    <3>2. \A q \in PVs \ created, h \in Handles : handle[q][h] = "none"
      OBVIOUS
    <3> QED
      BY <3>1, <3>2
  <2> QED
    BY <2>1, <2>2
<1>3. CASE AddPV
  BY <1>3 DEF AddPV, Goes
<1>4. CASE AddListener
  BY <1>4 DEF AddListener, Goes
<1>5. CASE CheckField("reader", "checkReader", "useReader", "checkWriter")
  BY <1>5 DEF CheckField, Goes, NoCommand
<1>6. CASE CheckField("writer", "checkWriter", "useWriter", "start")
  BY <1>6 DEF CheckField, Goes, NoCommand
<1>7. CASE cmd.op \in {"pause", "resume"} /\ CheckField("reader", "check", "use", "idle")
  BY <1>7 DEF CheckField, Goes, NoCommand
<1>8. CASE cmd.op = "write" /\ CheckField("writer", "check", "use", "idle")
  BY <1>8 DEF CheckField, Goes, NoCommand
<1>9. CASE FindsNull("reader", "useReader")
  BY <1>9 DEF FindsNull, Goes, NoCommand
<1>10. CASE FindsNull("writer", "useWriter")
  BY <1>10 DEF FindsNull, Goes, NoCommand
<1>11. CASE cmd.op \in {"pause", "resume"} /\ FindsNull("reader", "use")
  BY <1>11 DEF FindsNull, Goes, NoCommand
<1>12. CASE cmd.op = "write" /\ FindsNull("writer", "use")
  BY <1>12 DEF FindsNull, Goes, NoCommand
<1>13. CASE UpdateLater
  BY <1>13 DEF UpdateLater, Goes, NewTask
<1>14. CASE PermissionForLater
  BY <1>14 DEF PermissionForLater, Goes, NewTask
<1>15. CASE Start
  <2>1. cpc = "start" /\ cpc' \in {"await", "idle"}
        /\ UNCHANGED <<isOpen, pvMap, monitor, toStop, stopPC, stopping, field, handle,
                       created, exposed>>
    BY <1>15 DEF Start, Goes
  <2>2. \A q \in PVs : startFlag[q] => startFlag'[q]
    <3>1. startFlag' = startFlag \/ startFlag' = [startFlag EXCEPT ![cmd.pv] = TRUE]
      BY <1>15 DEF Start
    <3>2. DOMAIN startFlag = PVs
      OBVIOUS
    <3> HIDE DEF TypeOK, Control, Fresh, Unknown, Mapping, NewOnes, Closable
    <3> QED
      BY <3>1, <3>2, Zenon
  <2> QED
    BY <2>1, <2>2
<1>16. CASE StartReturns
  BY <1>16 DEF StartReturns, Goes, NoCommand
<1>17. CASE StartTimesOut
  BY <1>17 DEF StartTimesOut, Goes, NoCommand
<1>18. CASE SetPaused
  BY <1>18 DEF SetPaused, Goes, NoCommand
<1>19. CASE SetValue
  BY <1>19 DEF SetValue, Goes, NoCommand
<1>20. CASE RemovePV
  BY <1>20 DEF RemovePV, Goes
<1>21. CASE EndRemovePV
  BY <1>21 DEF EndRemovePV, Goes, NoCommand
<1>22. CASE Close
  BY <1>22 DEF Close, Creating
<1>23. CASE EndClose
  BY <1>23 DEF EndClose
<1>24. ASSUME NEW p \in PVs, StopBegins(p)
      PROVE  Closable'
  BY <1>24 DEF StopBegins
<1>25. CASE StopCloses("reader", "closeReader", "closeWriter")
  BY <1>25 DEF StopCloses, StopGoes
<1>26. CASE StopCloses("writer", "closeWriter", "nullReader")
  BY <1>26 DEF StopCloses, StopGoes
<1>27. CASE StopNulls("reader", "nullReader", "nullWriter")
  BY <1>27 DEF StopNulls, StopGoes
<1>28. CASE StopNulls("writer", "nullWriter", "flag")
  BY <1>28 DEF StopNulls, StopGoes
<1>29. CASE StopClearsFlag
  BY <1>29 DEF StopClearsFlag, StopGoes
<1>30. ASSUME NEW p \in PVs, NEW kind \in {"event", "permission"}, Event(kind, p)
      PROVE  Closable'
  BY <1>30 DEF Event, NewTask, All, HandleOf
<1>31. CASE TakeTask
  BY <1>31 DEF TakeTask, ThreadGoes
<1>32. CASE StartReader
  BY <1>32 DEF StartReader, ThreadGoes, Opens
<1>33. CASE StartWriter
  BY <1>33 DEF StartWriter, ThreadGoes, Opens
<1>34. CASE CountDown
  BY <1>34 DEF CountDown, ThreadGoes
<1>35. CASE ListenerChecks
  BY <1>35 DEF ListenerChecks, ThreadGoes, Tell
<1>36. CASE ListenerFindsNull
  BY <1>36 DEF ListenerFindsNull, ThreadGoes
<1>37. CASE ListenerUses
  BY <1>37 DEF ListenerUses, ThreadGoes, Tell
<1>38. CASE ListenerSends
  BY <1>38 DEF ListenerSends, ThreadGoes
<1>39. CASE UNCHANGED vars
  BY <1>39 DEF vars
<1> QED
  BY <1>1, <1>2, <1>3, <1>4, <1>5, <1>6, <1>7, <1>8, <1>9, <1>10, <1>11, <1>12, <1>13,
     <1>14, <1>15, <1>16, <1>17, <1>18, <1>19, <1>20, <1>21, <1>22, <1>23, <1>24, <1>25,
     <1>26, <1>27, <1>28, <1>29, <1>30, <1>31, <1>32, <1>33, <1>34, <1>35, <1>36, <1>37,
     <1>38, <1>39 DEF Next, ContainerThread, AddListenerGoesOn, UsePV, Stop,
     NotificationThread, Handles

-----------------------------------------------------------------------------
(* Initially there are no PVs, and no thread does anything. *)
LEMMA InitIInv == Init => IInv
<1> SUFFICES ASSUME Init
             PROVE  IInv
  OBVIOUS
<1> USE PVsAssumption, BoundsAssumption DEF Init
<1>1. TypeOK
  BY DEF TypeOK, NoCommand, Op, CommandPC, Task, Told, Handles
<1>2. Control
  BY DEF Control, UsesPV, Busy, StartPC, NoCommand, Handles
<1>3. /\ \A p \in PVs : ~HasTask(p) /\ ~StartQueued(p) /\ ~Mapped(p)
      /\ OnceQueued
  BY DEF HasTask, StartQueued, Mapped, OnceQueued
<1>4. Fresh
  BY <1>3 DEF Fresh, Unknown, Handles
<1>5. Mapping /\ Uses /\ Serves
  BY DEF Mapping, Uses, GivenUp, Serves
<1>6. Once /\ NewOnes /\ Closable
  BY <1>3 DEF Once, NewOnes, Closable, StartPC, IsNew, Busy
<1> QED
  BY <1>1, <1>2, <1>4, <1>5, <1>6 DEF IInv

(* Every step keeps every part of it. *)
LEMMA StepIInv == IInv /\ [Next]_vars => IInv'
BY TypingStep, ControlStep, FreshStep, MappingStep, UsesStep, OnceStep, ServesStep,
   NewOnesStep, ClosableStep DEF IInv

(* The invariant that the theorems rest on. *)
LEMMA Invariance == Spec => []IInv
BY InitIInv, StepIInv, PTL DEF Spec

(* The state of the PVs, of the session and of its threads is what it is        *)
(* declared to be, and a PV that may not be written has no PVWriter.            *)
THEOREM Typing == Spec => []TypeOK
<1>1. IInv => TypeOK
  BY DEF IInv
<1> QED
  BY <1>1, Invariance, PTL

(* Whatever the number of PVs and commands, ClosePV and ClientSession.close()   *)
(* leave nothing of a PV open in the control system, unless its creation met    *)
(* close() or its start() timed out: what is open is in the map, and can be     *)
(* closed.                                                                      *)
THEOREM ReleasedHolds == Spec => []Released
<1>1. ASSUME IInv
      PROVE  Released
  <2> SUFFICES ASSUME NEW p \in created \ exposed, Leaked(p)
               PROVE  FALSE
    BY DEF Released
  <2>1. PICK h \in Handles : IsOpen(p, h)
    BY DEF Leaked, IsOpen
  <2>2. PICK i \in Ids : pvMap[i] = p
    BY <1>1, <2>1 DEF IInv, Closable, Mapped
  <2>3. p \in Range(pvMap)
    BY <1>1, <2>2 DEF IInv, TypeOK, Range
  <2> QED
    BY <2>3 DEF Leaked
<1> QED
  BY <1>1, Invariance, PTL

(* Every PV that the client has created and not closed runs as soon as the      *)
(* threads have nothing more to do for it: start() is neither lost nor undone.  *)
THEOREM MappedIsRunningHolds == Spec => []MappedIsRunning
<1>1. ASSUME IInv
      PROVE  MappedIsRunning
  <2> SUFFICES ASSUME isOpen, NEW p \in Range(pvMap) \ {NoPV}, Quiet(p)
               PROVE  field[p]["reader"] /\ handle[p]["reader"] = "open"
    BY DEF MappedIsRunning
  <2>1. PICK i \in Ids : pvMap[i] = p
    BY <1>1 DEF IInv, TypeOK, Range
  <2>2. cpc # "removing"
    BY <1>1 DEF IInv, Control, Quiet
  <2>3. ~StartQueued(p) /\ ~(npc = "startReader" /\ task.pv = p) /\ ~IsNew(p)
    BY DEF Quiet, StartQueued, IsNew
  <2> QED
    BY <1>1, <2>1, <2>2, <2>3 DEF IInv, Serves, Running, IsOpen
<1> QED
  BY <1>1, Invariance, PTL

(* While the session is open, the methods of a PVManagerPV find null in a field *)
(* that they have just tested only for a PV that removePV() is removing.        *)
THEOREM FailsOnlyWhenGivenUpHolds == Spec => []FailsOnlyWhenGivenUp
<1>1. IInv => FailsOnlyWhenGivenUp
  BY DEF IInv, Control, Uses, GivenUp, FailsOnlyWhenGivenUp
<1> QED
  BY <1>1, Invariance, PTL

-----------------------------------------------------------------------------
(* The listeners.  A listener has been told of the connection, or one of the two *)
(* threads has still to tell it: the notification thread, which has an event or  *)
(* an update for it in the queue or at hand, or addListener(), which has not yet *)
(* decided whether to queue one.                                                 *)

(* Tasks that tell the listeners of p of its connection, and those that tell l.  *)
TellsOf(p)  == {t \in Task : t.pv = p /\ t.kind \in {"event", "update"}}
Tells(p, l) == {t \in TellsOf(p) : t.kind = "event" \/ t.listener = l}

(* An event that only one listener is told of: there is none. *)
Partial == {t \in Task : t.kind = "event" /\ t.listener # All}

Queued(K)   == \E k \in 1..Len(tasks) : tasks[k] \in K
Asking      == {"checkReader", "useReader"}

Informed(p, l) ==
  \/ told[p][l] = "paused" \/ (told[p][l] = "up" <=> connected[p])
  \/ Queued(Tells(p, l))
  \/ npc \in {"check", "use"} /\ task \in Tells(p, l)
  \/ cmd.pv = p /\ cpc \in Asking /\ l = Len(told[p]) /\ told[p][l] = "none"

ToAll == ~Queued(Partial) /\ (npc # "idle" => task \notin Partial)

(* A PV that has no reader yet has never been connected, and once it has one it  *)
(* never gets another.                                                           *)
Unstarted(p) ==
  /\ ~field[p]["reader"] /\ ~connected[p]
  /\ \A l \in 1..Len(told[p]) : told[p][l] # "up"
  /\ ~Queued(TellsOf(p)) /\ (npc # "idle" => task \notin TellsOf(p))
NoMoreStarts(p) ==
  /\ ~StartQueued(p) /\ ~(npc = "startReader" /\ task.pv = p)
  /\ ~(IsNew(p) /\ cpc # "await")
Starts ==
  \A p \in PVs : IF handle[p]["reader"] = "none" THEN Unstarted(p) ELSE NoMoreStarts(p)

Learning ==
  \A p \in PVs :
    field[p]["reader"] /\ IsOpen(p, "reader") => \A l \in 1..Len(told[p]) : Informed(p, l)

LInv == ToAll /\ Starts /\ Learning

(* The tasks of some set in the queue, after a task is appended or taken.        *)
LEMMA QueuedGrows ==
  ASSUME TypeOK, NEW CONSTANT t, tasks' = Append(tasks, t), NEW CONSTANT K
  PROVE  Queued(K)' <=> Queued(K) \/ t \in K
<1> DEFINE n == Len(tasks)
<1>1. n \in Nat /\ Len(tasks') = n + 1 /\ tasks'[n + 1] = t /\ \A k \in 1..n : tasks'[k] = tasks[k]
  BY DEF TypeOK
<1>2. \A k \in 1..Len(tasks') : k \in 1..n \/ k = n + 1
  BY <1>1
<1>3. 1..n \subseteq 1..Len(tasks') /\ n + 1 \in 1..Len(tasks')
  BY <1>1
<1> HIDE DEF n
<1> QED
  BY <1>1, <1>2, <1>3 DEF Queued, n

LEMMA QueuedShrinks ==
  ASSUME TypeOK, tasks # <<>>, tasks' = Tail(tasks), NEW CONSTANT K
  PROVE  Queued(K) <=> Queued(K)' \/ Head(tasks) \in K
<1> DEFINE n == Len(tasks)
<1>1. /\ n \in Nat \ {0} /\ Len(tasks') = n - 1 /\ tasks[1] = Head(tasks)
      /\ \A k \in 1..(n - 1) : tasks'[k] = tasks[k + 1]
  BY DEF TypeOK
<1>2. \A k \in 1..n : k = 1 \/ (k - 1 \in 1..(n - 1) /\ (k - 1) + 1 = k)
  BY <1>1
<1>3. 1 \in 1..n /\ \A k \in 1..(n - 1) : k + 1 \in 1..n
  BY <1>1
<1>4. ASSUME Queued(K) PROVE Queued(K)' \/ Head(tasks) \in K
  BY <1>1, <1>2, <1>4 DEF Queued
<1>5. ASSUME Queued(K)' \/ Head(tasks) \in K PROVE Queued(K)
  BY <1>1, <1>3, <1>5 DEF Queued
<1> QED
  BY <1>4, <1>5

(* Steps that concern neither listeners nor the notification thread: they leave  *)
(* a new PV new, and what is being asked of a reader that is there is asked on.  *)
Rest ==
  /\ UNCHANGED <<tasks, task, npc, told, connected>>
  /\ \A p \in PVs :
       /\ handle'[p]["reader"] = "none" <=> handle[p]["reader"] = "none"
       /\ handle'[p]["reader"] = "open" => handle[p]["reader"] = "open"
       /\ field'[p]["reader"] => field[p]["reader"]
       /\ IsNew(p)' /\ cpc' # "await" => (IsNew(p) /\ cpc # "await") \/ handle[p]["reader"] = "none"
  /\ cpc \in Asking => ~field[cmd.pv]["reader"] \/ (cmd' = cmd /\ cpc' \in Asking)

Telling ==
  \/ AddListener \/ UpdateLater \/ PermissionForLater \/ Start
  \/ \E p \in PVs, kind \in {"event", "permission"} : Event(kind, p)
  \/ NotificationThread

LEMMA OtherSteps ==
  ASSUME TypeOK, Control, Fresh, Once, Starts, [Next]_vars
  PROVE  Rest \/ Telling
<1> USE PVsAssumption DEF TypeOK, Control, UsesPV, Busy, StartPC, IsNew, Rest, Asking, Handles,
        session, sessionVars, stopVars, pvVars, fieldVars, readerVars, threadVars, madeVars,
        cmdVars, logVars
<1>1. ASSUME NEW op \in Op, NEW i \in Ids, Begin(op, i)
      PROVE  Rest
  BY <1>1 DEF Begin
<1>2. CASE GetPV
  <2>1. cpc = "getPV" /\ cpc' \in {"addListener", "check", "addPV", "idle"}
        /\ UNCHANGED <<tasks, task, npc, told, connected, handle, field>>
    BY <1>2 DEF GetPV
  <2>2. cpc' = "addListener" => ~cmd'.isNew
    BY <1>2 DEF GetPV
  <2>3. cpc' = "addPV" => cmd'.pv \in PVs \ created
    BY <1>2 DEF GetPV
  <2>4. cpc' = "addPV" => handle[cmd'.pv]["reader"] = "none"
    BY <2>3 DEF Fresh, Unknown
  <2> QED
    BY <2>1, <2>2, <2>3, <2>4
<1>3. CASE AddPV
  BY <1>3 DEF AddPV, Goes
<1>5. CASE CheckField("reader", "checkReader", "useReader", "checkWriter")
  BY <1>5 DEF CheckField, Goes, NoCommand
<1>6. CASE CheckField("writer", "checkWriter", "useWriter", "start")
  BY <1>6 DEF CheckField, Goes, NoCommand
<1>7. CASE cmd.op \in {"pause", "resume"} /\ CheckField("reader", "check", "use", "idle")
  BY <1>7 DEF CheckField, Goes, NoCommand
<1>8. CASE cmd.op = "write" /\ CheckField("writer", "check", "use", "idle")
  BY <1>8 DEF CheckField, Goes, NoCommand
<1>9. CASE FindsNull("reader", "useReader")
  BY <1>9 DEF FindsNull, Goes, NoCommand
<1>10. CASE FindsNull("writer", "useWriter")
  BY <1>10 DEF FindsNull, Goes, NoCommand
<1>11. CASE cmd.op \in {"pause", "resume"} /\ FindsNull("reader", "use")
  BY <1>11 DEF FindsNull, Goes, NoCommand
<1>12. CASE cmd.op = "write" /\ FindsNull("writer", "use")
  BY <1>12 DEF FindsNull, Goes, NoCommand
<1>16. CASE StartReturns
  BY <1>16 DEF StartReturns, Goes, NoCommand
<1>17. CASE StartTimesOut
  BY <1>17 DEF StartTimesOut, Goes, NoCommand
<1>18. CASE SetPaused
  BY <1>18 DEF SetPaused, Goes, NoCommand
<1>19. CASE SetValue
  BY <1>19 DEF SetValue, Goes, NoCommand
<1>20. CASE RemovePV
  BY <1>20 DEF RemovePV, Goes
<1>21. CASE EndRemovePV
  BY <1>21 DEF EndRemovePV, Goes, NoCommand
<1>22. CASE Close
  BY <1>22 DEF Close
<1>23. CASE EndClose
  BY <1>23 DEF EndClose
<1>24. ASSUME NEW p \in PVs, StopBegins(p)
      PROVE  Rest
  BY <1>24 DEF StopBegins
<1>25. CASE StopCloses("reader", "closeReader", "closeWriter")
  <2>1. stopping \in PVs
    BY <1>25 DEF StopCloses, StopGoes
  <2>2. field[stopping]["reader"] => handle[stopping]["reader"] # "none"
    BY <2>1 DEF Starts, Unstarted
  <2>3. CASE field[stopping]["reader"]
    <3>1. handle' = [handle EXCEPT ![stopping]["reader"] = "closed"]
      BY <1>25, <2>3 DEF StopCloses
    <3>2. \A p \in PVs : handle'[p]["reader"] = IF p = stopping THEN "closed" ELSE handle[p]["reader"]
      BY <2>1, <3>1
    <3> QED
      BY <1>25, <2>2, <2>3, <3>2 DEF StopCloses, StopGoes
  <2>4. CASE ~field[stopping]["reader"]
    BY <1>25, <2>4 DEF StopCloses, StopGoes
  <2> QED
    BY <2>3, <2>4
<1>26. CASE StopCloses("writer", "closeWriter", "nullReader")
  BY <1>26 DEF StopCloses, StopGoes
<1>27. CASE StopNulls("reader", "nullReader", "nullWriter")
  BY <1>27 DEF StopNulls, StopGoes
<1>28. CASE StopNulls("writer", "nullWriter", "flag")
  BY <1>28 DEF StopNulls, StopGoes
<1>29. CASE StopClearsFlag
  BY <1>29 DEF StopClearsFlag, StopGoes
<1>39. CASE UNCHANGED vars
  BY <1>39 DEF vars
<1> QED
  BY <1>1, <1>2, <1>3, <1>5, <1>6, <1>7, <1>8, <1>9, <1>10, <1>11, <1>12,
     <1>16, <1>17, <1>18, <1>19, <1>20, <1>21, <1>22, <1>23, <1>24, <1>25,
     <1>26, <1>27, <1>28, <1>29, <1>39
     DEF Next, ContainerThread, AddListenerGoesOn, UsePV, Stop, Telling

-----------------------------------------------------------------------------
(* Who has been informed, or is going to be, stays so when nothing about the     *)
(* listener changes and what is on the way stays on the way.                     *)
LEMMA InformedStays ==
  ASSUME NEW p \in PVs, NEW l, Informed(p, l),
         told'[p][l] = told[p][l], connected'[p] = connected[p],
         Queued(Tells(p, l)) => Queued(Tells(p, l))',
         npc \in {"check", "use"} /\ task \in Tells(p, l) =>
           npc' \in {"check", "use"} /\ task' = task,
         cmd.pv = p /\ cpc \in Asking =>
           cmd' = cmd /\ cpc' \in Asking /\ Len(told'[p]) = Len(told[p])
  PROVE  Informed(p, l)'
BY DEF Informed

(* The same queue has the same tasks. *)
LEMMA QueuedStays ==
  ASSUME tasks' = tasks, NEW CONSTANT K
  PROVE  Queued(K)' <=> Queued(K)
BY DEF Queued

(* The listeners that Tell() tells have been told, and the others are as before. *)
LEMMA TellFact ==
  ASSUME TypeOK, task \in Task, NEW what, Tell(what)
  PROVE  /\ Len(told'[task.pv]) = Len(told[task.pv])
         /\ \A l \in 1..Len(told[task.pv]) :
              told'[task.pv][l] = IF l \in Audience THEN what ELSE told[task.pv][l]
         /\ \A q \in PVs : q # task.pv => told'[q] = told[q]
<1> DEFINE s == told[task.pv]
           f == [l \in 1..Len(s) |-> IF l \in Audience THEN what ELSE s[l]]
<1>1. task.pv \in PVs /\ s \in Seq(Told) /\ Len(s) \in Nat
  BY DEF TypeOK, Task
<1>2. told' = [told EXCEPT ![task.pv] = f]
  BY DEF Tell
<1>3. told'[task.pv] = f /\ \A q \in PVs : q # task.pv => told'[q] = told[q]
  BY <1>1, <1>2 DEF TypeOK
<1>4. Len(f) = Len(s)
  BY <1>1
<1>5. \A l \in 1..Len(s) : f[l] = IF l \in Audience THEN what ELSE s[l]
  OBVIOUS
<1> QED
  BY <1>3, <1>4, <1>5

(* Tasks tell listeners of one PV each. *)
LEMMA TellsFact ==
  ASSUME NEW p, NEW l, NEW t \in Tells(p, l)
  PROVE  t.pv = p /\ t.kind \in {"event", "update"} /\ t \in TellsOf(p)
BY DEF Tells, TellsOf

-----------------------------------------------------------------------------
(* No step queues an event for a single listener.                                *)
LEMMA ToAllStep ==
  ASSUME TypeOK, Control, Fresh, Once, Starts, ToAll, [Next]_vars
  PROVE  ToAll'
<1>1. ASSUME NEW t, t.kind = "event" => t.listener = All, tasks' = Append(tasks, t),
             UNCHANGED <<npc, task>>
      PROVE  ToAll'
  BY <1>1, QueuedGrows DEF ToAll, Partial
<1>2. CASE tasks' = tasks /\ (npc' # "idle" => npc # "idle" /\ task' = task)
  BY <1>2, QueuedStays DEF ToAll
<1>3. CASE Rest
  BY <1>2, <1>3 DEF Rest
<1>4. CASE AddListener
  BY <1>2, <1>4 DEF AddListener, threadVars
<1>5. CASE UpdateLater \/ PermissionForLater \/ Start
  BY <1>1, <1>2, <1>5 DEF UpdateLater, PermissionForLater, Start, NewTask
<1>6. ASSUME NEW p \in PVs, NEW kind \in {"event", "permission"}, Event(kind, p)
      PROVE  ToAll'
  BY <1>1, <1>6 DEF Event, NewTask
<1>7. CASE TakeTask
  BY <1>7, QueuedShrinks DEF TakeTask, ToAll
<1>8. CASE NotificationThread /\ ~TakeTask
  BY <1>2, <1>8 DEF NotificationThread, StartReader, StartWriter, CountDown, ListenerChecks,
     ListenerFindsNull, ListenerUses, ListenerSends, ThreadGoes
<1> QED
  BY <1>3, <1>4, <1>5, <1>6, <1>7, <1>8, OtherSteps DEF Telling

(* A PV without a reader stays unstarted until start() gives it one, and no      *)
(* start() comes after that.                                                     *)
LEMMA StartsStep ==
  ASSUME TypeOK, Control, Fresh, Once, ToAll, Starts, [Next]_vars
  PROVE  Starts'
<1> USE PVsAssumption DEF Handles, session, sessionVars, stopVars, pvVars, fieldVars, readerVars,
        threadVars, madeVars, cmdVars, logVars
<1>3. CASE Rest
  <2>1. \A p \in PVs : StartQueued(p)' <=> StartQueued(p)
    BY <1>3, QueueStays DEF Rest
  <2>2. \A p \in PVs : Queued(TellsOf(p))' <=> Queued(TellsOf(p))
    BY <1>3, QueuedStays DEF Rest
  <2> QED
    BY <1>3, <2>1, <2>2 DEF Rest, Starts, Unstarted, NoMoreStarts
<1>4. CASE AddListener
  <2>1. \A p \in PVs : (StartQueued(p)' <=> StartQueued(p)) /\ (Queued(TellsOf(p))' <=> Queued(TellsOf(p)))
    BY <1>4, QueueStays, QueuedStays DEF AddListener
  <2>2. \A p \in PVs, l \in Nat : l \in 1..Len(told'[p]) /\ told'[p][l] = "up" => l \in 1..Len(told[p]) /\ told[p][l] = "up"
    <3>1. cmd.pv \in PVs /\ told[cmd.pv] \in Seq(Told)
      BY <1>4 DEF AddListener, Goes, Control, UsesPV, Busy, TypeOK
    <3>2. told'[cmd.pv] = Append(told[cmd.pv], "none") /\ \A p \in PVs : p # cmd.pv => told'[p] = told[p]
      BY <1>4, <3>1 DEF AddListener, TypeOK
    <3> QED
      BY <3>1, <3>2
  <2>3. \A p \in PVs : Len(told'[p]) \in Nat
    BY TypingStep DEF TypeOK
  <2>4. \A p \in PVs : IsNew(p)' /\ cpc' # "await" => IsNew(p) /\ cpc # "await"
    BY <1>4 DEF AddListener, Goes, IsNew, Busy
  <2>5. UNCHANGED <<handle, field, connected, task, npc>>
    BY <1>4 DEF AddListener
  <2>6. \A p \in PVs : \A l \in 1..Len(told'[p]) : l \in Nat
    BY <2>3
  <2> QED
    BY <2>1, <2>2, <2>4, <2>5, <2>6 DEF Starts, Unstarted, NoMoreStarts
<1>5. CASE UpdateLater
  <2>1. cmd.pv \in PVs /\ field[cmd.pv]["reader"] /\ cpc = "useReader" /\ cpc' = "checkWriter" /\ cmd' = cmd
    BY <1>5 DEF UpdateLater, Goes, Control, UsesPV, Busy, TypeOK
  <2>2. \A p \in PVs : p # cmd.pv => told'[p] = told[p]
    BY <1>5, <2>1 DEF UpdateLater, TypeOK
  <2>3. \A p \in PVs : handle[p]["reader"] = "none" => p # cmd.pv
    BY <2>1 DEF Starts, Unstarted
  <2>4. \A p \in PVs : p # cmd.pv => (Queued(TellsOf(p))' <=> Queued(TellsOf(p)))
    BY <1>5, QueuedGrows, QueuedStays DEF UpdateLater, TellsOf, NewTask
  <2>5. \A p \in PVs : StartQueued(p)' <=> StartQueued(p)
    BY <1>5, LaterTask
  <2>6. UNCHANGED <<handle, field, connected, task, npc>>
    BY <1>5 DEF UpdateLater
  <2> QED
    BY <2>1, <2>2, <2>3, <2>4, <2>5, <2>6 DEF Starts, Unstarted, NoMoreStarts, IsNew, Busy
<1>6. CASE PermissionForLater
  <2>1. cpc = "useWriter" /\ cpc' = "start" /\ cmd' = cmd
    BY <1>6 DEF PermissionForLater, Goes
  <2>2. \A p \in PVs : Queued(TellsOf(p))' <=> Queued(TellsOf(p))
    BY <1>6, QueuedGrows, QueuedStays DEF PermissionForLater, TellsOf, NewTask
  <2>3. \A p \in PVs : StartQueued(p)' <=> StartQueued(p)
    BY <1>6, LaterTask
  <2>4. UNCHANGED <<handle, field, connected, told, task, npc>>
    BY <1>6 DEF PermissionForLater
  <2> QED
    BY <2>1, <2>2, <2>3, <2>4 DEF Starts, Unstarted, NoMoreStarts, IsNew, Busy
<1>7. CASE Start
  <2>1. cmd.pv \in PVs /\ cpc = "start" /\ cpc' = IF cmd.isNew THEN "await" ELSE "idle"
    BY <1>7 DEF Start, Goes, Control, UsesPV, Busy, TypeOK
  <2>2. \A p \in PVs : Queued(TellsOf(p))' <=> Queued(TellsOf(p))
    BY <1>7, QueuedGrows, QueuedStays DEF Start, TellsOf, NewTask
  <2>3. \A p \in PVs : handle[p]["reader"] # "none" => ~(cmd.isNew /\ p = cmd.pv)
    BY <2>1 DEF Starts, NoMoreStarts, IsNew, Busy
  <2>4. \A p \in PVs : StartQueued(p)' => StartQueued(p) \/ (cmd.isNew /\ p = cmd.pv)
    <3>1. NewTask("start", cmd.pv, All) \in Task /\ NewTask("start", cmd.pv, All).pv = cmd.pv
      BY <2>1 DEF NewTask, Task, All
    <3> QED
      BY <1>7, <3>1, QueueGrows, QueueStays DEF Start
  <2>5. UNCHANGED <<handle, field, connected, told, task, npc>>
    BY <1>7 DEF Start
  <2>6. \A p \in PVs : ~(IsNew(p)' /\ cpc' # "await")
    BY <2>1 DEF IsNew, Busy
  <2> QED
    BY <2>2, <2>3, <2>4, <2>5, <2>6 DEF Starts, Unstarted, NoMoreStarts
<1>8. ASSUME NEW p \in PVs, NEW kind \in {"event", "permission"}, Event(kind, p)
      PROVE  Starts'
  <2>1. \A q \in PVs : StartQueued(q)' <=> StartQueued(q)
    BY <1>8, EventTask
  <2>2. \A q \in PVs : handle[q]["reader"] = "none" => (Queued(TellsOf(q))' <=> Queued(TellsOf(q)))
    BY <1>8, QueuedGrows DEF Event, TellsOf, NewTask, HandleOf
  <2>3. UNCHANGED <<handle, field, connected, told, task, npc, cmd, cpc>>
    BY <1>8 DEF Event
  <2> QED
    BY <2>1, <2>2, <2>3 DEF Starts, Unstarted, NoMoreStarts, IsNew
<1>9. CASE TakeTask
  <2>1. /\ npc = "idle" /\ npc' = IF Head(tasks).kind = "start" THEN "startReader" ELSE "check"
        /\ task' = Head(tasks) /\ tasks # <<>> /\ tasks' = Tail(tasks)
        /\ UNCHANGED <<handle, field, connected, told, cmd, cpc>>
    BY <1>9 DEF TakeTask, ThreadGoes
  <2>2. \A p \in PVs : /\ StartQueued(p)' => StartQueued(p)
                       /\ Head(tasks).kind = "start" /\ Head(tasks).pv = p => StartQueued(p)
    BY <2>1, QueueShrinks
  <2>3. \A p \in PVs : /\ Queued(TellsOf(p))' => Queued(TellsOf(p))
                       /\ Head(tasks) \in TellsOf(p) => Queued(TellsOf(p))
    BY <2>1, QueuedShrinks
  <2> QED
    BY <2>1, <2>2, <2>3 DEF Starts, Unstarted, NoMoreStarts, IsNew
<1>10. CASE StartReader
  <2>1. /\ npc = "startReader" /\ npc' \in {"startWriter", "countDown"} /\ task' = task
        /\ task.pv \in PVs
        /\ UNCHANGED <<tasks, connected, told, cmd, cpc>>
    BY <1>10 DEF StartReader, ThreadGoes, Control, TypeOK
  <2>2. /\ handle'[task.pv]["reader"] = "open"
        /\ \A p \in PVs : p # task.pv => handle'[p] = handle[p] /\ field'[p] = field[p]
    BY <1>10, <2>1 DEF StartReader, Opens, TypeOK
  <2>3. \A p \in PVs : StartQueued(p)' <=> StartQueued(p)
    BY <2>1, QueueStays
  <2>4. \A p \in PVs : Queued(TellsOf(p))' <=> Queued(TellsOf(p))
    BY <2>1, QueuedStays
  <2>5. NoMoreStarts(task.pv)'
    BY <2>1, <2>3 DEF Once, NoMoreStarts, InStart, StartPC, IsNew
  <2> QED
    BY <2>1, <2>2, <2>3, <2>4, <2>5 DEF Starts, Unstarted, NoMoreStarts, IsNew
<1>11. CASE StartWriter
  <2>1. /\ npc = "startWriter" /\ npc' = "countDown" /\ task' = task /\ task.pv \in PVs
        /\ UNCHANGED <<tasks, connected, told, cmd, cpc>>
    BY <1>11 DEF StartWriter, ThreadGoes, Control, TypeOK
  <2>2. \A p \in PVs : handle'[p]["reader"] = handle[p]["reader"] /\ field'[p]["reader"] = field[p]["reader"]
    BY <1>11, <2>1 DEF StartWriter, Opens, TypeOK
  <2>3. \A p \in PVs : (StartQueued(p)' <=> StartQueued(p)) /\ (Queued(TellsOf(p))' <=> Queued(TellsOf(p)))
    BY <2>1, QueueStays, QueuedStays
  <2> QED
    BY <2>1, <2>2, <2>3 DEF Starts, Unstarted, NoMoreStarts, IsNew
<1>12. CASE CountDown \/ ListenerFindsNull \/ ListenerSends
  <2>1. npc' = "idle" /\ UNCHANGED <<tasks, connected, told, cmd, cpc, handle, field>>
    BY <1>12 DEF CountDown, ListenerFindsNull, ListenerSends, ThreadGoes
  <2>2. \A p \in PVs : (StartQueued(p)' <=> StartQueued(p)) /\ (Queued(TellsOf(p))' <=> Queued(TellsOf(p)))
    BY <2>1, QueueStays, QueuedStays
  <2> QED
    BY <2>1, <2>2 DEF Starts, Unstarted, NoMoreStarts, IsNew
<1>13. CASE ListenerChecks \/ ListenerUses
  <2>1. /\ npc \in {"check", "use"} /\ npc' \in {"use", "send"} /\ task' = task /\ task \in Task
        /\ task.pv \in PVs /\ task.kind # "start"
        /\ UNCHANGED <<tasks, cmd, cpc, handle, field>>
    BY <1>13 DEF ListenerChecks, ListenerUses, ThreadGoes, Control, StartPC, TypeOK, Task
  <2>2. \A p \in PVs : (StartQueued(p)' <=> StartQueued(p)) /\ (Queued(TellsOf(p))' <=> Queued(TellsOf(p)))
    BY <2>1, QueueStays, QueuedStays
  <2>3. ASSUME NEW p \in PVs, handle[p]["reader"] = "none"
        PROVE  told'[p] = told[p] /\ connected'[p] = connected[p]
    <3>1. Unstarted(p)
      BY <2>3 DEF Starts
    <3>2. task.pv # p \/ task.kind = "permission"
      BY <2>1, <3>1 DEF Unstarted, TellsOf, Task
    <3>3. \A what : Tell(what) => (task.pv # p => told'[p] = told[p])
      BY <2>1, TellFact
    <3>4. CASE ListenerChecks
      BY <2>1, <3>2, <3>3, <3>4 DEF ListenerChecks, HandleOf, TypeOK
    <3>5. CASE ListenerUses
      BY <2>1, <3>2, <3>3, <3>5 DEF ListenerUses
    <3> QED
      BY <1>13, <3>4, <3>5
  <2> QED
    BY <2>1, <2>2, <2>3 DEF Starts, Unstarted, NoMoreStarts, IsNew
<1> QED
  BY <1>3, <1>4, <1>5, <1>6, <1>7, <1>8, <1>9, <1>10, <1>11, <1>12, <1>13, OtherSteps
     DEF Telling, NotificationThread

-----------------------------------------------------------------------------
(* Every step leaves the listeners of a running PV informed, or somebody on the  *)
(* way to inform them.                                                           *)
LEMMA LearningStep ==
  ASSUME TypeOK, Control, Fresh, Once, ToAll, Starts, Learning, [Next]_vars
  PROVE  Learning'
<1> USE PVsAssumption DEF Handles, IsOpen, session, sessionVars, stopVars, pvVars, fieldVars,
        readerVars, threadVars, madeVars, cmdVars, logVars
<1>1. ASSUME NEW p \in PVs, NEW l, Informed(p, l),
             told'[p] = told[p], connected'[p] = connected[p],
             Queued(Tells(p, l)) => Queued(Tells(p, l))',
             npc \in {"check", "use"} /\ task \in Tells(p, l) =>
               npc' \in {"check", "use"} /\ task' = task,
             cmd.pv = p /\ cpc \in Asking => cmd' = cmd /\ cpc' \in Asking
      PROVE  Informed(p, l)'
  BY <1>1, InformedStays
<1>2. \A p \in PVs : Len(told[p]) \in Nat /\ told[p] \in Seq(Told)
  BY DEF TypeOK
<1>3. CASE Rest
  <2>1. SUFFICES ASSUME NEW p \in PVs, (field[p]["reader"] /\ IsOpen(p, "reader"))',
                        NEW l \in (1..Len(told[p]))'
                 PROVE  Informed(p, l)'
    BY DEF Learning
  <2>2. Informed(p, l) /\ field[p]["reader"]
    BY <1>3, <2>1 DEF Rest, Learning
  <2>3. Queued(Tells(p, l))' <=> Queued(Tells(p, l))
    BY <1>3, QueuedStays DEF Rest
  <2> QED
    BY <1>1, <1>3, <2>2, <2>3 DEF Rest
<1>4. CASE AddListener
  <2>1. /\ cmd.pv \in PVs /\ cpc = "addListener" /\ cpc' = "checkReader" /\ cmd' = cmd
        /\ UNCHANGED <<tasks, task, npc, handle, field, connected>>
    BY <1>4 DEF AddListener, Goes, Control, UsesPV, Busy, TypeOK
  <2>2. told'[cmd.pv] = Append(told[cmd.pv], "none") /\ \A p \in PVs : p # cmd.pv => told'[p] = told[p]
    BY <1>4, <2>1 DEF AddListener, TypeOK
  <2>3. SUFFICES ASSUME NEW p \in PVs, (field[p]["reader"] /\ IsOpen(p, "reader"))',
                        NEW l \in (1..Len(told[p]))'
                 PROVE  Informed(p, l)'
    BY DEF Learning
  <2>4. Queued(Tells(p, l))' <=> Queued(Tells(p, l))
    BY <2>1, QueuedStays
  <2>5. CASE l \in 1..Len(told[p])
    <3>1. Informed(p, l)
      BY <2>1, <2>3, <2>5 DEF Learning
    <3>2. Append(told[p], "none")[l] = told[p][l]
      BY <1>2, <2>5
    <3>3. told'[p][l] = told[p][l]
      BY <2>2, <3>2
    <3> QED
      BY <2>1, <2>4, <3>1, <3>3, InformedStays DEF Asking
  <2>6. CASE l \notin 1..Len(told[p])
    <3>1. p = cmd.pv /\ l = Len(told'[p]) /\ told'[p][l] = "none"
      BY <1>2, <2>1, <2>2, <2>3, <2>6
    <3> QED
      BY <2>1, <3>1 DEF Informed, Asking
  <2> QED
    BY <2>5, <2>6
<1>5. CASE UpdateLater
  <2> DEFINE n == Len(told[cmd.pv])
             t == NewTask("update", cmd.pv, n)
             update == handle[cmd.pv]["reader"] = "open" /\ connected[cmd.pv] /\ ~paused[cmd.pv]
  <2>1. /\ cmd.pv \in PVs /\ cpc = "useReader" /\ cpc' = "checkWriter" /\ cmd' = cmd
        /\ UNCHANGED <<task, npc, handle, field, connected>>
        /\ tasks' = IF update THEN Append(tasks, t) ELSE tasks
    BY <1>5 DEF UpdateLater, Goes, Control, UsesPV, Busy, TypeOK
  <2>2. /\ told' = [told EXCEPT ![cmd.pv] =
                      [told[cmd.pv] EXCEPT ![n] = IF paused[cmd.pv] THEN "paused" ELSE @]]
    BY <1>5 DEF UpdateLater
  <2>3. /\ \A p \in PVs : p # cmd.pv => told'[p] = told[p]
        /\ told'[cmd.pv] = [told[cmd.pv] EXCEPT ![n] = IF paused[cmd.pv] THEN "paused" ELSE @]
    BY <2>1, <2>2 DEF TypeOK
  <2>4. /\ DOMAIN told'[cmd.pv] = 1..n
        /\ \A l \in 1..n : told'[cmd.pv][l] = IF l = n /\ paused[cmd.pv] THEN "paused" ELSE told[cmd.pv][l]
    BY <1>2, <2>1, <2>3
  <2>5. Len(told'[cmd.pv]) = n
    <3>1. told'[cmd.pv] \in Seq(Told)
      BY <2>1, TypingStep DEF TypeOK
    <3> QED
      BY <1>2, <2>1, <2>4, <3>1
  <2>6. SUFFICES ASSUME NEW p \in PVs, (field[p]["reader"] /\ IsOpen(p, "reader"))',
                        NEW l \in (1..Len(told[p]))'
                 PROVE  Informed(p, l)'
    BY DEF Learning
  <2>7. Informed(p, l) /\ l \in 1..Len(told[p]) /\ handle[p]["reader"] = "open"
    BY <2>1, <2>3, <2>5, <2>6 DEF Learning
  <2>8. Queued(Tells(p, l)) => Queued(Tells(p, l))'
    BY <2>1, QueuedGrows, QueuedStays
  <2>9. CASE p # cmd.pv
    BY <1>1, <2>1, <2>3, <2>7, <2>8, <2>9
  <2>10. CASE p = cmd.pv /\ l = n /\ paused[p]
    BY <2>4, <2>7, <2>10 DEF Informed
  <2>11. CASE p = cmd.pv /\ ~(l = n /\ paused[p])
    <3>1. told'[p][l] = told[p][l]
      BY <2>4, <2>7, <2>11
    <3>2. CASE l = n /\ told[p][l] = "none"
      <4>1. CASE update
        <5>1. t \in Tells(p, l)
          BY <1>2, <2>1, <2>11, <3>2 DEF NewTask, Tells, TellsOf, Task
        <5>2. Queued(Tells(p, l))'
          BY <2>1, <4>1, <5>1, QueuedGrows
        <5> QED
          BY <5>2 DEF Informed
      <4>2. CASE ~update
        BY <2>1, <2>7, <2>11, <3>1, <3>2, <4>2 DEF Informed
      <4> QED
        BY <4>1, <4>2
    <3>3. CASE ~(l = n /\ told[p][l] = "none")
      BY <2>1, <2>7, <2>8, <2>11, <3>1, <3>3 DEF Informed
    <3> QED
      BY <3>2, <3>3
  <2> QED
    BY <2>9, <2>10, <2>11
<1>6. ASSUME NEW t, tasks' = Append(tasks, t),
             UNCHANGED <<task, npc, handle, field, connected, told>>,
             cpc \in Asking => cmd' = cmd /\ cpc' \in Asking
      PROVE  Learning'
  <2>1. SUFFICES ASSUME NEW p \in PVs, (field[p]["reader"] /\ IsOpen(p, "reader"))',
                        NEW l \in (1..Len(told[p]))'
                 PROVE  Informed(p, l)'
    BY DEF Learning
  <2>2. Informed(p, l)
    BY <1>6, <2>1 DEF Learning
  <2>3. Queued(Tells(p, l)) => Queued(Tells(p, l))'
    BY <1>6, QueuedGrows
  <2> QED
    BY <1>1, <1>6, <2>2, <2>3
<1>7. CASE PermissionForLater \/ Start
  <2>1. /\ cpc \notin Asking
        /\ UNCHANGED <<task, npc, handle, field, connected, told>>
    BY <1>7 DEF PermissionForLater, Start, Goes, Asking
  <2>2. CASE tasks' = tasks
    <3>1. SUFFICES ASSUME NEW p \in PVs, (field[p]["reader"] /\ IsOpen(p, "reader"))',
                          NEW l \in (1..Len(told[p]))'
                   PROVE  Informed(p, l)'
      BY DEF Learning
    <3>2. Informed(p, l) /\ (Queued(Tells(p, l))' <=> Queued(Tells(p, l)))
      BY <2>1, <2>2, <3>1, QueuedStays DEF Learning
    <3> QED
      BY <1>1, <2>1, <3>2
  <2> QED
    BY <1>6, <1>7, <2>1, <2>2 DEF PermissionForLater, Start
<1>8. ASSUME NEW p \in PVs, NEW kind \in {"event", "permission"}, Event(kind, p)
      PROVE  Learning'
  BY <1>6, <1>8 DEF Event
<1>9. CASE TakeTask
  <2>1. /\ npc = "idle" /\ npc' = IF Head(tasks).kind = "start" THEN "startReader" ELSE "check"
        /\ task' = Head(tasks) /\ tasks # <<>> /\ tasks' = Tail(tasks)
        /\ UNCHANGED <<handle, field, connected, told, cmd, cpc>>
    BY <1>9 DEF TakeTask, ThreadGoes
  <2>2. SUFFICES ASSUME NEW p \in PVs, (field[p]["reader"] /\ IsOpen(p, "reader"))',
                        NEW l \in (1..Len(told[p]))'
                 PROVE  Informed(p, l)'
    BY DEF Learning
  <2>3. Informed(p, l)
    BY <2>1, <2>2 DEF Learning
  <2>4. CASE Queued(Tells(p, l))
    <3>1. Queued(Tells(p, l))' \/ Head(tasks) \in Tells(p, l)
      BY <2>1, <2>4, QueuedShrinks
    <3>2. Head(tasks) \in Tells(p, l) => Head(tasks).kind # "start"
      BY TellsFact
    <3> QED
      BY <2>1, <3>1, <3>2 DEF Informed
  <2> QED
    BY <2>1, <2>3, <2>4 DEF Informed
<1>10. CASE StartReader
  <2>1. /\ npc = "startReader" /\ task.pv \in PVs
        /\ UNCHANGED <<tasks, connected, told, cmd, cpc>>
        /\ \A p \in PVs : p # task.pv => handle'[p] = handle[p] /\ field'[p] = field[p]
    BY <1>10 DEF StartReader, ThreadGoes, Opens, Control, TypeOK
  <2>2. SUFFICES ASSUME NEW p \in PVs, (field[p]["reader"] /\ IsOpen(p, "reader"))',
                        NEW l \in (1..Len(told[p]))'
                 PROVE  Informed(p, l)'
    BY DEF Learning
  <2>3. CASE p = task.pv
    <3>1. Unstarted(p)
      BY <2>1, <2>3 DEF Starts, NoMoreStarts
    <3>2. ~connected'[p] /\ told'[p][l] # "up"
      BY <2>1, <2>2, <3>1 DEF Unstarted
    <3> QED
      BY <2>1, <3>2 DEF Informed
  <2>4. CASE p # task.pv
    <3>1. Informed(p, l) /\ (Queued(Tells(p, l))' <=> Queued(Tells(p, l)))
      BY <2>1, <2>2, <2>4, QueuedStays DEF Learning
    <3> QED
      BY <1>1, <2>1, <3>1
  <2> QED
    BY <2>3, <2>4
<1>11. ASSUME UNCHANGED <<tasks, connected, told, cmd, cpc>>,
              \A p \in PVs : handle'[p]["reader"] = handle[p]["reader"] /\ field'[p]["reader"] = field[p]["reader"],
              npc \in {"check", "use"} => task.kind = "permission" \/ ~field[task.pv]["reader"]
       PROVE  Learning'
  <2>1. SUFFICES ASSUME NEW p \in PVs, (field[p]["reader"] /\ IsOpen(p, "reader"))',
                        NEW l \in (1..Len(told[p]))'
                 PROVE  Informed(p, l)'
    BY DEF Learning
  <2>2. Informed(p, l) /\ (Queued(Tells(p, l))' <=> Queued(Tells(p, l))) /\ field[p]["reader"]
    BY <1>11, <2>1, QueuedStays DEF Learning
  <2>3. npc \in {"check", "use"} => task \notin Tells(p, l)
    BY <1>11, <2>2, TellsFact
  <2> QED
    BY <1>1, <1>11, <2>2, <2>3
<1>12. CASE StartWriter
  <2>1. /\ npc = "startWriter" /\ UNCHANGED <<tasks, connected, told, cmd, cpc>>
        /\ \A p \in PVs : handle'[p]["reader"] = handle[p]["reader"] /\ field'[p]["reader"] = field[p]["reader"]
    BY <1>12 DEF StartWriter, ThreadGoes, Opens, Control, TypeOK
  <2> QED
    BY <1>11, <2>1
<1>13. CASE CountDown \/ ListenerSends
  BY <1>11, <1>13 DEF CountDown, ListenerSends, ThreadGoes
<1>14. CASE ListenerFindsNull
  BY <1>11, <1>14 DEF ListenerFindsNull, ThreadGoes, HandleOf
<1>15. CASE ListenerChecks
  <2>1. /\ npc = "check" /\ task' = task /\ task \in Task /\ task.pv \in PVs
        /\ task.kind \in {"event", "update", "permission"}
        /\ UNCHANGED <<tasks, cmd, cpc, handle, field>>
    BY <1>15 DEF ListenerChecks, ThreadGoes, Control, StartPC, TypeOK, Task
  <2>2. SUFFICES ASSUME NEW p \in PVs, (field[p]["reader"] /\ IsOpen(p, "reader"))',
                        NEW l \in (1..Len(told[p]))'
                 PROVE  Informed(p, l)'
    BY DEF Learning
  <2>3. field[p]["reader"] /\ IsOpen(p, "reader")
    BY <2>1, <2>2
  <2>4. Queued(Tells(p, l))' <=> Queued(Tells(p, l))
    BY <2>1, QueuedStays
  <2>5. told'[p] = told[p]
    <3>1. \A what : Tell(what) => (task.pv # p => told'[p] = told[p])
      BY <2>1, TellFact
    <3> QED
      BY <1>15, <2>3, <3>1 DEF ListenerChecks
  <2>6. Informed(p, l)
    BY <2>2, <2>3, <2>5 DEF Learning
  <2>7. CASE task.pv = p /\ task.kind # "permission"
    <3>1. npc' = "use"
      BY <1>15, <2>3, <2>7 DEF ListenerChecks, ThreadGoes, HandleOf
    <3>2. CASE task.kind = "event"
      BY <2>1, <2>7, <3>1, <3>2 DEF Informed, Tells, TellsOf
    <3>3. CASE task.kind # "event"
      BY <1>1, <1>15, <2>1, <2>4, <2>5, <2>6, <3>1, <3>3 DEF ListenerChecks
    <3> QED
      BY <3>2, <3>3
  <2>8. CASE task.pv # p \/ task.kind = "permission"
    <3>1. connected'[p] = connected[p]
      BY <1>15, <2>1, <2>8 DEF ListenerChecks, TypeOK
    <3>2. task \notin Tells(p, l)
      BY <2>8, TellsFact
    <3> QED
      BY <1>1, <2>1, <2>4, <2>5, <2>6, <3>1, <3>2
  <2> QED
    BY <2>7, <2>8
<1>16. CASE ListenerUses
  <2>1. /\ npc = "use" /\ npc' = "send" /\ task' = task /\ task \in Task /\ task.pv \in PVs
        /\ task.kind \in {"event", "update", "permission"}
        /\ UNCHANGED <<tasks, cmd, cpc, handle, field, connected>>
    BY <1>16 DEF ListenerUses, ThreadGoes, Control, StartPC, TypeOK, Task
  <2>2. CASE task.kind = "permission"
    BY <1>11, <1>16, <2>1, <2>2 DEF ListenerUses
  <2>3. CASE task.kind # "permission"
    <3> DEFINE what == IF connected[task.pv] THEN "up" ELSE "down"
    <3>1. Tell(what)
      BY <1>16, <2>3 DEF ListenerUses
    <3>2. /\ Len(told'[task.pv]) = Len(told[task.pv])
          /\ \A l \in 1..Len(told[task.pv]) :
               told'[task.pv][l] = IF l \in Audience THEN what ELSE told[task.pv][l]
          /\ \A q \in PVs : q # task.pv => told'[q] = told[q]
      BY <2>1, <3>1, TellFact
    <3>3. SUFFICES ASSUME NEW p \in PVs, (field[p]["reader"] /\ IsOpen(p, "reader"))',
                          NEW l \in (1..Len(told[p]))'
                   PROVE  Informed(p, l)'
      BY DEF Learning
    <3>4. l \in 1..Len(told[p])
      BY <3>2, <3>3
    <3>5. Informed(p, l)
      BY <2>1, <3>3, <3>4 DEF Learning
    <3>6. Queued(Tells(p, l))' <=> Queued(Tells(p, l))
      BY <2>1, QueuedStays
    <3>7. CASE p = task.pv /\ l \in Audience
      <4>1. told'[p][l] = what
        BY <3>2, <3>4, <3>7
      <4> QED
        BY <2>1, <3>7, <4>1 DEF Informed
    <3>8. CASE p # task.pv
      <4>1. task \notin Tells(p, l)
        BY <3>8, TellsFact
      <4> QED
        BY <1>1, <2>1, <3>2, <3>5, <3>6, <3>8, <4>1
    <3>9. CASE p = task.pv /\ l \notin Audience
      <4>1. task.listener # All /\ task.listener # l
        BY <3>4, <3>9 DEF Audience
      <4>2. task.kind # "event"
        BY <2>1, <4>1 DEF ToAll, Partial
      <4>3. task \notin Tells(p, l)
        BY <4>1, <4>2 DEF Tells
      <4>4. told'[p][l] = told[p][l] /\ Len(told'[p]) = Len(told[p])
        BY <3>2, <3>4, <3>9
      <4> QED
        BY <2>1, <3>5, <3>6, <4>3, <4>4, InformedStays
    <3> QED
      BY <3>7, <3>8, <3>9
  <2> QED
    BY <2>2, <2>3
<1> QED
  BY <1>3, <1>4, <1>5, <1>7, <1>8, <1>9, <1>10, <1>12, <1>13, <1>14, <1>15, <1>16, OtherSteps
     DEF Telling, NotificationThread

(* No PV has a listener at first. *)
LEMMA InitLInv == Init => LInv
<1> SUFFICES ASSUME Init
             PROVE  LInv
  OBVIOUS
<1>1. \A K : ~Queued(K)
  BY DEF Init, Queued
<1>2. ToAll
  BY <1>1 DEF Init, ToAll
<1>3. Starts
  BY <1>1 DEF Init, Starts, Unstarted, Handles
<1>4. Learning
  BY DEF Init, Learning
<1> QED
  BY <1>2, <1>3, <1>4 DEF LInv

(* Every listener of a PV has told its client what the connection of the PV is,  *)
(* as soon as nothing is to be done for the PV any more, whenever it was added:  *)
(* before start(), between two events, or while one is being told of.            *)
THEOREM ListenersLearnHolds == Spec => []ListenersLearn
<1>1. IInv /\ LInv /\ [Next]_vars => LInv'
  BY ToAllStep, StartsStep, LearningStep DEF IInv, LInv
<1>2. ASSUME IInv, LInv
      PROVE  ListenersLearn
  <2> SUFFICES ASSUME NEW p \in created, Quiet(p), field[p]["reader"], handle[p]["reader"] = "open",
                      NEW l \in 1..Len(told[p])
               PROVE  told[p][l] = "paused" \/ (told[p][l] = "up" <=> connected[p])
    BY DEF ListenersLearn
  <2>1. Informed(p, l)
    BY <1>2 DEF IInv, TypeOK, LInv, Learning, IsOpen
  <2>2. ~Queued(Tells(p, l)) /\ (npc # "idle" => task \notin Tells(p, l))
    BY TellsFact DEF Quiet, Queued
  <2> QED
    BY <2>1, <2>2 DEF Informed, Quiet
<1> QED
  BY <1>1, <1>2, InitLInv, Invariance, PTL DEF Spec

-----------------------------------------------------------------------------
(* start() waits only for what the notification thread has still to do: the      *)
(* task it has submitted is neither lost, nor taken by a thread that has gone on *)
(* to others without counting the latch down.                                    *)
StartUnderway ==
  cpc = "await" =>
    \/ cmd.pv \in latched
    \/ \E k \in 1..Len(tasks) : tasks[k].kind = "start" /\ tasks[k].pv = cmd.pv
    \/ npc \in {"startReader", "startWriter", "countDown"} /\ task.pv = cmd.pv

(* The command that waits for start() waits for the latch of its PV: it is       *)
(* counted down, or the start is in the queue or under way.                      *)
Underway == cpc = "await" => cmd.pv \in latched \/ InStart(cmd.pv)

LEMMA UnderwayStep ==
  ASSUME TypeOK, Control, Fresh, Once, Underway, [Next]_vars
  PROVE  Underway'
<1> USE PVsAssumption DEF Handles, session, sessionVars, stopVars, pvVars, fieldVars, readerVars,
        threadVars, madeVars, cmdVars, logVars
<1>t. TypeOK'
  BY TypingStep
<1>p. cpc = "await" => cmd.pv \in PVs
  BY DEF Control, UsesPV, Busy, TypeOK
<1>1. ASSUME cpc' = "await" => cpc = "await" /\ cmd' = cmd, latched' = latched,
             UNCHANGED <<tasks, npc, task>>
      PROVE  Underway'
  BY <1>1, <1>p, QueueStays DEF Underway, InStart
<1>2. CASE \E op \in Op, i \in Ids : Begin(op, i)
  BY <1>1, <1>2 DEF Begin
<1>3. CASE GetPV
  BY <1>1, <1>3 DEF GetPV
<1>4. CASE AddPV \/ AddListener
  BY <1>1, <1>4 DEF AddPV, AddListener, Goes
<1>5. CASE \E h \in Handles : \/ CheckField(h, "checkReader", "useReader", "checkWriter")
                              \/ CheckField(h, "checkWriter", "useWriter", "start")
                              \/ CheckField(h, "check", "use", "idle")
                              \/ FindsNull(h, "useReader") \/ FindsNull(h, "useWriter") \/ FindsNull(h, "use")
  BY <1>1, <1>5 DEF CheckField, FindsNull, Goes
<1>6. CASE UpdateLater \/ PermissionForLater
  <2>1. cpc' # "await"
    BY <1>6 DEF UpdateLater, PermissionForLater, Goes
  <2> QED
    BY <2>1 DEF Underway
<1>7. CASE Start
  <2>1. cmd.pv \in PVs /\ cpc' = (IF cmd.isNew THEN "await" ELSE "idle") /\ (cmd.isNew => cmd' = cmd)
    BY <1>7 DEF Start, Goes, Control, UsesPV, Busy, TypeOK
  <2>2. cmd.isNew => \A q \in PVs : q = cmd.pv => StartQueued(q)'
    BY <1>7, StartTask
  <2> QED
    BY <2>1, <2>2 DEF Underway, InStart
<1>8. CASE StartReturns \/ StartTimesOut \/ SetPaused \/ SetValue \/ RemovePV \/ EndRemovePV
  BY <1>1, <1>8 DEF StartReturns, StartTimesOut, SetPaused, SetValue, RemovePV, EndRemovePV, Goes
<1>9. CASE Close \/ EndClose
  BY <1>1, <1>9 DEF Close, EndClose
<1>10. CASE Stop
  BY <1>1, <1>10 DEF Stop, StopBegins, StopCloses, StopNulls, StopClearsFlag
<1>11. ASSUME UNCHANGED <<cmd, cpc, latched>>,
              \A p \in PVs : StartQueued(p)' <=> StartQueued(p),
              npc \in StartPC => npc' \in StartPC /\ task' = task
       PROVE  Underway'
  BY <1>11, <1>p DEF Underway, InStart
<1>12. ASSUME NEW p \in PVs, NEW kind \in {"event", "permission"}, Event(kind, p)
       PROVE  Underway'
  BY <1>11, <1>12, EventTask DEF Event
<1>13. CASE TakeTask
  <2>1. /\ npc' = IF Head(tasks).kind = "start" THEN "startReader" ELSE "check"
        /\ npc = "idle" /\ task' = Head(tasks) /\ tasks # <<>> /\ tasks' = Tail(tasks)
        /\ UNCHANGED <<cmd, cpc, latched>>
    BY <1>13 DEF TakeTask, ThreadGoes
  <2>2. \A p \in PVs : StartQueued(p) => StartQueued(p)' \/ (Head(tasks).kind = "start" /\ Head(tasks).pv = p)
    BY <2>1, QueueShrinks
  <2> QED
    BY <1>p, <2>1, <2>2 DEF Underway, InStart, StartPC
<1>14. CASE StartReader \/ StartWriter
  BY <1>11, <1>14, QueueStays DEF StartReader, StartWriter, ThreadGoes, StartPC
<1>15. CASE CountDown
  BY <1>15, <1>p, QueueStays DEF CountDown, ThreadGoes, Underway, InStart, StartPC
<1>16. CASE ListenerChecks \/ ListenerFindsNull \/ ListenerUses \/ ListenerSends
  BY <1>11, <1>16, QueueStays
     DEF ListenerChecks, ListenerFindsNull, ListenerUses, ListenerSends, ThreadGoes, StartPC
<1>17. CASE UNCHANGED vars
  BY <1>1, <1>17 DEF vars
<1> QED
  BY <1>2, <1>3, <1>4, <1>5, <1>6, <1>7, <1>8, <1>9, <1>10, <1>12, <1>13, <1>14, <1>15, <1>16,
     <1>17 DEF Next, ContainerThread, AddListenerGoesOn, UsePV, NotificationThread

(* A command never waits for a start() that nobody is going to run: for any      *)
(* number of PVs and commands, and whatever closes the session meanwhile.        *)
THEOREM StartUnderwayHolds == Spec => []StartUnderway
<1>1. Init => Underway
  BY DEF Init, Underway
<1>2. IInv /\ Underway /\ [Next]_vars => Underway'
  BY UnderwayStep DEF IInv
<1>3. Underway => StartUnderway
  BY DEF Underway, StartUnderway, InStart, StartQueued, StartPC
<1> QED
  BY <1>1, <1>2, <1>3, Invariance, PTL DEF Spec

=============================================================================
