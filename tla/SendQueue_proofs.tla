-------------------------- MODULE SendQueue_proofs --------------------------
(***************************************************************************)
(* Theorems about SendQueue, for any senders, workers, sizes and limits.    *)
(***************************************************************************)
EXTENDS SendQueue, SequenceTheorems, TLAPS

(* A message has a size. *)
LEMMA SizeOfNat == \A m \in Message : SizeOf(m) \in Nat
BY SendersAssumption DEF Message, SizeOf

(* What a worker holds stays typed when it goes to "to" holding h ... *)
LEMMA HandType ==
  ASSUME WorkerType, NEW w \in Workers, NEW to \in WorkerPC, NEW h \in Seq(Message),
         Len(h) = IF to \in Holding THEN 1 ELSE 0,
         wpc' = [wpc EXCEPT ![w] = to], hand' = [hand EXCEPT ![w] = h]
  PROVE  WorkerType'
<1>1. wpc' \in [Workers -> WorkerPC] /\ hand' \in [Workers -> Seq(Message)]
  BY DEF WorkerType
<1>2. \A v \in Workers : wpc'[v] = (IF v = w THEN to ELSE wpc[v]) /\ hand'[v] = IF v = w THEN h ELSE hand[v]
  BY DEF WorkerType
<1>3. \A v \in Workers : Len(hand'[v]) = IF wpc'[v] \in Holding THEN 1 ELSE 0
  BY <1>2 DEF WorkerType
<1> QED
  BY <1>1, <1>3 DEF WorkerType

(* ... or nothing. *)
LEMMA NoHandType ==
  ASSUME WorkerType, NEW w \in Workers, NEW to \in WorkerPC \ Holding,
         wpc' = [wpc EXCEPT ![w] = to], hand' = [hand EXCEPT ![w] = <<>>]
  PROVE  WorkerType'
<1>1. wpc' \in [Workers -> WorkerPC] /\ hand' \in [Workers -> Seq(Message)]
  BY DEF WorkerType
<1>2. \A v \in Workers : wpc'[v] = (IF v = w THEN to ELSE wpc[v]) /\ hand'[v] = IF v = w THEN <<>> ELSE hand[v]
  BY DEF WorkerType
<1>3. \A v \in Workers : Len(hand'[v]) = IF wpc'[v] \in Holding THEN 1 ELSE 0
  BY <1>2 DEF WorkerType
<1> QED
  BY <1>1, <1>3 DEF WorkerType

-----------------------------------------------------------------------------
(* The initial state is well typed, and every step keeps the types. *)
LEMMA TypeOKInit == Init => TypeOK
<1>1. Init => SessionType /\ QueueType
  <2>1. Init => SessionType
    <3>1. Init => seen \in [Senders \cup Workers -> Int]
      BY DEF Init
    <3>2. Init => queueBytes \in Int /\ bufferSize \in Int
      BY LimitsAssumption DEF Init
    <3>3. Init => isOpen \in BOOLEAN /\ socket \in BOOLEAN /\ polling \in BOOLEAN
      BY DEF Init
    <3>4. Init => monitor \in {"free", "ping", "clearQueue", "closeSocket"}
      BY DEF Init
    <3> QED
      BY <3>1, <3>2, <3>3, <3>4 DEF SessionType
  <2>2. Init => QueueType
    BY LimitsAssumption DEF Init, QueueType
  <2> QED
    BY <2>1, <2>2
<1>2. Init => SenderType
  <2> SUFFICES ASSUME Init PROVE SenderType
    OBVIOUS
  <2>1. spc \in [Senders -> SenderPC] /\ \A s \in Senders : spc[s] = "idle"
    BY DEF Init, SenderPC
  <2>2. sent \in [Senders -> 0..MaxMessages]
    BY LimitsAssumption DEF Init
  <2> QED
    BY <2>1, <2>2 DEF SenderType
<1>3. Init => WorkerType
  BY DEF Init, WorkerType, WorkerPC, Holding
<1> QED
  BY <1>1, <1>2, <1>3 DEF TypeOK

LEMMA TypeOKStep == TypeOK /\ [Next]_vars => TypeOK'
<1> SUFFICES ASSUME TypeOK, [Next]_vars PROVE TypeOK'
  OBVIOUS
<1> USE DEF TypeOK
<1>1. ASSUME NEW s \in Senders, CallSend(s) PROVE TypeOK'
  BY <1>1, SendersAssumption, LimitsAssumption
  DEF CallSend, SessionType, QueueType, SenderType, WorkerType, SenderPC, SenderGoes, sessionVars, historyVars, workerVars
<1>2. ASSUME NEW s \in Senders, CheckPolling(s) PROVE TypeOK'
  BY <1>2, SendersAssumption, LimitsAssumption
  DEF CheckPolling, SessionType, QueueType, SenderType, WorkerType, SenderPC, SenderGoes, sessionVars, historyVars, workerVars
<1>3. ASSUME NEW s \in Senders, InitWorkingThread(s) PROVE TypeOK'
  <2>1. PICK w \in Workers : WorkerGoes(w, "free", "loop")
    BY <1>3 DEF InitWorkingThread
  <2>2. WorkerType'
    BY <1>3, <2>1 DEF InitWorkingThread, WorkerType, WorkerPC, Holding, WorkerGoes
  <2> QED
    BY <1>3, <2>2 DEF InitWorkingThread, SessionType, QueueType, SenderType, SenderPC,
       SenderGoes, sessionVars, historyVars
<1>4. ASSUME NEW s \in Senders, ReadBytes(s) PROVE TypeOK'
  BY <1>4, SendersAssumption, LimitsAssumption
  DEF ReadBytes, SessionType, QueueType, SenderType, WorkerType, SenderPC, SenderGoes, sessionVars, historyVars, workerVars
<1>5. ASSUME NEW s \in Senders, AddBytes(s) PROVE TypeOK'
  BY <1>5, SendersAssumption, LimitsAssumption
  DEF AddBytes, SessionType, QueueType, SenderType, WorkerType, SenderPC, SenderGoes, sessionVars, historyVars, workerVars
<1>6. ASSUME NEW s \in Senders, CheckSize(s) PROVE TypeOK'
  BY <1>6, SendersAssumption, LimitsAssumption
  DEF CheckSize, SessionType, QueueType, SenderType, WorkerType, SenderPC, SenderGoes, sessionVars, historyVars, workerVars
<1>7. ASSUME NEW s \in Senders, CheckBytes(s) PROVE TypeOK'
  BY <1>7, SendersAssumption, LimitsAssumption
  DEF CheckBytes, SessionType, QueueType, SenderType, WorkerType, SenderPC, SenderGoes, sessionVars, historyVars, workerVars
<1>8. ASSUME NEW s \in Senders, Offer(s) PROVE TypeOK'
  <2>1. Current(s) \in Message
    BY <1>8 DEF SenderType, Offer, SenderGoes, Message, Current
  <2>2. QueueType'
    <3>1. CASE Len(queue) < MaxQueueSize
      <4> DEFINE m == Current(s)
      <4>m. m \in Message
        BY <2>1
      <4> HIDE DEF m
      <4>1. queue' = Append(queue, m) /\ queue \in Seq(Message) /\ Len(queue) + 1 <= MaxQueueSize
        BY <1>8, <3>1, LimitsAssumption DEF QueueType, Offer, m
      <4>2. queue' \in Seq(Message) /\ Len(queue') <= MaxQueueSize
        <5>1. Append(queue, m) \in Seq(Message) /\ Len(Append(queue, m)) = Len(queue) + 1
          BY <4>m, <4>1
        <5> QED
          BY <4>1, <5>1
      <4>3. accepted' \in Seq(Message) /\ wire' = wire
        <5>1. accepted' = Append(accepted, m) /\ accepted \in Seq(Message) /\ wire' = wire
          BY <1>8, <3>1 DEF QueueType, Offer, m
        <5> QED
          BY <4>m, <5>1
      <4> QED
        BY <4>2, <4>3 DEF QueueType
    <3>2. CASE ~(Len(queue) < MaxQueueSize)
      BY <1>8, <3>2 DEF QueueType, Offer
    <3> QED
      BY <3>1, <3>2
  <2> QED
    BY <1>8, <2>2 DEF SessionType, SenderType, WorkerType, SenderPC, Offer, SenderGoes, sessionVars, workerVars
<1>9. ASSUME NEW s \in Senders, CloseFull(s) PROVE TypeOK'
  BY <1>9, SendersAssumption, LimitsAssumption
  DEF CloseFull, SessionType, QueueType, SenderType, WorkerType, SenderPC, SenderGoes, Close, workerVars, historyVars
<1>10. ASSUME NEW w \in Workers, LoopTest(w) PROVE TypeOK'
  BY <1>10, SendersAssumption, LimitsAssumption
  DEF LoopTest, SessionType, QueueType, SenderType, WorkerType, WorkerPC, Holding, WorkerGoes, sessionVars, historyVars, senderVars
<1>11. ASSUME NEW w \in Workers, Poll(w) PROVE TypeOK'
  <2>1. Head(queue) \in Message /\ Tail(queue) \in Seq(Message) /\ Len(Tail(queue)) <= MaxQueueSize
    BY <1>11, LimitsAssumption DEF QueueType, Poll
  <2>2. WorkerType'
    <3>1. /\ "checkSocket" \in WorkerPC /\ "checkSocket" \in Holding /\ <<Head(queue)>> \in Seq(Message)
          /\ Len(<<Head(queue)>>) = 1
      BY <2>1 DEF WorkerPC, Holding
    <3>2. /\ wpc' = [wpc EXCEPT ![w] = "checkSocket"] /\ hand' = [hand EXCEPT ![w] = <<Head(queue)>>] /\ WorkerType
      BY <1>11 DEF Poll, WorkerGoes
    <3> QED
      BY <3>1, <3>2, HandType
  <2> QED
    BY <1>11, <2>1, <2>2 DEF SessionType, QueueType, SenderType, Poll, sessionVars, senderVars, historyVars
<1>12. ASSUME NEW w \in Workers, PollTimeout(w) PROVE TypeOK'
  BY <1>12, SendersAssumption, LimitsAssumption
  DEF PollTimeout, SessionType, QueueType, SenderType, WorkerType, WorkerPC, Holding, WorkerGoes, sessionVars, historyVars, senderVars
<1>13. ASSUME NEW w \in Workers, CheckSocket(w) PROVE TypeOK'
  <2>1. WorkerType'
    <3>1. CASE socket
      BY <1>13, <3>1 DEF WorkerType, WorkerPC, Holding, CheckSocket, WorkerGoes
    <3>2. CASE ~socket
      <4>1. /\ wpc' = [wpc EXCEPT ![w] = "stopPolling"] /\ hand' = [hand EXCEPT ![w] = <<>>]
        BY <1>13, <3>2 DEF CheckSocket, WorkerGoes
      <4> QED
        BY <1>13, <4>1, NoHandType DEF WorkerPC, Holding
    <3> QED
      BY <3>1, <3>2
  <2> QED
    BY <1>13, <2>1 DEF SessionType, QueueType, SenderType, CheckSocket, sessionVars, senderVars, historyVars
<1>14. ASSUME NEW w \in Workers, Write(w) PROVE TypeOK'
  BY <1>14, SendersAssumption, LimitsAssumption
  DEF Write, SessionType, QueueType, SenderType, WorkerType, WorkerPC, Holding, WorkerGoes, sessionVars, senderVars
<1>15. ASSUME NEW w \in Workers, WriteThrows(w) PROVE TypeOK'
  <2>1. WorkerType'
    BY <1>15, NoHandType DEF WorkerPC, Holding, WriteThrows, WorkerGoes
  <2> QED
    BY <1>15, <2>1 DEF SessionType, QueueType, SenderType, WriteThrows, sessionVars, senderVars, historyVars
<1>16. ASSUME NEW w \in Workers, WorkerReadBytes(w) PROVE TypeOK'
  BY <1>16, SendersAssumption, LimitsAssumption
  DEF WorkerReadBytes, SessionType, QueueType, SenderType, WorkerType, WorkerPC, Holding, WorkerGoes, sessionVars, historyVars, senderVars
<1>17. ASSUME NEW w \in Workers, SubBytes(w) PROVE TypeOK'
  <2>1. WorkerType'
    BY <1>17, NoHandType DEF WorkerPC, Holding, SubBytes, WorkerGoes
  <2>2. Head(hand[w]) \in Message
      BY <1>17 DEF WorkerType, WorkerPC, Holding, SubBytes, WorkerGoes
  <2> QED
    BY <1>17, <2>1, <2>2, SizeOfNat DEF SessionType, QueueType, SenderType, SubBytes, sessionVars, senderVars, historyVars
<1>18. ASSUME NEW w \in Workers, StopPolling(w) PROVE TypeOK'
  BY <1>18, SendersAssumption, LimitsAssumption
  DEF StopPolling, SessionType, QueueType, SenderType, WorkerType, WorkerPC, Holding, WorkerGoes, sessionVars, historyVars, senderVars
<1>19. ASSUME NEW w \in Workers, Exit(w) PROVE TypeOK'
  BY <1>19, SendersAssumption, LimitsAssumption
  DEF Exit, SessionType, QueueType, SenderType, WorkerType, WorkerPC, Holding, WorkerGoes, Close, sessionVars, historyVars, senderVars
<1>20. CASE PingWrites
  BY <1>20, SendersAssumption, LimitsAssumption
  DEF PingWrites, SessionType, QueueType, SenderType, WorkerType, historyVars, senderVars, workerVars
<1>21. CASE PingReturns
  BY <1>21, SendersAssumption, LimitsAssumption
  DEF PingReturns, SessionType, QueueType, SenderType, WorkerType, historyVars, senderVars, workerVars
<1>22. CASE PingGivesUp
  BY <1>22, SendersAssumption, LimitsAssumption
  DEF PingGivesUp, SessionType, QueueType, SenderType, WorkerType, Close, senderVars, workerVars, historyVars
<1>23. CASE PingFindsClosed
  BY <1>23, SendersAssumption, LimitsAssumption
  DEF PingFindsClosed, SessionType, QueueType, SenderType, WorkerType, Close, senderVars, workerVars, historyVars
<1>24. CASE OnClose
  BY <1>24, SendersAssumption, LimitsAssumption
  DEF OnClose, SessionType, QueueType, SenderType, WorkerType, Close, senderVars, workerVars, historyVars
<1>25. CASE PeerCloses
  BY <1>25, SendersAssumption, LimitsAssumption
  DEF PeerCloses, SessionType, QueueType, SenderType, WorkerType, historyVars, senderVars, workerVars
<1>26. CASE CloseClearsQueue
  BY <1>26, SendersAssumption, LimitsAssumption
  DEF CloseClearsQueue, SessionType, QueueType, SenderType, WorkerType, historyVars, senderVars, workerVars
<1>27. CASE CloseClosesSocket
  BY <1>27, SendersAssumption, LimitsAssumption
  DEF CloseClosesSocket, SessionType, QueueType, SenderType, WorkerType, historyVars, senderVars, workerVars
<1>28. ASSUME NEW size \in BufferSizes, SetServerBufferSize(size) PROVE TypeOK'
  BY <1>28, LimitsAssumption
  DEF SessionType, QueueType, SenderType, WorkerType, SetServerBufferSize, workerVars, senderVars, historyVars
<1>29. CASE UNCHANGED vars
  BY <1>29 DEF vars, SessionType, QueueType, SenderType, WorkerType
<1> QED
  BY <1>1, <1>2, <1>3, <1>4, <1>5, <1>6, <1>7, <1>8, <1>9, <1>10, <1>11, <1>12, <1>13, <1>14, <1>15, <1>16, <1>17, <1>18, <1>19, <1>20, <1>21, <1>22, <1>23, <1>24, <1>25, <1>26, <1>27, <1>28, <1>29 DEF Next, Send, Run, Written

(* Every reachable state is well typed.  In particular messageQueue never     *)
(* exceeds MAX_QUEUE_SIZE, and a loop holds a message exactly from poll()     *)
(* until it has subtracted its size, however the threads interleave.          *)
THEOREM Typing == Spec => []TypeOK
  BY TypeOKInit, TypeOKStep, PTL DEF Spec

-----------------------------------------------------------------------------
(* The flag and the loops.                                                 *)

(* A step of a loop that does not end it leaves every active loop active. *)
LEMMA StaysActive ==
  ASSUME TypeOK, NEW w \in Workers, NEW from, NEW to \in WorkerPC \ {"free", "exit"},
         WorkerGoes(w, from, to)
  PROVE  \A v \in Workers : Active(v) => Active(v)'
BY DEF TypeOK, WorkerType, WorkerGoes, Active

(* The flag is covered by a loop, and a step that is no throw keeps it so. *)
FlagCovered == polling => \E w \in Workers : Active(w)
Throws      == \E w \in Workers : wpc[w] = "write" /\ wpc'[w] = "free"

LEMMA FlagCoveredStep ==
  ASSUME TypeOK, FlagCovered, [Next]_vars, ~Throws
  PROVE  FlagCovered'
<1>1. CASE wpc' = wpc /\ polling' = polling
  BY <1>1 DEF FlagCovered, Active
<1>2. ASSUME NEW s \in Senders, InitWorkingThread(s) PROVE FlagCovered'
  <2>1. PICK w \in Workers : WorkerGoes(w, "free", "loop")
    BY <1>2 DEF InitWorkingThread
  <2>2. wpc'[w] = "loop"
    BY <2>1 DEF TypeOK, WorkerType, WorkerGoes
  <2> QED
    BY <2>2 DEF FlagCovered, Active, WorkerPC
<1>3. ASSUME NEW w \in Workers, StopPolling(w) PROVE FlagCovered'
  BY <1>3 DEF StopPolling, FlagCovered
<1>4. ASSUME NEW w \in Workers, WriteThrows(w) PROVE FlagCovered'
  BY <1>4 DEF WriteThrows, WorkerGoes, TypeOK, WorkerType, Throws
<1>5. ASSUME NEW w \in Workers, Exit(w) PROVE FlagCovered'
  <2>1. polling' = polling
    BY <1>5 DEF Exit, Close, sessionVars
  <2>2. \A v \in Workers : Active(v) => Active(v)'
    BY <1>5 DEF Exit, WorkerGoes, TypeOK, WorkerType, Active
  <2> QED
    BY <2>1, <2>2 DEF FlagCovered
<1>6. ASSUME NEW w \in Workers,
             \/ LoopTest(w) \/ Poll(w) \/ PollTimeout(w) \/ CheckSocket(w)
             \/ Write(w) \/ WorkerReadBytes(w) \/ SubBytes(w)
      PROVE  FlagCovered'
  <2>1. polling' = polling
    BY <1>6 DEF LoopTest, Poll, PollTimeout, CheckSocket, Write, WorkerReadBytes, SubBytes
  <2>2. PICK to \in WorkerPC \ {"free", "exit"} : \E from : WorkerGoes(w, from, to)
    BY <1>6 DEF LoopTest, Poll, PollTimeout, CheckSocket, Write, WorkerReadBytes, SubBytes, WorkerPC
  <2>3. \A v \in Workers : Active(v) => Active(v)'
    BY <2>2, StaysActive
  <2> QED
    BY <2>1, <2>3 DEF FlagCovered
<1>7. ASSUME NEW s \in Senders,
             \/ CallSend(s) \/ CheckPolling(s) \/ ReadBytes(s) \/ AddBytes(s)
             \/ CheckSize(s) \/ CheckBytes(s) \/ Offer(s) \/ CloseFull(s)
      PROVE  FlagCovered'
  BY <1>1, <1>7 DEF CallSend, CheckPolling, ReadBytes, AddBytes, CheckSize, CheckBytes, Offer,
     CloseFull, Close, sessionVars, workerVars
<1>8. CASE \/ PingWrites \/ PingReturns \/ PingGivesUp \/ PingFindsClosed \/ OnClose
           \/ PeerCloses \/ CloseClearsQueue \/ CloseClosesSocket
  BY <1>1, <1>8 DEF PingWrites, PingReturns, PingGivesUp, PingFindsClosed, OnClose, PeerCloses,
     CloseClearsQueue, CloseClosesSocket, Close, workerVars
<1>9. ASSUME NEW size \in BufferSizes, SetServerBufferSize(size) PROVE FlagCovered'
  BY <1>1, <1>9 DEF SetServerBufferSize, workerVars
<1>10. CASE UNCHANGED vars
  BY <1>1, <1>10 DEF vars
<1> QED
  BY <1>2, <1>3, <1>4, <1>5, <1>6, <1>7, <1>8, <1>9, <1>10 DEF Next, Send, Run, Written

(* isOpen and the socket are never opened again. *)
LEMMA StaysClosed == [Next]_vars => (isOpen' => isOpen) /\ (socket' => socket)
BY DEF Next, vars, CallSend, Send, CheckPolling, InitWorkingThread, ReadBytes, AddBytes,
   CheckSize, CheckBytes, Offer, CloseFull, Run, LoopTest, Poll, PollTimeout, CheckSocket,
   WorkerReadBytes, SubBytes, StopPolling, Exit, Written, Write, WriteThrows,
   PingWrites, PingReturns, PingGivesUp, PingFindsClosed, OnClose, PeerCloses,
   CloseClearsQueue, CloseClosesSocket, SetServerBufferSize, Close, sessionVars

(* A session comes to be wedged, open with polling set and no loop, in no     *)
(* other step than that in which a write throws: for any number of sending    *)
(* threads and loops, and whether or not writes throw.                        *)
THEOREM WedgedOnlyByThrowHolds == Spec => WedgedOnlyByThrow
<1>1. TypeOK /\ [Next]_vars => [NeverWedged /\ ~NeverWedged' => Throws]_vars
  <2> SUFFICES ASSUME TypeOK, [Next]_vars, NeverWedged, ~NeverWedged' PROVE Throws
    OBVIOUS
  <2>1. isOpen' /\ socket' /\ Wedged'
    BY DEF NeverWedged
  <2>2. ~Wedged
    BY <2>1, StaysClosed DEF NeverWedged
  <2>3. FlagCovered /\ ~FlagCovered'
    BY <2>1, <2>2 DEF Wedged, FlagCovered
  <2> QED
    BY <2>3, FlagCoveredStep
<1> QED
  BY <1>1, Typing, PTL DEF Spec, WedgedOnlyByThrow, Throws

-----------------------------------------------------------------------------
(* One loop at a time: the path is the channel.                            *)

(* The flag that send() saw FALSE is FALSE still whenever it has come into    *)
(* initWorkingThread(): what two threads that both saw it FALSE do not keep.  *)
FreshStart ==
  \A s \in Senders : spc[s] = "initWorker" /\ spc'[s] = "readBytes" => ~polling
StartsFresh == [][FreshStart]_vars

(* Then there is at most one active loop, and it is announced by the flag;    *)
(* and the session closes before its queue and its socket do.                 *)
OneLoop ==
  /\ monitor \in {"clearQueue", "closeSocket"} => ~isOpen
  /\ \A v, w \in Workers : Active(v) /\ Active(w) => v = w
  /\ \A w \in Workers : Active(w) => polling

(* A worker's step to another control state leaves the other workers alone. *)
LEMMA OtherWorkers ==
  ASSUME TypeOK, NEW w \in Workers, NEW from, NEW to, WorkerGoes(w, from, to)
  PROVE  /\ wpc[w] = from /\ wpc'[w] = to
         /\ \A v \in Workers : v # w => wpc'[v] = wpc[v]
BY DEF TypeOK, WorkerType, WorkerGoes

LEMMA StartFindsFlag ==
  ASSUME TypeOK, [FreshStart]_vars, NEW s \in Senders, InitWorkingThread(s)
  PROVE  ~polling
<1>1. spc[s] = "initWorker" /\ spc'[s] = "readBytes"
  BY DEF InitWorkingThread, SenderGoes, TypeOK, SenderType
<1> QED
  BY <1>1 DEF FreshStart, vars

LEMMA OneLoopStep ==
  ASSUME TypeOK, OneLoop, [Next]_vars, [FreshStart]_vars
  PROVE  OneLoop'
<1> USE DEF OneLoop
<1>1. CASE /\ wpc' = wpc /\ polling' = polling
           /\ monitor' \in {"clearQueue", "closeSocket"} => ~isOpen'
  BY <1>1 DEF Active
<1>2. ASSUME NEW s \in Senders, InitWorkingThread(s) PROVE OneLoop'
  <2>1. PICK w \in Workers : WorkerGoes(w, "free", "loop")
    BY <1>2 DEF InitWorkingThread
  <2>2. \A v \in Workers : Active(v)' <=> v = w
    BY <1>2, <2>1, StartFindsFlag, OtherWorkers DEF Active, WorkerPC
  <2>4. polling' = TRUE /\ monitor' = monitor /\ isOpen' = isOpen
    BY <1>2 DEF InitWorkingThread, sessionVars
  <2> QED
    BY <2>2, <2>4
<1>3. ASSUME NEW w \in Workers, StopPolling(w) PROVE OneLoop'
  <2>1. \A v \in Workers : ~Active(v)'
    BY <1>3, OtherWorkers DEF StopPolling, Active, WorkerPC
  <2>2. polling' = FALSE /\ monitor' = monitor /\ isOpen' = isOpen
    BY <1>3 DEF StopPolling, sessionVars
  <2> QED
    BY <2>1, <2>2
<1>4. ASSUME NEW w \in Workers,
             \/ LoopTest(w) \/ Poll(w) \/ PollTimeout(w) \/ CheckSocket(w) \/ Write(w)
             \/ WriteThrows(w) \/ WorkerReadBytes(w) \/ SubBytes(w) \/ Exit(w)
      PROVE  OneLoop'
  <2>1. polling' = polling
    BY <1>4 DEF LoopTest, Poll, PollTimeout, CheckSocket, Write, WriteThrows, WorkerReadBytes,
       SubBytes, Exit, Close
  <2>2. monitor' \in {"clearQueue", "closeSocket"} => ~isOpen'
    BY <1>4 DEF LoopTest, Poll, PollTimeout, CheckSocket, Write, WriteThrows, WorkerReadBytes,
       SubBytes, Exit, Close, sessionVars
  <2>3. \A v \in Workers : Active(v)' => Active(v)
    BY <1>4, OtherWorkers DEF LoopTest, Poll, PollTimeout, CheckSocket, Write, WriteThrows,
       WorkerReadBytes, SubBytes, Exit, Active, WorkerPC
  <2> QED
    BY <2>1, <2>2, <2>3
<1>5. ASSUME NEW s \in Senders,
             \/ CallSend(s) \/ CheckPolling(s) \/ ReadBytes(s) \/ AddBytes(s)
             \/ CheckSize(s) \/ CheckBytes(s) \/ Offer(s) \/ CloseFull(s)
      PROVE  OneLoop'
  <2>1. wpc' = wpc /\ polling' = polling
    BY <1>5 DEF CallSend, CheckPolling, ReadBytes, AddBytes, CheckSize, CheckBytes, Offer,
       CloseFull, Close, workerVars
  <2>3. monitor' \in {"clearQueue", "closeSocket"} => ~isOpen'
    BY <1>5 DEF CallSend, CheckPolling, ReadBytes, AddBytes, CheckSize, CheckBytes, Offer,
       CloseFull, Close, sessionVars
  <2> QED
    BY <1>1, <2>1, <2>3
<1>6. CASE \/ PingWrites \/ PingReturns \/ PingGivesUp \/ PingFindsClosed \/ OnClose
           \/ PeerCloses \/ CloseClearsQueue \/ CloseClosesSocket
  BY <1>1, <1>6 DEF PingWrites, PingReturns, PingGivesUp, PingFindsClosed, OnClose, PeerCloses,
     CloseClearsQueue, CloseClosesSocket, Close, workerVars
<1>7. ASSUME NEW size \in BufferSizes, SetServerBufferSize(size) PROVE OneLoop'
  BY <1>1, <1>7 DEF SetServerBufferSize, workerVars
<1>8. CASE UNCHANGED vars
  BY <1>1, <1>8 DEF vars
<1> QED
  BY <1>2, <1>3, <1>4, <1>5, <1>6, <1>7, <1>8 DEF Next, Send, Run, Written

(* What a channel does to sequences. *)
LEMMA AppendConcat ==
  ASSUME NEW a \in Seq(Message), NEW b \in Seq(Message), NEW m \in Message
  PROVE  Append(a \o b, m) = a \o Append(b, m)
OBVIOUS

LEMMA HeadConcat ==
  ASSUME NEW a \in Seq(Message), NEW b \in Seq(Message), b # <<>>
  PROVE  a \o b = Append(a, Head(b)) \o Tail(b)
OBVIOUS

(* What the channel sees of the session. *)
ChannelOpen == isOpen /\ socket /\ ~Wedged
Pending     == Undelivered \o queue

(* With one loop, what is undelivered is what that loop has in hand. *)
HandView ==
  /\ \A w \in Workers : InHand(w) => Undelivered = hand[w]
  /\ (\A w \in Workers : ~InHand(w)) => Undelivered = <<>>

LEMMA UndeliveredView == OneLoop => HandView
<1> SUFFICES ASSUME OneLoop PROVE HandView
  OBVIOUS
<1>1. \A v, w \in Workers : InHand(v) /\ InHand(w) => v = w
  BY DEF OneLoop, InHand, Active, WorkerPC
<1>2. ASSUME NEW w \in Workers, InHand(w) PROVE Undelivered = hand[w]
  <2>1. (CHOOSE v \in Workers : InHand(v)) = w
    BY <1>1, <1>2
  <2> QED
    BY <1>2, <2>1 DEF Undelivered
<1>3. (\A w \in Workers : ~InHand(w)) => Undelivered = <<>>
  BY DEF Undelivered
<1> QED
  BY <1>2, <1>3 DEF HandView

LEMMA UndeliveredType == TypeOK /\ OneLoop => Undelivered \in Seq(Message)
<1> SUFFICES ASSUME TypeOK, OneLoop PROVE Undelivered \in Seq(Message)
  OBVIOUS
<1>1. CASE \E w \in Workers : InHand(w)
  BY <1>1, UndeliveredView DEF HandView, TypeOK, WorkerType
<1>2. CASE \A w \in Workers : ~InHand(w)
  <2>1. Undelivered = <<>>
    BY <1>2, UndeliveredView DEF HandView
  <2> QED
    BY <2>1
<1> QED
  BY <1>1, <1>2

LEMMA PendingType == TypeOK /\ OneLoop => Pending \in Seq(Message)
  BY UndeliveredType DEF Pending, TypeOK, QueueType

(* A closed or wedged session stays so. *)
LEMMA ChannelStaysBroken ==
  ASSUME TypeOK, OneLoop, [Next]_vars, [FreshStart]_vars, ChannelOpen'
  PROVE  ChannelOpen
<1>1. isOpen /\ socket
  BY StaysClosed DEF ChannelOpen
<1>2. ~Wedged
  <2> SUFFICES ASSUME Wedged PROVE Wedged'
    BY DEF ChannelOpen
  <2> USE DEF Wedged
  <2>1. CASE wpc' = wpc /\ polling' = polling
    BY <2>1 DEF Active
  <2>2. ASSUME NEW s \in Senders, Send(s) \/ CallSend(s) PROVE wpc' = wpc /\ polling' = polling
    BY <2>2, StartFindsFlag DEF CallSend, Send, CheckPolling, ReadBytes, AddBytes,
       CheckSize, CheckBytes, Offer, CloseFull, Close, workerVars
  <2>3. ASSUME NEW w \in Workers, Exit(w) PROVE Wedged'
    <3>1. polling' = polling
      BY <2>3 DEF Exit, Close
    <3>2. \A v \in Workers : Active(v)' => Active(v)
      BY <2>3, OtherWorkers DEF Exit, Active, WorkerPC
    <3> QED
      BY <3>1, <3>2
  <2>4. ASSUME NEW w \in Workers, (Run(w) /\ ~Exit(w)) \/ Written(w) PROVE FALSE
    BY <2>4 DEF Active, WorkerPC, WorkerGoes, Run, LoopTest, Poll, PollTimeout, CheckSocket,
       WorkerReadBytes, SubBytes, StopPolling, Written, Write, WriteThrows
  <2>5. CASE \/ PingWrites \/ PingReturns \/ PingGivesUp \/ PingFindsClosed \/ OnClose
             \/ PeerCloses \/ CloseClearsQueue \/ CloseClosesSocket
             \/ (\E size \in BufferSizes : SetServerBufferSize(size)) \/ UNCHANGED vars
    BY <2>1, <2>5 DEF PingWrites, PingReturns, PingGivesUp, PingFindsClosed, OnClose, PeerCloses,
       CloseClearsQueue, CloseClosesSocket, SetServerBufferSize, Close, workerVars, vars
  <2> QED
    BY <2>1, <2>2, <2>3, <2>4, <2>5 DEF Next
<1> QED
  BY <1>1, <1>2 DEF ChannelOpen

LEMMA SubSeqWhole ==
  ASSUME NEW S, NEW seq \in Seq(S)
  PROVE  SubSeq(seq, 0 + 1, Len(seq)) = seq /\ Len(seq) \in Nat
OBVIOUS

(* A step that moves no message is a stutter of the channel, or breaks it. *)
LEMMA QuietStep ==
  ASSUME TypeOK, OneLoop, [Next]_vars, [FreshStart]_vars,
         Pending' = Pending, UNCHANGED historyVars
  PROVE  [AChannel!Next]_(AChannel!vars)
<1>1. CASE ChannelOpen' = ChannelOpen
  BY <1>1 DEF AChannel!vars, ChannelOpen, Pending, historyVars
<1>2. CASE ChannelOpen' # ChannelOpen
  <2>1. ChannelOpen' = FALSE
    BY <1>2, ChannelStaysBroken DEF ChannelOpen
  <2>2. Pending = SubSeq(Pending, 0 + 1, Len(Pending)) /\ Len(Pending) \in Nat
    BY PendingType, SubSeqWhole
  <2>3. \E i, j \in 0..Len(Pending) : Pending' = SubSeq(Pending, i + 1, j)
    <3>1. 0 \in 0..Len(Pending) /\ Len(Pending) \in 0..Len(Pending)
      BY <2>2
    <3> QED
      BY <2>2, <3>1
  <2>4. AChannel!Break
    BY <2>1, <2>3 DEF AChannel!Break, ChannelOpen, Pending, historyVars
  <2> QED
    BY <2>4 DEF AChannel!Next
<1> QED
  BY <1>1, <1>2

LEMMA UndeliveredViewNext == OneLoop' => HandView'
  BY UndeliveredView, PTL

(* A step that changes neither the queue nor a message in hand moves nothing. *)
LEMMA QuietPending ==
  ASSUME OneLoop, OneLoop', queue' = queue,
         \A w \in Workers : InHand(w)' <=> InHand(w),
         \A w \in Workers : InHand(w) => hand'[w] = hand[w]
  PROVE  Pending' = Pending
<1>1. HandView /\ HandView'
  BY UndeliveredView, UndeliveredViewNext
<1>2. CASE \E w \in Workers : InHand(w)
  BY <1>1, <1>2 DEF HandView, Pending
<1>3. CASE \A w \in Workers : ~InHand(w)
  BY <1>1, <1>3 DEF HandView, Pending
<1> QED
  BY <1>2, <1>3

(* poll() moves a message from the queue to a hand: for the channel, nothing. *)
LEMMA PollQuiet ==
  ASSUME TypeOK, OneLoop, OneLoop', NEW w \in Workers, Poll(w)
  PROVE  Pending' = Pending
<1>1. Undelivered = <<>>
  <2>1. \A v \in Workers : ~InHand(v)
    BY DEF OneLoop, Poll, WorkerGoes, InHand, Active, WorkerPC
  <2> QED
    BY <2>1, UndeliveredView DEF HandView
<1>2. Undelivered' = <<Head(queue)>>
  <2>1. InHand(w)' /\ hand'[w] = <<Head(queue)>>
    BY DEF TypeOK, WorkerType, Poll, WorkerGoes, InHand
  <2> QED
    BY <2>1, UndeliveredViewNext DEF HandView
<1>3. queue \in Seq(Message) /\ queue # <<>> /\ queue' = Tail(queue)
  BY DEF TypeOK, QueueType, Poll
<1>4. <<Head(queue)>> \o Tail(queue) = <<>> \o queue
  BY <1>3
<1> QED
  BY <1>1, <1>2, <1>3, <1>4 DEF Pending

(* offer() of a message the queue has room for is Accept. *)
LEMMA OfferAccepts ==
  ASSUME TypeOK, OneLoop, OneLoop', NEW s \in Senders, Offer(s), Len(queue) < MaxQueueSize
  PROVE  AChannel!Next
<1>1. Current(s) \in Message
  BY DEF TypeOK, SenderType, Offer, SenderGoes, Message, Current
<1>2. queue' = Append(queue, Current(s)) /\ accepted' = Append(accepted, Current(s)) /\ wire' = wire
  BY DEF Offer
<1>3. wpc' = wpc /\ hand' = hand /\ ChannelOpen' = ChannelOpen
  BY DEF Offer, workerVars, sessionVars, ChannelOpen, Wedged, Active
<1>4. Undelivered' = Undelivered
  BY <1>3 DEF Undelivered, InHand
<1>5. Undelivered \in Seq(Message) /\ queue \in Seq(Message)
  BY UndeliveredType DEF TypeOK, QueueType
<1>6. Pending' = Append(Pending, Current(s))
  <2> DEFINE m == Current(s)
  <2>1. m \in Message
    BY <1>1
  <2> HIDE DEF m
  <2>2. Undelivered \o Append(queue, m) = Append(Undelivered \o queue, m)
    BY <1>5, <2>1, AppendConcat
  <2> QED
    BY <1>2, <1>4, <2>2 DEF Pending, m
<1> QED
  BY <1>1, <1>2, <1>3, <1>6 DEF AChannel!Next, AChannel!Accept, ChannelOpen, Pending

(* What is in hand is one message. *)
LEMMA InHandOne ==
  ASSUME TypeOK, NEW w \in Workers, InHand(w)
  PROVE  \E m \in Message : hand[w] = <<m>>
<1>1. Len(hand[w]) = 1 /\ hand[w] \in Seq(Message)
  BY DEF InHand, TypeOK, WorkerType, Holding
<1>2. hand[w][1] \in Message
  BY <1>1
<1>3. hand[w] = <<hand[w][1]>>
  BY <1>1
<1> QED
  BY <1>2, <1>3

(* A write that returns is Deliver. *)
LEMMA WriteDelivers ==
  ASSUME TypeOK, OneLoop, OneLoop', NEW w \in Workers, Write(w)
  PROVE  AChannel!Next
<1>1. PICK m \in Message : hand[w] = <<m>>
  BY InHandOne DEF Write, WorkerGoes, InHand
<1>2. Undelivered = <<m>>
  BY <1>1, UndeliveredView DEF Write, WorkerGoes, InHand, HandView
<1>3. Undelivered' = <<>>
  <2>1. \A v \in Workers : ~InHand(v)'
    <3>1. ~InHand(w)'
      BY OtherWorkers DEF Write, InHand
    <3>2. \A v \in Workers : v # w => ~InHand(v)'
      BY OtherWorkers DEF OneLoop, Write, InHand, Active, WorkerPC
    <3> QED
      BY <3>1, <3>2
  <2> QED
    BY <2>1, UndeliveredViewNext DEF HandView
<1>4. queue' = queue /\ queue \in Seq(Message) /\ wire \in Seq(Message)
  BY DEF Write, TypeOK, QueueType
<1>5. Pending # <<>> /\ Head(Pending) = m /\ Tail(Pending) = queue /\ Pending' = queue
  BY <1>2, <1>3, <1>4 DEF Pending
<1>6. wire' = Append(wire, m) /\ accepted' = accepted
  BY <1>1, <1>4 DEF Write
<1>7. ChannelOpen' = ChannelOpen
  <2>1. Active(w) /\ Active(w)'
    BY OtherWorkers DEF Write, Active, WorkerPC
  <2>2. isOpen' = isOpen /\ socket' = socket
    BY DEF Write, sessionVars
  <2> QED
    BY <2>1, <2>2 DEF ChannelOpen, Wedged
<1> QED
  BY <1>5, <1>6, <1>7 DEF AChannel!Next, AChannel!Deliver, ChannelOpen, Pending

(* Losing the front or the back of what is pending breaks the channel. *)
LEMMA BreakStep ==
  ASSUME ChannelOpen' = FALSE, UNCHANGED historyVars,
         NEW a \in Seq(Message), NEW b \in Seq(Message),
         Pending = a \o b, Pending' = a \/ Pending' = b
  PROVE  AChannel!Next
<1>1. Len(a \o b) \in Nat /\ Len(a) \in 0..Len(a \o b) /\ 0 \in 0..Len(a \o b)
  OBVIOUS
<1>2. a = SubSeq(a \o b, 0 + 1, Len(a))
  OBVIOUS
<1>3. b = SubSeq(a \o b, Len(a) + 1, Len(a \o b))
  OBVIOUS
<1> DEFINE n == Len(a \o b)
           k == Len(a)
<1>4. /\ 0 \in 0..n /\ k \in 0..n /\ n \in 0..n
      /\ a = SubSeq(Pending, 0 + 1, k) /\ b = SubSeq(Pending, k + 1, n) /\ n = Len(Pending)
  BY <1>1, <1>2, <1>3
<1> HIDE DEF n, k
<1>5. \E i, j \in 0..Len(Pending) : Pending' = SubSeq(Pending, i + 1, j)
  BY <1>4, Zenon
<1> QED
  BY <1>5 DEF AChannel!Next, AChannel!Break, ChannelOpen, Pending, historyVars

(* A message dropped off a closed socket, or by a write that throws: the      *)
(* session has no socket, or has just been wedged.                            *)
LEMMA DropBreaks ==
  ASSUME TypeOK, OneLoop, OneLoop', NEW w \in Workers,
         (CheckSocket(w) /\ ~socket) \/ WriteThrows(w)
  PROVE  AChannel!Next
<1>1. InHand(w) /\ Undelivered = hand[w] /\ hand[w] \in Seq(Message)
  BY UndeliveredView DEF CheckSocket, WriteThrows, WorkerGoes, InHand, HandView, TypeOK, WorkerType
<1>2. Undelivered' = <<>>
  <2>1. ~InHand(w)'
    BY OtherWorkers DEF CheckSocket, WriteThrows, InHand
  <2>2. \A v \in Workers : v # w => ~InHand(v)'
    BY <1>1, OtherWorkers DEF OneLoop, CheckSocket, WriteThrows, InHand, Active, WorkerPC
  <2> QED
    BY <2>1, <2>2, UndeliveredViewNext DEF HandView
<1>3. queue' = queue /\ queue \in Seq(Message) /\ UNCHANGED historyVars
  BY DEF CheckSocket, WriteThrows, TypeOK, QueueType
<1>4. ChannelOpen' = FALSE
  <2>1. CASE CheckSocket(w) /\ ~socket
    BY <2>1 DEF CheckSocket, ChannelOpen, sessionVars
  <2>2. CASE WriteThrows(w)
    <3>1. polling' /\ ~Active(w)'
      BY <2>2, OtherWorkers DEF WriteThrows, OneLoop, Active, WorkerPC
    <3>2. \A v \in Workers : v # w => ~Active(v)'
      BY <2>2, OtherWorkers DEF WriteThrows, OneLoop, Active, WorkerPC
    <3> QED
      BY <3>1, <3>2 DEF ChannelOpen, Wedged
  <2> QED
    BY <2>1, <2>2
<1>5. Pending = hand[w] \o queue /\ Pending' = queue
  BY <1>1, <1>2, <1>3 DEF Pending
<1> QED
  BY <1>1, <1>3, <1>4, <1>5, BreakStep

(* close() empties the queue of a session that is no longer open. *)
LEMMA ClearBreaks ==
  ASSUME TypeOK, OneLoop, CloseClearsQueue
  PROVE  AChannel!Next
<1>1. Undelivered' = Undelivered /\ Undelivered \in Seq(Message)
  BY UndeliveredType DEF CloseClearsQueue, workerVars, Undelivered, InHand
<1>2. queue' = <<>> /\ queue \in Seq(Message) /\ UNCHANGED historyVars
  BY DEF CloseClearsQueue, TypeOK, QueueType
<1>3. ChannelOpen' = FALSE
  BY DEF CloseClearsQueue, OneLoop, ChannelOpen
<1>4. Pending = Undelivered \o queue /\ Pending' = Undelivered
  BY <1>1, <1>2 DEF Pending
<1> QED
  BY <1>1, <1>2, <1>3, <1>4, BreakStep

(* Every step of the session is a step of the channel, or none. *)
LEMMA ChannelStep ==
  ASSUME TypeOK, OneLoop, OneLoop', [Next]_vars, [FreshStart]_vars
  PROVE  [AChannel!Next]_(AChannel!vars)
<1>1. CASE queue' = queue /\ wpc' = wpc /\ hand' = hand /\ UNCHANGED historyVars
  <2>1. Pending' = Pending
    BY <1>1, QuietPending DEF InHand
  <2> QED
    BY <1>1, <2>1, QuietStep
<1>2. ASSUME NEW s \in Senders, CallSend(s) \/ (Send(s) /\ ~Offer(s) /\ ~InitWorkingThread(s))
      PROVE  [AChannel!Next]_(AChannel!vars)
  BY <1>1, <1>2 DEF CallSend, Send, CheckPolling, ReadBytes, AddBytes, CheckSize, CheckBytes,
     CloseFull, Close, sessionVars, workerVars, historyVars
<1>3. ASSUME NEW s \in Senders, InitWorkingThread(s) PROVE [AChannel!Next]_(AChannel!vars)
  <2>1. PICK w \in Workers : WorkerGoes(w, "free", "loop")
    BY <1>3 DEF InitWorkingThread
  <2>2. \A v \in Workers : InHand(v)' <=> InHand(v)
    BY <2>1, OtherWorkers DEF InHand
  <2>3. queue' = queue /\ hand' = hand /\ UNCHANGED historyVars
    BY <1>3 DEF InitWorkingThread, historyVars
  <2> QED
    BY <2>2, <2>3, QuietPending, QuietStep
<1>4. ASSUME NEW s \in Senders, Offer(s) PROVE [AChannel!Next]_(AChannel!vars)
  <2>1. CASE Len(queue) < MaxQueueSize
    BY <1>4, <2>1, OfferAccepts
  <2>2. CASE ~(Len(queue) < MaxQueueSize)
    BY <1>1, <1>4, <2>2 DEF Offer, workerVars, historyVars
  <2> QED
    BY <2>1, <2>2
<1>5. ASSUME NEW w \in Workers,
             \/ LoopTest(w) \/ PollTimeout(w) \/ (CheckSocket(w) /\ socket)
             \/ WorkerReadBytes(w) \/ SubBytes(w) \/ StopPolling(w) \/ Exit(w)
      PROVE  [AChannel!Next]_(AChannel!vars)
  <2>1. \A v \in Workers : InHand(v)' <=> InHand(v)
    BY <1>5, OtherWorkers DEF LoopTest, PollTimeout, CheckSocket, WorkerReadBytes, SubBytes,
       StopPolling, Exit, InHand
  <2>2. \A v \in Workers : InHand(v) => hand'[v] = hand[v]
    BY <1>5 DEF LoopTest, PollTimeout, CheckSocket, WorkerReadBytes, SubBytes, StopPolling, Exit,
       WorkerGoes, InHand, TypeOK, WorkerType
  <2>3. queue' = queue /\ UNCHANGED historyVars
    BY <1>5 DEF LoopTest, PollTimeout, CheckSocket, WorkerReadBytes, SubBytes, StopPolling, Exit,
       Close
  <2> QED
    BY <2>1, <2>2, <2>3, QuietPending, QuietStep
<1>6. ASSUME NEW w \in Workers, Poll(w) PROVE [AChannel!Next]_(AChannel!vars)
  BY <1>6, PollQuiet, QuietStep DEF Poll
<1>7. ASSUME NEW w \in Workers, (CheckSocket(w) /\ ~socket) \/ WriteThrows(w)
      PROVE  [AChannel!Next]_(AChannel!vars)
  BY <1>7, DropBreaks
<1>8. ASSUME NEW w \in Workers, Write(w) PROVE [AChannel!Next]_(AChannel!vars)
  BY <1>8, WriteDelivers
<1>9. CASE CloseClearsQueue
  BY <1>9, ClearBreaks
<1>10. CASE \/ PingWrites \/ PingReturns \/ PingGivesUp \/ PingFindsClosed \/ OnClose
            \/ PeerCloses \/ CloseClosesSocket
  BY <1>1, <1>10 DEF PingWrites, PingReturns, PingGivesUp, PingFindsClosed, OnClose, PeerCloses,
     CloseClosesSocket, Close, workerVars
<1>11. ASSUME NEW size \in BufferSizes, SetServerBufferSize(size)
       PROVE  [AChannel!Next]_(AChannel!vars)
  BY <1>1, <1>11 DEF SetServerBufferSize, workerVars
<1>12. CASE UNCHANGED vars
  BY <1>1, <1>12 DEF vars, historyVars
<1> QED
  BY <1>2, <1>3, <1>4, <1>5, <1>6, <1>7, <1>8, <1>9, <1>10, <1>11, <1>12
  DEF Next, Send, Run, Written

LEMMA OneLoopInit == Init => OneLoop
  BY DEF Init, OneLoop, Active, WorkerPC

LEMMA ChannelInit == Init => AChannel!Init
<1> SUFFICES ASSUME Init PROVE AChannel!Init
  OBVIOUS
<1>1. \A w \in Workers : ~InHand(w) /\ ~Active(w)
  BY DEF Init, InHand, Active, WorkerPC
<1>2. Undelivered = <<>>
  BY <1>1 DEF Undelivered
<1> QED
  BY <1>2 DEF Init, AChannel!Init, Wedged

(* Any number of threads may call send(): if none of them starts a loop       *)
(* although the flag has been set since it looked, the polling flag, the      *)
(* pool, the deque and close() together are the ordered channel, and deliver  *)
(* every accepted message once and in order until the session closes.         *)
(* Nothing else in the code reorders messages.                                *)
THEOREM FreshImplementsChannel == Spec /\ StartsFresh => ImplementsChannel
<1>1. TypeOK /\ OneLoop /\ [Next]_vars /\ [FreshStart]_vars => OneLoop'
  BY OneLoopStep
<1>2. Spec /\ StartsFresh => []OneLoop
  BY <1>1, OneLoopInit, Typing, PTL DEF Spec, StartsFresh
<1>3. TypeOK /\ OneLoop /\ OneLoop' /\ [Next]_vars /\ [FreshStart]_vars
        => [AChannel!Next]_(AChannel!vars)
  BY ChannelStep
<1> QED
  BY <1>2, <1>3, ChannelInit, Typing, PTL DEF Spec, StartsFresh, ImplementsChannel, AChannel!Spec

(* The wire is what the queue accepted, short of what is pending; and when a  *)
(* write that threw has taken the loop away, still a beginning of it.         *)
InOrder ==
  /\ ChannelOpen => accepted = wire \o Pending
  /\ isOpen /\ socket => \E rest \in Seq(Message) : accepted = wire \o rest

LEMMA PendingTypeNext == TypeOK' /\ OneLoop' => Pending' \in Seq(Message)
<1>1. TypeOK' /\ OneLoop' => (Pending \in Seq(Message))'
  BY PendingType, PTL
<1> QED
  BY <1>1

LEMMA InOrderStep ==
  ASSUME TypeOK, OneLoop, OneLoop', InOrder, [Next]_vars, [FreshStart]_vars
  PROVE  InOrder'
<1> DEFINE Extends == \E rest \in Seq(Message) : accepted = wire \o rest
<1>1. accepted \in Seq(Message) /\ wire \in Seq(Message) /\ Pending \in Seq(Message)
  BY PendingType DEF TypeOK, QueueType
<1>2. (isOpen' => isOpen) /\ (socket' => socket)
  BY StaysClosed
<1>3. ChannelOpen' => accepted' = (wire \o Pending)'
  <2> SUFFICES ASSUME ChannelOpen' PROVE accepted' = wire' \o Pending'
    OBVIOUS
  <2>1. ChannelOpen /\ accepted = wire \o Pending
    BY ChannelStaysBroken DEF InOrder
  <2>2. CASE UNCHANGED (AChannel!vars)
    BY <2>1, <2>2 DEF AChannel!vars, Pending
  <2>3. CASE \E m \in Message : AChannel!Accept(m)
    <3>0. PICK m \in Message : AChannel!Accept(m)
      BY <2>3
    <3>1. accepted' = Append(accepted, m) /\ Pending' = Append(Pending, m) /\ wire' = wire
      BY <3>0 DEF AChannel!Accept, Pending
    <3>2. Append(wire \o Pending, m) = wire \o Append(Pending, m)
      BY <1>1, <3>0, AppendConcat
    <3> QED
      BY <2>1, <3>1, <3>2
  <2>4. CASE AChannel!Deliver
    <3>1. /\ Pending # <<>> /\ wire' = Append(wire, Head(Pending))
          /\ Pending' = Tail(Pending) /\ accepted' = accepted
      BY <2>4 DEF AChannel!Deliver, Pending
    <3>2. wire \o Pending = Append(wire, Head(Pending)) \o Tail(Pending)
      BY <1>1, <3>1, HeadConcat
    <3> QED
      BY <2>1, <3>1, <3>2
  <2>5. CASE AChannel!Break
    BY <2>5 DEF AChannel!Break, ChannelOpen
  <2> QED
    BY <2>2, <2>3, <2>4, <2>5, ChannelStep DEF AChannel!Next
<1>4. isOpen' /\ socket' => Extends'
  <2> SUFFICES ASSUME isOpen', socket' PROVE Extends'
    OBVIOUS
  <2>1. Extends
    BY <1>2 DEF InOrder
  <2>2. CASE ChannelOpen'
    <3>1. Pending' \in Seq(Message)
      <4>1. TypeOK'
        BY TypeOKStep
      <4> QED
        BY <4>1, PendingTypeNext
    <3> QED
      BY <2>2, <1>3, <3>1
  <2>3. CASE ~ChannelOpen'
    <3>1. ~\E w \in Workers : Write(w)
      <4> SUFFICES ASSUME NEW w \in Workers, Write(w) PROVE FALSE
        OBVIOUS
      <4>1. Active(w)'
        BY OtherWorkers DEF Write, Active, WorkerPC
      <4> QED
        BY <2>3, <4>1 DEF ChannelOpen, Wedged
    <3>2. wire' = wire
      BY <3>1 DEF Next, vars, CallSend, Send, CheckPolling, InitWorkingThread, ReadBytes, AddBytes,
         CheckSize, CheckBytes, Offer, CloseFull, Run, LoopTest, Poll, PollTimeout, CheckSocket,
         WorkerReadBytes, SubBytes, StopPolling, Exit, Written, WriteThrows,
         PingWrites, PingReturns, PingGivesUp, PingFindsClosed, OnClose, PeerCloses,
         CloseClearsQueue, CloseClosesSocket, SetServerBufferSize, Close, historyVars
    <3>3. accepted' = accepted \/ \E m \in Message : accepted' = Append(accepted, m)
      BY ChannelStep DEF AChannel!Next, AChannel!vars, AChannel!Accept, AChannel!Deliver, AChannel!Break
    <3>4. PICK rest \in Seq(Message) : accepted = wire \o rest
      BY <2>1
    <3>5. CASE accepted' = accepted
      BY <3>2, <3>4, <3>5
    <3>6. ASSUME NEW m \in Message, accepted' = Append(accepted, m) PROVE Extends'
      <4>1. Append(wire \o rest, m) = wire \o Append(rest, m)
        BY <1>1, <3>4, <3>6, AppendConcat
      <4>2. Append(rest, m) \in Seq(Message)
        BY <3>4, <3>6
      <4> QED
        BY <3>2, <3>4, <3>6, <4>1, <4>2
    <3> QED
      BY <3>3, <3>5, <3>6
  <2> QED
    BY <2>2, <2>3
<1> QED
  BY <1>3, <1>4 DEF InOrder

(* So the client sees the messages in the order in which the queue took them, *)
(* even after a write has thrown: the overlapping starts are the only cause   *)
(* of the reordering that run send_reorder shows.                             *)
THEOREM FreshOrdered == Spec /\ StartsFresh => []OrderedTransmission
<1>1. Init => InOrder
  <2> SUFFICES ASSUME Init PROVE InOrder
    OBVIOUS
  <2>1. accepted = <<>> /\ wire = <<>> /\ Pending = <<>>
    BY ChannelInit DEF AChannel!Init, Pending
  <2>2. accepted = wire \o Pending /\ <<>> \in Seq(Message) /\ accepted = wire \o <<>>
    BY <2>1
  <2> QED
    BY <2>2 DEF InOrder
<1>2. TypeOK /\ OneLoop /\ [Next]_vars /\ [FreshStart]_vars => OneLoop'
  BY OneLoopStep
<1>3. TypeOK /\ OneLoop /\ OneLoop' /\ InOrder /\ [Next]_vars /\ [FreshStart]_vars => InOrder'
  BY InOrderStep
<1>4. TypeOK /\ InOrder => OrderedTransmission
  <2> SUFFICES ASSUME TypeOK, InOrder, isOpen, socket
               PROVE  /\ Len(wire) <= Len(accepted)
                      /\ \A i \in 1..Len(wire) : wire[i] = accepted[i]
    BY DEF OrderedTransmission
  <2>1. PICK rest \in Seq(Message) : accepted = wire \o rest
    BY DEF InOrder
  <2> QED
    BY <2>1 DEF TypeOK, QueueType
<1> QED
  BY <1>1, <1>2, <1>3, <1>4, OneLoopInit, Typing, PTL DEF Spec, StartsFresh

(* A thread that is the only one to call send() starts its loops fresh: all   *)
(* that resets or sets the flag meanwhile is a loop that stops.               *)
LEMMA OneSenderStartsFresh ==
  ASSUME NEW s0, Senders = {s0}
  PROVE  Spec => StartsFresh
<1> DEFINE SeenFalse == spc[s0] = "initWorker" => ~polling
<1>1. Init => SeenFalse
  BY DEF Init
<1>2. TypeOK /\ SeenFalse /\ [Next]_vars => SeenFalse'
  <2> SUFFICES ASSUME TypeOK, SeenFalse, [Next]_vars PROVE SeenFalse'
    OBVIOUS
  <2>1. CASE CallSend(s0) \/ Send(s0)
    BY <2>1 DEF CallSend, Send, CheckPolling, InitWorkingThread, ReadBytes, AddBytes, CheckSize,
       CheckBytes, Offer, CloseFull, SenderGoes, Close, TypeOK, SenderType
  <2>2. CASE spc' = spc /\ (polling' => polling)
    BY <2>2
  <2> QED
    BY <2>1, <2>2 DEF Next, vars, Run, LoopTest, Poll, PollTimeout, CheckSocket, WorkerReadBytes,
       SubBytes, StopPolling, Exit, Written, Write, WriteThrows, PingWrites, PingReturns,
       PingGivesUp, PingFindsClosed, OnClose, PeerCloses, CloseClearsQueue, CloseClosesSocket,
       SetServerBufferSize, Close, senderVars, sessionVars
<1>3. SeenFalse /\ [Next]_vars => [FreshStart]_vars
  BY DEF FreshStart
<1> QED
  BY <1>1, <1>2, <1>3, Typing, PTL DEF Spec, StartsFresh

-----------------------------------------------------------------------------
(* Any number of senders: no message twice, none lost.                     *)

(* send() has offered m, if at all, in an earlier call: each message is       *)
(* offered once.                                                              *)
Offered(m) ==
  /\ m[2] <= sent[m[1]]
  /\ spc[m[1]] # "idle" => m[2] < sent[m[1]]

OnlyOffered ==
  /\ \A i \in 1..Len(queue) : Offered(queue[i])
  /\ \A i \in 1..Len(wire) : Offered(wire[i])
  /\ \A w \in Workers : InHand(w) => Offered(hand[w][1])

Once == NoDuplicate /\ OnlyOffered

(* What has been offered stays so. *)
LEMMA OfferedStays ==
  ASSUME TypeOK, [Next]_vars, NEW m \in Message, Offered(m)
  PROVE  Offered(m)'
<1>1. m[1] \in Senders /\ m[2] \in Nat
  BY LimitsAssumption DEF Message
<1>2. ASSUME NEW s \in Senders, CallSend(s) PROVE Offered(m)'
  BY <1>1, <1>2 DEF CallSend, SenderGoes, Offered, TypeOK, SenderType
<1>3. ASSUME NEW s \in Senders, Send(s) PROVE Offered(m)'
  <2>1. sent' = sent /\ spc[s] # "idle" /\ \E to : spc' = [spc EXCEPT ![s] = to]
    BY <1>3 DEF Send, CheckPolling, InitWorkingThread, ReadBytes, AddBytes, CheckSize, CheckBytes,
       Offer, CloseFull, SenderGoes
  <2> QED
    BY <1>1, <2>1 DEF Offered, TypeOK, SenderType
<1>4. CASE spc' = spc /\ sent' = sent
  BY <1>4 DEF Offered
<1> QED
  BY <1>2, <1>3, <1>4 DEF Next, Run, Written, LoopTest, Poll, PollTimeout, CheckSocket, Write, WriteThrows,
     WorkerReadBytes, SubBytes, StopPolling, Exit, PingWrites, PingReturns, PingGivesUp,
     PingFindsClosed, OnClose, PeerCloses, CloseClearsQueue, CloseClosesSocket,
     SetServerBufferSize, senderVars, vars

(* What every step of the session keeps: who has something in hand, and what,  *)
(* unless it is one of the five that move a message.                           *)
Moves ==
  \/ \E s \in Senders : Offer(s)
  \/ \E w \in Workers : Poll(w) \/ CheckSocket(w) \/ Write(w) \/ WriteThrows(w)
  \/ CloseClearsQueue

LEMMA OthersMoveNothing ==
  ASSUME TypeOK, [Next]_vars, ~Moves
  PROVE  /\ queue' = queue /\ wire' = wire /\ accepted' = accepted
         /\ \A w \in Workers : InHand(w)' <=> InHand(w)
         /\ \A w \in Workers : InHand(w) => hand'[w] = hand[w]
<1>1. queue' = queue /\ wire' = wire /\ accepted' = accepted
  BY DEF Moves, Next, Send, Run, Written, CallSend, CheckPolling, InitWorkingThread, ReadBytes,
     AddBytes, CheckSize, CheckBytes, CloseFull, LoopTest, PollTimeout, WorkerReadBytes, SubBytes,
     StopPolling, Exit, PingWrites, PingReturns, PingGivesUp, PingFindsClosed, OnClose, PeerCloses,
     CloseClosesSocket, SetServerBufferSize, Close, sessionVars, historyVars, vars
<1>2. CASE wpc' = wpc /\ hand' = hand
  BY <1>1, <1>2 DEF InHand
<1>3. ASSUME NEW w \in Workers, NEW from \in WorkerPC \ {"checkSocket", "write"},
             NEW to \in WorkerPC \ {"checkSocket", "write"}, WorkerGoes(w, from, to),
             \A v \in Workers : v # w => hand'[v] = hand[v]
      PROVE  /\ \A v \in Workers : InHand(v)' <=> InHand(v)
             /\ \A v \in Workers : InHand(v) => hand'[v] = hand[v]
  BY <1>3, OtherWorkers DEF InHand
<1>4. ASSUME NEW s \in Senders, InitWorkingThread(s)
      PROVE  /\ \A v \in Workers : InHand(v)' <=> InHand(v)
             /\ \A v \in Workers : InHand(v) => hand'[v] = hand[v]
  BY <1>3, <1>4 DEF InitWorkingThread, WorkerPC
<1>5. ASSUME NEW w \in Workers, Run(w)
      PROVE  /\ \A v \in Workers : InHand(v)' <=> InHand(v)
             /\ \A v \in Workers : InHand(v) => hand'[v] = hand[v]
  <2>1. \A v \in Workers : v # w => hand'[v] = hand[v]
    BY <1>5 DEF Run, Moves, LoopTest, PollTimeout, WorkerReadBytes, SubBytes, StopPolling, Exit,
       TypeOK, WorkerType
  <2>2. \E from, to \in WorkerPC \ {"checkSocket", "write"} : \/ WorkerGoes(w, from, to)
                                                               \/ WorkerGoes(w, "loop", "poll")
    BY <1>5 DEF Run, Moves, LoopTest, PollTimeout, WorkerReadBytes, SubBytes, StopPolling, Exit,
       WorkerPC
  <2> QED
    BY <1>3, <2>1, <2>2 DEF WorkerPC
<1> QED
  BY <1>1, <1>2, <1>4, <1>5 DEF Moves, Next, Send, Written, CallSend, CheckPolling, ReadBytes,
     AddBytes, CheckSize, CheckBytes, CloseFull, PingWrites, PingReturns, PingGivesUp,
     PingFindsClosed, OnClose, PeerCloses, CloseClosesSocket, SetServerBufferSize,
     workerVars, vars

(* The message of the call in progress has not been offered; after offer() it *)
(* has.                                                                       *)
LEMMA OfferOnce ==
  ASSUME TypeOK, TypeOK', Once, NEW s \in Senders, Offer(s)
  PROVE  Once'
<1> DEFINE m == Current(s)
<1>1. m \in Message /\ ~Offered(m)
  <2>1. spc[s] = "offer" /\ sent[s] \in 1..MaxMessages
    BY LimitsAssumption DEF Offer, SenderGoes, TypeOK, SenderType
  <2> QED
    BY <2>1 DEF Current, Message, Offered
<1>2. [Next]_vars
  BY DEF Next, Send
<1>3. wire' = wire /\ wpc' = wpc /\ hand' = hand /\ sent' = sent
  BY DEF Offer, workerVars
<1>4. \A w \in Workers : InHand(w)' <=> InHand(w)
  BY <1>3 DEF InHand
<1>5. queue \in Seq(Message) /\ wire \in Seq(Message)
  BY DEF TypeOK, QueueType
<1>6. \A w \in Workers : InHand(w) => hand[w][1] \in Message
  BY InHandOne
<1>7. \A n \in Message : Offered(n) => Offered(n)'
  BY <1>2, OfferedStays
<1>8. CASE Len(queue) < MaxQueueSize
  <2>1. m[2] <= sent'[m[1]] /\ (spc'[m[1]] # "idle" => m[2] < sent'[m[1]])
    <3>1. spc' = [spc EXCEPT ![s] = "idle"] /\ sent[s] \in Nat
      BY <1>8, LimitsAssumption DEF Offer, SenderGoes, TypeOK, SenderType
    <3> QED
      BY <1>3, <3>1 DEF Current, TypeOK, SenderType
  <2> HIDE DEF m
  <2>2. queue' = Append(queue, m)
    BY <1>8 DEF Offer, m
  <2>3. /\ Len(queue') = Len(queue) + 1 /\ Len(queue) \in Nat
        /\ \A i \in 1..Len(queue) : queue'[i] = queue[i]
        /\ queue'[Len(queue) + 1] = m
    BY <1>1, <1>5, <2>2
  <2>4. \A i \in 1..Len(queue') : queue'[i] = m \/ \E j \in 1..Len(queue) : i = j /\ queue'[i] = queue[j]
    BY <2>3
  <2>5. OnlyOffered'
    <3>1. \A i \in 1..Len(queue') : Offered(queue[i])'
      <4>1. \A j \in 1..Len(queue) : queue[j] \in Message /\ Offered(queue[j])
        BY <1>5 DEF Once, OnlyOffered
      <4>2. \A j \in 1..Len(queue) : /\ queue[j][2] <= sent'[queue[j][1]]
                                     /\ spc'[queue[j][1]] # "idle" => queue[j][2] < sent'[queue[j][1]]
        BY <1>7, <4>1 DEF Offered
      <4> QED
        BY <2>1, <2>4, <4>2 DEF Offered
    <3>2. \A i \in 1..Len(wire') : Offered(wire[i])'
      BY <1>3, <1>5, <1>7 DEF Once, OnlyOffered, Offered
    <3>3. \A w \in Workers : InHand(w)' => Offered(hand[w][1])'
      BY <1>3, <1>4, <1>6, <1>7 DEF Once, OnlyOffered, Offered
    <3> QED
      BY <3>1, <3>2, <3>3 DEF OnlyOffered
  <2>6. /\ \A i \in 1..Len(queue) : queue[i] # m
        /\ \A i \in 1..Len(wire) : wire[i] # m
        /\ \A w \in Workers : InHand(w) => hand[w][1] # m
    BY <1>1 DEF Once, OnlyOffered
  <2>7. \A i, j \in 1..Len(queue') : queue'[i] = queue'[j] => i = j
    BY <2>3, <2>4, <2>6 DEF Once, NoDuplicate
  <2>8. \A i \in 1..Len(queue') : ~Occurs(queue'[i], wire)
    BY <2>4, <2>6 DEF Once, NoDuplicate, Occurs
  <2>9. \A v \in Workers : InHand(v) => ~Occurs(hand[v][1], queue')
    BY <2>4, <2>6 DEF Once, NoDuplicate, Occurs
  <2>10. \A x : Occurs(x, queue)' <=> Occurs(x, queue')
    BY DEF Occurs
  <2>11. NoDuplicate'
    BY <1>3, <1>4, <2>7, <2>8, <2>9 DEF Once, NoDuplicate, Occurs
  <2> QED
    BY <2>5, <2>11 DEF Once
<1>9. CASE ~(Len(queue) < MaxQueueSize)
  <2>1. queue' = queue
    BY <1>9 DEF Offer
  <2>2. OnlyOffered'
    BY <1>3, <1>4, <1>5, <1>6, <1>7, <2>1 DEF Once, OnlyOffered
  <2>3. NoDuplicate'
    BY <1>3, <1>4, <2>1 DEF Once, NoDuplicate, Occurs
  <2> QED
    BY <2>2, <2>3 DEF Once
<1> QED
  BY <1>8, <1>9

(* poll() moves the head of the queue into a hand. *)
LEMMA PollOnce ==
  ASSUME TypeOK, TypeOK', Once, NEW w \in Workers, Poll(w)
  PROVE  Once'
<1>1. [Next]_vars
  BY DEF Next, Run
<1>2. wire' = wire /\ queue \in Seq(Message) /\ queue # <<>> /\ wire \in Seq(Message)
  BY DEF Poll, historyVars, TypeOK, QueueType
<1>3. \A n \in Message : Offered(n) => Offered(n)'
  BY <1>1, OfferedStays
<1>4. /\ Len(queue') = Len(queue) - 1 /\ Len(queue) \in Nat /\ Len(queue) > 0
      /\ \A i \in 1..Len(queue') : i + 1 \in 1..Len(queue) /\ queue'[i] = queue[i + 1]
  BY <1>2 DEF Poll
<1>5. ~InHand(w) /\ InHand(w)' /\ hand'[w][1] = queue[1] /\ hand'[w] = <<queue[1]>> /\ 1 \in 1..Len(queue)
  BY <1>2, <1>4, OtherWorkers DEF Poll, InHand, TypeOK, WorkerType
<1>6. \A v \in Workers : v # w => (InHand(v)' <=> InHand(v)) /\ hand'[v] = hand[v]
  BY OtherWorkers DEF Poll, InHand, TypeOK, WorkerType
<1>7. \A v \in Workers : InHand(v) => hand[v][1] \in Message /\ hand[v] = <<hand[v][1]>>
  BY InHandOne
<1>8. OnlyOffered'
  <2>1. \A i \in 1..Len(queue') : Offered(queue[i])'
    BY <1>2, <1>3, <1>4 DEF Once, OnlyOffered, Offered
  <2>2. \A i \in 1..Len(wire') : Offered(wire[i])'
    BY <1>2, <1>3 DEF Once, OnlyOffered, Offered
  <2>3. \A v \in Workers : InHand(v)' => Offered(hand[v][1])'
    BY <1>2, <1>3, <1>5, <1>6, <1>7 DEF Once, OnlyOffered, Offered
  <2> QED
    BY <2>1, <2>2, <2>3 DEF OnlyOffered
<1>9. NoDuplicate'
  <2>1. \A i, j \in 1..Len(queue') : queue'[i] = queue'[j] => i = j
    BY <1>4 DEF Once, NoDuplicate
  <2>2. \A i \in 1..Len(queue') : ~Occurs(queue'[i], wire)
    BY <1>4 DEF Once, NoDuplicate
  <2>3. /\ \A i \in 1..Len(queue') : queue'[i] # queue[1]
        /\ ~Occurs(queue[1], wire)
    BY <1>4, <1>5 DEF Once, NoDuplicate
  <2>4. \A v \in Workers : InHand(v) =>
          /\ \A i \in 1..Len(queue') : queue'[i] # hand[v][1]
          /\ ~Occurs(hand[v][1], wire) /\ hand[v][1] # queue[1]
    BY <1>4, <1>5 DEF Once, NoDuplicate, Occurs
  <2>5. \A v, u \in Workers : InHand(v)' /\ InHand(u)' /\ hand'[v] = hand'[u] => v = u
    BY <1>5, <1>6, <1>7, <2>4 DEF Once, NoDuplicate
  <2>6. \A v \in Workers : InHand(v)' =>
          ~Occurs(hand[v][1], queue)' /\ ~Occurs(hand[v][1], wire)'
    BY <1>2, <1>5, <1>6, <2>3, <2>4 DEF Occurs
  <2>7. \A i \in 1..Len(queue') : ~Occurs(queue[i], wire)'
    BY <1>2, <2>2 DEF Occurs
  <2> QED
    BY <2>1, <2>5, <2>6, <2>7, <1>2 DEF Once, NoDuplicate
<1> QED
  BY <1>8, <1>9 DEF Once

(* A write that returns moves the message on to the wire. *)
LEMMA WriteOnce ==
  ASSUME TypeOK, TypeOK', Once, NEW w \in Workers, Write(w)
  PROVE  Once'
<1>1. [Next]_vars
  BY DEF Next, Written
<1>2. queue' = queue /\ hand' = hand /\ queue \in Seq(Message) /\ wire \in Seq(Message)
  BY DEF Write, TypeOK, QueueType
<1>3. \A n \in Message : Offered(n) => Offered(n)'
  BY <1>1, OfferedStays
<1>4. InHand(w) /\ ~InHand(w)' /\ \A v \in Workers : v # w => (InHand(v)' <=> InHand(v))
  BY OtherWorkers DEF Write, InHand
<1>5. PICK m \in Message : hand[w] = <<m>>
  BY <1>4, InHandOne
<1>6. wire' = Append(wire, m)
  BY <1>2, <1>5 DEF Write
<1>7. /\ Len(wire') = Len(wire) + 1 /\ Len(wire) \in Nat /\ wire'[Len(wire) + 1] = m
      /\ \A i \in 1..Len(wire) : wire'[i] = wire[i]
  BY <1>2, <1>6
<1>8. \A i \in 1..Len(wire') : wire'[i] = m \/ \E j \in 1..Len(wire) : i = j /\ wire'[i] = wire[j]
  BY <1>7
<1>9. \A v \in Workers : InHand(v) => hand[v][1] \in Message /\ hand[v] = <<hand[v][1]>>
  BY InHandOne
<1>10. hand[w][1] = m
  BY <1>5
<1>11. OnlyOffered'
  <2>1. \A i \in 1..Len(queue') : Offered(queue[i])'
    BY <1>2, <1>3 DEF Once, OnlyOffered, Offered
  <2>2. \A i \in 1..Len(wire') : Offered(wire[i])'
    <3>1. /\ \A i \in 1..Len(wire) : wire[i] \in Message /\ Offered(wire[i])
          /\ Offered(m)
      BY <1>2, <1>4, <1>10 DEF Once, OnlyOffered
    <3> QED
      BY <1>3, <1>8, <3>1 DEF Offered
  <2>3. \A v \in Workers : InHand(v)' => Offered(hand[v][1])'
    BY <1>2, <1>3, <1>4, <1>9 DEF Once, OnlyOffered, Offered
  <2> QED
    BY <2>1, <2>2, <2>3 DEF OnlyOffered
<1>12. NoDuplicate'
  <2>1. /\ \A i \in 1..Len(wire) : wire[i] # m
        /\ \A i \in 1..Len(queue) : queue[i] # m
        /\ \A v \in Workers : InHand(v) /\ v # w => hand[v][1] # m
    BY <1>4, <1>5, <1>9, <1>10 DEF Once, NoDuplicate, Occurs
  <2>2. \A i, j \in 1..Len(wire') : wire'[i] = wire'[j] => i = j
    BY <1>7, <1>8, <2>1 DEF Once, NoDuplicate
  <2>3. \A i \in 1..Len(queue) : ~Occurs(queue[i], wire)'
    BY <1>2, <1>8, <2>1 DEF Once, NoDuplicate, Occurs
  <2>4. \A v \in Workers : InHand(v) /\ v # w => ~Occurs(hand[v][1], wire)'
    BY <1>2, <1>8, <2>1 DEF Once, NoDuplicate, Occurs
  <2> QED
    BY <1>2, <1>4, <2>2, <2>3, <2>4 DEF Once, NoDuplicate, Occurs
<1> QED
  BY <1>11, <1>12 DEF Once

(* A step that at most drops messages keeps what is left apart. *)
LEMMA DropOnce ==
  ASSUME TypeOK, TypeOK', Once, [Next]_vars, wire' = wire,
         queue' = queue \/ queue' = <<>>,
         \A w \in Workers : InHand(w)' => InHand(w) /\ hand'[w] = hand[w]
  PROVE  Once'
<1>1. \A n \in Message : Offered(n) => Offered(n)'
  BY OfferedStays
<1>2. queue \in Seq(Message) /\ wire \in Seq(Message)
  BY DEF TypeOK, QueueType
<1>3. \A v \in Workers : InHand(v) => hand[v][1] \in Message
  BY InHandOne
<1>4. Len(queue') = 0 \/ queue' = queue
  OBVIOUS
<1>5. \A i \in 1..Len(queue') : i \in 1..Len(queue) /\ queue'[i] = queue[i]
  BY <1>2, <1>4
<1>6. OnlyOffered'
  <2>1. \A i \in 1..Len(queue') : Offered(queue[i])'
    <3>1. \A i \in 1..Len(queue') : queue'[i] \in Message /\ Offered(queue'[i])
      BY <1>2, <1>5 DEF Once, OnlyOffered
    <3> QED
      BY <1>1, <3>1 DEF Offered
  <2>2. \A i \in 1..Len(wire') : Offered(wire[i])'
    BY <1>1, <1>2 DEF Once, OnlyOffered, Offered
  <2>3. \A v \in Workers : InHand(v)' => Offered(hand[v][1])'
    BY <1>1, <1>3 DEF Once, OnlyOffered, Offered
  <2> QED
    BY <2>1, <2>2, <2>3 DEF OnlyOffered
<1>7. NoDuplicate'
  BY <1>5 DEF Once, NoDuplicate, Occurs
<1> QED
  BY <1>6, <1>7 DEF Once

LEMMA OnceStep == TypeOK /\ TypeOK' /\ Once /\ [Next]_vars => Once'
<1> SUFFICES ASSUME TypeOK, TypeOK', Once, [Next]_vars PROVE Once'
  OBVIOUS
<1>1. CASE ~Moves
  BY <1>1, OthersMoveNothing, DropOnce
<1>2. ASSUME NEW w \in Workers, CheckSocket(w) \/ WriteThrows(w) PROVE Once'
  <2>1. wire' = wire /\ queue' = queue
    BY <1>2 DEF CheckSocket, WriteThrows, historyVars
  <2>2. \A v \in Workers : InHand(v)' => InHand(v) /\ hand'[v] = hand[v]
    BY <1>2, OtherWorkers DEF CheckSocket, WriteThrows, InHand, TypeOK, WorkerType
  <2> QED
    BY <2>1, <2>2, DropOnce
<1>3. CASE CloseClearsQueue
  BY <1>3, DropOnce DEF CloseClearsQueue, workerVars, historyVars, InHand
<1> QED
  BY <1>1, <1>2, <1>3, OfferOnce, PollOnce, WriteOnce DEF Moves

(* Whatever the number of senders and of loops: no message is twice on the    *)
(* wire, in the queue, or in a worker's hand.                                 *)
THEOREM NoDuplicateHolds == Spec => []NoDuplicate
<1>1. Init => Once
  BY DEF Init, Once, NoDuplicate, OnlyOffered, InHand, Occurs
<1>2. Once => NoDuplicate
  BY DEF Once
<1> QED
  BY <1>1, <1>2, OnceStep, Typing, PTL DEF Spec

(* An accepted message, while it can still be found. *)
Found(m) ==
  \/ Occurs(m, wire) \/ Occurs(m, queue)
  \/ \E w \in Workers : InHand(w) /\ hand[w][1] = m

(* Only a session that is no longer open has its queue cleared. *)
ClosingIsClosed == monitor \in {"clearQueue", "closeSocket"} => ~isOpen

LEMMA ClosingIsClosedStep == ClosingIsClosed /\ [Next]_vars => ClosingIsClosed'
BY DEF ClosingIsClosed, Next, vars, CallSend, Send, CheckPolling, InitWorkingThread, ReadBytes, AddBytes,
   CheckSize, CheckBytes, Offer, CloseFull, Run, LoopTest, Poll, PollTimeout, CheckSocket,
   WorkerReadBytes, SubBytes, StopPolling, Exit, Written, Write, WriteThrows,
   PingWrites, PingReturns, PingGivesUp, PingFindsClosed, OnClose, PeerCloses,
   CloseClearsQueue, CloseClosesSocket, SetServerBufferSize, Close, sessionVars

(* While nothing is closed and no write throws, what was found is found.      *)
LEMMA StaysFound ==
  ASSUME TypeOK, ClosingIsClosed, [Next]_vars, isOpen', socket', ~WriteMayThrow,
         NEW m, Found(m)
  PROVE  Found(m)'
<1>0. isOpen /\ socket
  BY StaysClosed
<1>1. queue \in Seq(Message) /\ wire \in Seq(Message)
  BY DEF TypeOK, QueueType
<1>2. CASE ~Moves
  BY <1>2, OthersMoveNothing DEF Found, Occurs
<1>3. ASSUME NEW s \in Senders, Offer(s) PROVE Found(m)'
  <2>1. wire' = wire /\ wpc' = wpc /\ hand' = hand /\ (queue' = queue \/ queue' = Append(queue, Current(s)))
    BY <1>3 DEF Offer, workerVars
  <2>2. Occurs(m, queue) => Occurs(m, queue')
    <3>1. \A x : Len(Append(queue, x)) = Len(queue) + 1
                 /\ \A i \in 1..Len(queue) : Append(queue, x)[i] = queue[i]
      BY <1>1
    <3>2. Len(queue) \in Nat
      BY <1>1
    <3> QED
      BY <2>1, <3>1, <3>2 DEF Occurs
  <2> QED
    BY <2>1, <2>2 DEF Found, Occurs, InHand
<1>4. ASSUME NEW w \in Workers, Poll(w) PROVE Found(m)'
  <2>1. wire' = wire /\ queue' = Tail(queue) /\ queue # <<>>
    BY <1>4 DEF Poll, historyVars
  <2>2. InHand(w)' /\ hand'[w] = <<Head(queue)>> /\ ~InHand(w)
    BY <1>4, OtherWorkers DEF Poll, InHand, TypeOK, WorkerType
  <2>3. \A v \in Workers : v # w => (InHand(v)' <=> InHand(v)) /\ hand'[v] = hand[v]
    BY <1>4, OtherWorkers DEF Poll, InHand, TypeOK, WorkerType
  <2>4. Occurs(m, queue) => Occurs(m, queue') \/ hand'[w][1] = m
    <3>1. hand'[w][1] = queue[1] /\ Len(queue) \in Nat
      BY <1>1, <2>2
    <3>2. Len(queue') = Len(queue) - 1 /\ \A i \in 1..Len(queue') : queue'[i] = queue[i + 1]
      BY <1>1, <2>1
    <3>3. \A i \in 1..Len(queue) : i # 1 => i - 1 \in 1..Len(queue') /\ queue'[i - 1] = queue[i]
      BY <3>1, <3>2
    <3> QED
      BY <3>1, <3>3 DEF Occurs
  <2> QED
    BY <2>1, <2>2, <2>3, <2>4 DEF Found, Occurs
<1>5. ASSUME NEW w \in Workers, CheckSocket(w) PROVE Found(m)'
  <2>1. wire' = wire /\ queue' = queue /\ \A v \in Workers : hand'[v] = hand[v]
    BY <1>0, <1>5 DEF CheckSocket, historyVars, TypeOK, WorkerType
  <2>2. \A v \in Workers : InHand(v) => InHand(v)'
    BY <1>0, <1>5, OtherWorkers DEF CheckSocket, InHand
  <2> QED
    BY <2>1, <2>2 DEF Found, Occurs
<1>6. ASSUME NEW w \in Workers, Write(w) PROVE Found(m)'
  <2>1. queue' = queue /\ hand' = hand /\ InHand(w)
    BY <1>6, OtherWorkers DEF Write, InHand
  <2>2. \A v \in Workers : v # w => (InHand(v)' <=> InHand(v))
    BY <1>6, OtherWorkers DEF Write, InHand
  <2>3. PICK n \in Message : hand[w] = <<n>>
    BY <2>1, InHandOne
  <2>4. wire' = Append(wire, n) /\ hand[w][1] = n
    BY <1>1, <1>6, <2>3 DEF Write
  <2>5. /\ Len(wire) \in Nat /\ Len(wire') = Len(wire) + 1 /\ wire'[Len(wire) + 1] = n
        /\ \A i \in 1..Len(wire) : wire'[i] = wire[i]
    BY <1>1, <2>4
  <2>6. /\ Occurs(m, wire) => Occurs(m, wire')
        /\ hand[w][1] = m => Occurs(m, wire')
    BY <2>4, <2>5 DEF Occurs
  <2> QED
    BY <2>1, <2>2, <2>6 DEF Found, Occurs
<1>7. ASSUME NEW w \in Workers, WriteThrows(w) PROVE FALSE
  BY <1>0, <1>7 DEF WriteThrows
<1>8. CASE CloseClearsQueue
  BY <1>0, <1>8 DEF CloseClearsQueue, ClosingIsClosed
<1> QED
  BY <1>2, <1>3, <1>4, <1>5, <1>6, <1>7, <1>8 DEF Moves

LEMMA NothingLostStep ==
  ASSUME TypeOK, ClosingIsClosed, NothingLost, [Next]_vars
  PROVE  NothingLost'
<1> SUFFICES ASSUME isOpen', socket', ~WriteMayThrow, NEW i \in 1..Len(accepted'), NEW m,
                    m = accepted'[i]
             PROVE  Found(m)'
  BY DEF NothingLost, Found, Occurs
<1>1. isOpen /\ socket
  BY StaysClosed
<1>2. \A j \in 1..Len(accepted) : accepted[j] = m => Found(m)'
  <2>1. \A j \in 1..Len(accepted) : Found(accepted[j])
    BY <1>1 DEF NothingLost, Found
  <2> QED
    BY <2>1, StaysFound
<1>3. CASE accepted' = accepted
  BY <1>2, <1>3
<1>4. ASSUME NEW s \in Senders, Offer(s), Len(queue) < MaxQueueSize PROVE Found(m)'
  <2>1. Current(s) \in Message
    BY <1>4, LimitsAssumption DEF Offer, SenderGoes, TypeOK, SenderType, Current, Message
  <2>2. PICK n \in Message : n = Current(s)
    BY <2>1
  <2>3. /\ accepted' = Append(accepted, n) /\ queue' = Append(queue, n)
        /\ accepted \in Seq(Message) /\ queue \in Seq(Message)
    BY <1>4, <2>2 DEF Offer, TypeOK, QueueType
  <2>4. /\ Len(queue') = Len(queue) + 1 /\ Len(queue) \in Nat /\ queue'[Len(queue) + 1] = n
    BY <2>3
  <2>5. /\ Len(accepted') = Len(accepted) + 1 /\ Len(accepted) \in Nat
        /\ accepted'[Len(accepted) + 1] = n
        /\ \A j \in 1..Len(accepted) : accepted'[j] = accepted[j]
    BY <2>3
  <2>6. m = n => Found(m)'
    BY <2>4 DEF Found, Occurs
  <2>7. m = n \/ \E j \in 1..Len(accepted) : accepted[j] = m
    BY <2>5
  <2> QED
    BY <1>2, <2>6, <2>7
<1>5. accepted' = accepted \/ \E s \in Senders : Offer(s) /\ Len(queue) < MaxQueueSize
  <2>1. CASE ~Moves
    BY <2>1, OthersMoveNothing
  <2> QED
    BY <2>1 DEF Moves, Offer, Poll, CheckSocket, Write, WriteThrows, CloseClearsQueue, historyVars
<1> QED
  BY <1>3, <1>4, <1>5

(* Whatever the number of senders and of loops: while session and socket are  *)
(* open and writes do not throw, every message the queue took is on the wire, *)
(* in the queue or in a worker's hand.                                        *)
THEOREM NothingLostHolds == Spec => []NothingLost
<1>1. Init => ClosingIsClosed /\ NothingLost
  BY DEF Init, ClosingIsClosed, NothingLost
<1>2. TypeOK /\ ClosingIsClosed /\ NothingLost /\ [Next]_vars => NothingLost'
  BY NothingLostStep
<1> QED
  BY <1>1, <1>2, ClosingIsClosedStep, Typing, PTL DEF Spec

=============================================================================
