------------------------------ MODULE SendQueue ------------------------------
(***************************************************************************)
(* The outgoing path of one ClientSession (core/clientcommand/             *)
(* ClientSession.java): send() called by several threads, the sending loop *)
(* that initWorkingThread() hands to the shared thread pool, ping() of the *)
(* heart beat thread, and close().                                         *)
(*                                                                         *)
(* One action is one access to shared state (an atomic, a queue operation, *)
(* a read or a write of the plain int currentQueueBytes), so the threads   *)
(* interleave as in the JVM.  send() and the loop read isOpen, the queue   *)
(* and the socket without the session's monitor, so close() is three steps *)
(* under it, and ping() keeps it across a blocking write.                  *)
(***************************************************************************)
EXTENDS Integers, Sequences, SequencesExt, FiniteSetsExt

CONSTANTS
  Senders,        \* threads that call send(): container thread, PV notification thread
  Workers,        \* threads of SHARED_THREAD_POOL; bounds the loops alive at a time
  Size,           \* getMessageSizeInBytes() of the messages of each sender
  MaxQueueSize,   \* MAX_QUEUE_SIZE, capacity of messageQueue
  FewMessages,    \* the literal 5 of send(): below it the byte limit is not applied
  InitBufferSize, \* initial bufferSize
  MaxBufferSize,  \* MAX_BUFFER_SIZE
  BufferSizes,    \* sizes a SetServerBufferSize command asks for
  MaxMessages,    \* bound: calls of send() by each sender
  WriteMayThrow   \* whether a write on an open socket may throw

ASSUME SendersAssumption == Size \in [Senders -> Nat]
ASSUME LimitsAssumption ==
  /\ MaxQueueSize \in Nat \ {0}
  /\ FewMessages \in Nat
  /\ InitBufferSize \in Int
  /\ MaxBufferSize \in Nat
  /\ BufferSizes \subseteq Int
  /\ MaxMessages \in Nat
  /\ WriteMayThrow \in BOOLEAN

VARIABLES
  isOpen,      \* ClientSession.isOpen
  socket,      \* session.isOpen() of the WebSocket session, TRUE while connected
  monitor,     \* the session's monitor: "free", or what its holder does next
  polling,     \* ClientSession.polling
  queue,       \* messageQueue
  queueBytes,  \* currentQueueBytes, a plain int
  bufferSize,  \* bufferSize, the byte limit
  spc,         \* where each sender stands in send()
  sent,        \* how many messages each sender has tried to send
  wpc,         \* where each worker stands in run(); "free" when it runs nothing
  hand,        \* the message a worker has polled: <<>> or <<m>>
  seen,        \* the value of queueBytes a thread has read for its += or -=
  accepted,    \* history: messages in the order messageQueue.offer took them
  wire         \* history: messages in the order they were written to the socket

sessionVars == <<isOpen, socket, monitor, bufferSize>>
historyVars == <<accepted, wire>>
senderVars  == <<spc, sent>>
workerVars  == <<wpc, hand>>
vars == <<isOpen, socket, monitor, polling, queue, queueBytes, bufferSize,
          spc, sent, wpc, hand, seen, accepted, wire>>

Message == Senders \X (1..MaxMessages)

(* The message a sender is working on: its sent[s]-th one. *)
Current(s) == <<s, sent[s]>>
SizeOf(m)  == Size[m[1]]

SenderPC == {"idle", "checkPolling", "initWorker", "readBytes", "addBytes",
             "checkSize", "checkBytes", "offer", "close"}
WorkerPC == {"free", "loop", "poll", "checkSocket", "write", "readBytes",
             "subBytes", "stopPolling", "exit"}
Holding  == {"checkSocket", "write", "readBytes", "subBytes"}

SessionType ==
  /\ isOpen \in BOOLEAN /\ socket \in BOOLEAN /\ polling \in BOOLEAN
  /\ monitor \in {"free", "ping", "clearQueue", "closeSocket"}
  /\ queueBytes \in Int /\ bufferSize \in Int
  /\ seen \in [Senders \cup Workers -> Int]

QueueType ==
  /\ queue \in Seq(Message) /\ Len(queue) <= MaxQueueSize
  /\ accepted \in Seq(Message) /\ wire \in Seq(Message)

SenderType ==
  /\ spc \in [Senders -> SenderPC] /\ sent \in [Senders -> 0..MaxMessages]
  /\ \A s \in Senders : spc[s] # "idle" => sent[s] > 0

WorkerType ==
  /\ wpc \in [Workers -> WorkerPC]
  /\ hand \in [Workers -> Seq(Message)]
  /\ \A w \in Workers : Len(hand[w]) = IF wpc[w] \in Holding THEN 1 ELSE 0

(* Types, and: the deque keeps its capacity, a worker has a message exactly   *)
(* between poll() and the end of the iteration.                               *)
TypeOK == SessionType /\ QueueType /\ SenderType /\ WorkerType

(* The constructor, after onOpen. *)
Init ==
  /\ isOpen = TRUE /\ socket = TRUE /\ monitor = "free" /\ polling = FALSE
  /\ queue = <<>> /\ queueBytes = 0 /\ bufferSize = InitBufferSize
  /\ spc = [s \in Senders |-> "idle"] /\ sent = [s \in Senders |-> 0]
  /\ wpc = [w \in Workers |-> "free"] /\ hand = [w \in Workers |-> <<>>]
  /\ seen = [t \in Senders \cup Workers |-> 0]
  /\ accepted = <<>> /\ wire = <<>>

SenderGoes(s, from, to) == spc[s] = from /\ spc' = [spc EXCEPT ![s] = to]
WorkerGoes(w, from, to) == wpc[w] = from /\ wpc' = [wpc EXCEPT ![w] = to]

-----------------------------------------------------------------------------
(* close(), synchronized, in the order of its effects.  The caller does      *)
(* nothing with the session after close(), so it is not made to wait for the *)
(* later steps; the monitor is what keeps the others out until the last one. *)
(* The PVs it stops and the security context belong to other modules.        *)
Close ==
  /\ monitor = "free"
  /\ isOpen' = FALSE
  /\ monitor' = IF isOpen THEN "clearQueue" ELSE monitor
  /\ UNCHANGED <<socket, bufferSize, polling, queue, queueBytes, seen, historyVars>>

(* messageQueue.clear() *)
CloseClearsQueue ==
  /\ monitor = "clearQueue" /\ monitor' = "closeSocket"
  /\ queue' = <<>>
  /\ UNCHANGED <<isOpen, socket, bufferSize, polling, queueBytes,
                 senderVars, workerVars, seen, historyVars>>

(* if (session.isOpen()) session.close() *)
CloseClosesSocket ==
  /\ monitor = "closeSocket" /\ monitor' = "free"
  /\ socket' = FALSE
  /\ UNCHANGED <<isOpen, bufferSize, polling, queue, queueBytes,
                 senderVars, workerVars, seen, historyVars>>

-----------------------------------------------------------------------------
(* send(message)                                                           *)

(* if (isOpen()): a call on a closed session returns without a trace. *)
CallSend(s) ==
  /\ isOpen /\ sent[s] < MaxMessages
  /\ SenderGoes(s, "idle", "checkPolling")
  /\ sent' = [sent EXCEPT ![s] = @ + 1]
  /\ UNCHANGED <<sessionVars, polling, queue, queueBytes, workerVars, seen, historyVars>>

(* if (!polling.get()) *)
CheckPolling(s) ==
  /\ SenderGoes(s, "checkPolling", IF polling THEN "readBytes" ELSE "initWorker")
  /\ UNCHANGED <<sessionVars, polling, queue, queueBytes, sent, workerVars, seen, historyVars>>

(* Mutant: the flag is left for the loop to set, and it never does. *)
InitWithoutFlag(s) ==
  /\ monitor = "free"
  /\ SenderGoes(s, "initWorker", "readBytes")
  /\ \E w \in Workers : WorkerGoes(w, "free", "loop")
  /\ UNCHANGED <<sessionVars, polling, queue, queueBytes, sent, hand, seen, historyVars>>

(* initWorkingThread(), synchronized: it sets the flag and starts one more loop. *)
InitWorkingThread(s) ==
  /\ monitor = "free"
  /\ SenderGoes(s, "initWorker", "readBytes")
  /\ polling' = TRUE
  /\ \E w \in Workers : WorkerGoes(w, "free", "loop")
  /\ UNCHANGED <<sessionVars, queue, queueBytes, sent, hand, seen, historyVars>>

(* currentQueueBytes += size, a read and a write of a plain field. *)
ReadBytes(s) ==
  /\ SenderGoes(s, "readBytes", "addBytes")
  /\ seen' = [seen EXCEPT ![s] = queueBytes]
  /\ UNCHANGED <<sessionVars, polling, queue, queueBytes, sent, workerVars, historyVars>>

AddBytes(s) ==
  /\ SenderGoes(s, "addBytes", "checkSize")
  /\ queueBytes' = seen[s] + Size[s]
  /\ seen' = [seen EXCEPT ![s] = 0]
  /\ UNCHANGED <<sessionVars, polling, queue, sent, workerVars, historyVars>>

(* result = messageQueue.size() < 5 || currentQueueBytes < bufferSize *)
CheckSize(s) ==
  /\ SenderGoes(s, "checkSize", IF Len(queue) < FewMessages THEN "offer" ELSE "checkBytes")
  /\ UNCHANGED <<sessionVars, polling, queue, queueBytes, sent, workerVars, seen, historyVars>>

CheckBytes(s) ==
  /\ SenderGoes(s, "checkBytes", IF queueBytes < bufferSize THEN "offer" ELSE "close")
  /\ UNCHANGED <<sessionVars, polling, queue, queueBytes, sent, workerVars, seen, historyVars>>

(* Mutants: no capacity check; the oldest message makes room. *)
OfferUnbounded(s) ==
  /\ SenderGoes(s, "offer", "idle")
  /\ queue' = Append(queue, Current(s)) /\ accepted' = Append(accepted, Current(s))
  /\ UNCHANGED <<sessionVars, polling, queueBytes, sent, workerVars, seen, wire>>

OfferDropsOldest(s) ==
  /\ SenderGoes(s, "offer", "idle")
  /\ queue' = Append(IF Len(queue) < MaxQueueSize THEN queue ELSE Tail(queue), Current(s))
  /\ accepted' = Append(accepted, Current(s))
  /\ UNCHANGED <<sessionVars, polling, queueBytes, sent, workerVars, seen, wire>>

(* messageQueue.offer(message): false when the deque is at its capacity. *)
Offer(s) ==
  /\ SenderGoes(s, "offer", IF Len(queue) < MaxQueueSize THEN "idle" ELSE "close")
  /\ IF Len(queue) < MaxQueueSize
       THEN queue' = Append(queue, Current(s)) /\ accepted' = Append(accepted, Current(s))
       ELSE UNCHANGED <<queue, accepted>>
  /\ UNCHANGED <<sessionVars, polling, queueBytes, sent, workerVars, seen, wire>>

(* Mutant: the message is dropped, the session stays. *)
DropFull(s) ==
  /\ SenderGoes(s, "close", "idle")
  /\ UNCHANGED <<sessionVars, polling, queue, queueBytes, sent, workerVars, seen, historyVars>>

(* if (!result) close() *)
CloseFull(s) ==
  /\ SenderGoes(s, "close", "idle")
  /\ Close
  /\ UNCHANGED <<sent, workerVars>>

-----------------------------------------------------------------------------
(* run() of the sending loop                                               *)

(* while (isOpen() ... *)
LoopTest(w) ==
  /\ WorkerGoes(w, "loop", IF isOpen THEN "poll" ELSE "stopPolling")
  /\ UNCHANGED <<sessionVars, polling, queue, queueBytes, senderVars, hand, seen, historyVars>>

(* Mutant: peek() in place of poll(). *)
Peek(w) ==
  /\ queue # <<>>
  /\ WorkerGoes(w, "poll", "checkSocket")
  /\ hand' = [hand EXCEPT ![w] = <<Head(queue)>>]
  /\ UNCHANGED <<sessionVars, polling, queue, queueBytes, senderVars, seen, historyVars>>

(* ... && (message = messageQueue.poll(10, SECONDS)) != null ... *)
Poll(w) ==
  /\ queue # <<>>
  /\ WorkerGoes(w, "poll", "checkSocket")
  /\ hand' = [hand EXCEPT ![w] = <<Head(queue)>>]
  /\ queue' = Tail(queue)
  /\ UNCHANGED <<sessionVars, polling, queueBytes, senderVars, seen, historyVars>>

(* Mutant: take(), which has no timeout. *)
TakeWaits(w) == wpc[w] = "poll" /\ FALSE /\ UNCHANGED vars

PollTimeout(w) ==
  /\ queue = <<>>
  /\ WorkerGoes(w, "poll", "stopPolling")
  /\ UNCHANGED <<sessionVars, polling, queue, queueBytes, senderVars, hand, seen, historyVars>>

(* ... && session.isOpen()): a message polled off a closed socket is dropped. *)
CheckSocket(w) ==
  /\ WorkerGoes(w, "checkSocket", IF socket THEN "write" ELSE "stopPolling")
  /\ hand' = [hand EXCEPT ![w] = IF socket THEN @ ELSE <<>>]
  /\ UNCHANGED <<sessionVars, polling, queue, queueBytes, senderVars, seen, historyVars>>

(* session.sendBinary / sendObject returns. *)
Write(w) ==
  /\ socket
  /\ WorkerGoes(w, "write", "readBytes")
  /\ wire' = wire \o hand[w]
  /\ UNCHANGED <<sessionVars, polling, queue, queueBytes, senderVars, hand, seen, accepted>>

(* It throws: the catch block around the loop logs, polling stays TRUE. *)
WriteThrows(w) ==
  /\ WriteMayThrow \/ ~socket
  /\ WorkerGoes(w, "write", "free")
  /\ hand' = [hand EXCEPT ![w] = <<>>]
  /\ UNCHANGED <<sessionVars, polling, queue, queueBytes, senderVars, seen, historyVars>>

(* currentQueueBytes -= size *)
WorkerReadBytes(w) ==
  /\ WorkerGoes(w, "readBytes", "subBytes")
  /\ seen' = [seen EXCEPT ![w] = queueBytes]
  /\ UNCHANGED <<sessionVars, polling, queue, queueBytes, senderVars, hand, historyVars>>

SubBytes(w) ==
  /\ WorkerGoes(w, "subBytes", "loop")
  /\ queueBytes' = seen[w] - SizeOf(Head(hand[w]))
  /\ seen' = [seen EXCEPT ![w] = 0]
  /\ hand' = [hand EXCEPT ![w] = <<>>]
  /\ UNCHANGED <<sessionVars, polling, queue, senderVars, historyVars>>

(* Mutant: the flag is not reset. *)
StopWithoutFlag(w) ==
  /\ WorkerGoes(w, "stopPolling", "exit")
  /\ UNCHANGED <<sessionVars, polling, queue, queueBytes, senderVars, hand, seen, historyVars>>

(* polling.set(false) *)
StopPolling(w) ==
  /\ WorkerGoes(w, "stopPolling", "exit")
  /\ polling' = FALSE
  /\ UNCHANGED <<sessionVars, queue, queueBytes, senderVars, hand, seen, historyVars>>

(* if (!session.isOpen()) if (isOpen()) close() *)
Exit(w) ==
  /\ WorkerGoes(w, "exit", "free")
  /\ IF ~socket /\ isOpen
       THEN Close
       ELSE UNCHANGED <<sessionVars, polling, queue, queueBytes, seen, historyVars>>
  /\ UNCHANGED <<senderVars, hand>>

-----------------------------------------------------------------------------
(* The other threads that touch the session.                               *)

(* ping() of the heart beat thread.  Whether retryCount is used up is the   *)
(* business of module HeartBeat: here either branch may be taken.           *)
PingWrites ==
  /\ monitor = "free" /\ isOpen /\ socket
  /\ monitor' = "ping"
  /\ UNCHANGED <<isOpen, socket, bufferSize, polling, queue, queueBytes,
                 senderVars, workerVars, seen, historyVars>>

PingReturns ==
  /\ monitor = "ping" /\ monitor' = "free"
  /\ UNCHANGED <<isOpen, socket, bufferSize, polling, queue, queueBytes,
                 senderVars, workerVars, seen, historyVars>>

PingGivesUp ==
  /\ isOpen /\ socket
  /\ Close
  /\ UNCHANGED <<senderVars, workerVars>>

(* Mutant: the closed socket is logged, nothing more. *)
PingLogsClosed == isOpen /\ ~socket /\ UNCHANGED vars

PingFindsClosed ==
  /\ isOpen /\ ~socket
  /\ Close
  /\ UNCHANGED <<senderVars, workerVars>>

(* WebPDAWSServer.onClose for a session that is still registered. *)
OnClose ==
  /\ isOpen /\ ~socket
  /\ Close
  /\ UNCHANGED <<senderVars, workerVars>>

(* The peer, or the network, ends the WebSocket session. *)
PeerCloses ==
  /\ socket
  /\ socket' = FALSE
  /\ UNCHANGED <<isOpen, monitor, bufferSize, polling, queue, queueBytes,
                 senderVars, workerVars, seen, historyVars>>

(* SetServerBufferSizeCommand.run() and setMaxQueueBytes(). *)
SetServerBufferSize(size) ==
  /\ bufferSize' = (IF size > MaxBufferSize THEN MaxBufferSize ELSE size)
  /\ UNCHANGED <<isOpen, socket, monitor, polling, queue, queueBytes,
                 senderVars, workerVars, seen, historyVars>>

-----------------------------------------------------------------------------
Send(s) ==
  \/ CheckPolling(s) \/ InitWorkingThread(s) \/ ReadBytes(s) \/ AddBytes(s)
  \/ CheckSize(s) \/ CheckBytes(s) \/ Offer(s) \/ CloseFull(s)

Run(w) ==
  \/ LoopTest(w) \/ Poll(w) \/ PollTimeout(w) \/ CheckSocket(w)
  \/ WorkerReadBytes(w) \/ SubBytes(w) \/ StopPolling(w) \/ Exit(w)

Written(w) == Write(w) \/ WriteThrows(w)

Next ==
  \/ \E s \in Senders : CallSend(s) \/ Send(s)
  \/ \E w \in Workers : Run(w) \/ Written(w)
  \/ PingWrites \/ PingReturns \/ PingGivesUp \/ PingFindsClosed
  \/ OnClose \/ PeerCloses \/ CloseClearsQueue \/ CloseClosesSocket
  \/ \E size \in BufferSizes : SetServerBufferSize(size)

Spec == Init /\ [][Next]_vars

(* A thread that can step does.  The heart beat thread sleeps a second       *)
(* between two beats, so it cannot keep a waiting thread from the monitor    *)
(* for ever: taking the monitor is strongly fair.  The heart beat finds a    *)
(* closed socket.  Callers need not call, the container need not report,     *)
(* the peer need not disconnect, ping() need not give up.                    *)
SchedulerFairness ==
  /\ \A s \in Senders : WF_vars(Send(s)) /\ SF_vars(InitWorkingThread(s) \/ CloseFull(s))
  /\ \A w \in Workers : WF_vars(Run(w))
  /\ WF_vars(PingFindsClosed) /\ WF_vars(CloseClearsQueue) /\ WF_vars(CloseClosesSocket)

(* A write on the socket comes back, with or without an exception. *)
WritesReturn ==
  /\ \A w \in Workers : WF_vars(Written(w))
  /\ WF_vars(PingReturns)

FairSpec == Spec /\ SchedulerFairness /\ WritesReturn

-----------------------------------------------------------------------------
(* Properties.                                                             *)

(* Worker w has polled a message and not yet written or dropped it. *)
InHand(w)   == wpc[w] \in {"checkSocket", "write"}
Undelivered == IF \E w \in Workers : InHand(w)
                 THEN hand[CHOOSE w \in Workers : InHand(w)] ELSE <<>>
Occurs(m, seq) == \E i \in 1..Len(seq) : seq[i] = m

(* A message is in one place only, once: in the queue, with one worker, or    *)
(* on the wire.  Several loops polling one deque, and send() called again     *)
(* while a loop runs, never deliver a message twice.                          *)
NoDuplicate ==
  /\ \A i, j \in 1..Len(queue) : queue[i] = queue[j] => i = j
  /\ \A i, j \in 1..Len(wire) : wire[i] = wire[j] => i = j
  /\ \A i \in 1..Len(queue) : ~Occurs(queue[i], wire)
  /\ \A v \in Workers : InHand(v) =>
       /\ ~Occurs(hand[v][1], queue) /\ ~Occurs(hand[v][1], wire)
       /\ \A w \in Workers : InHand(w) /\ hand[v] = hand[w] => v = w

(* While the session and its socket are open and no write has thrown, every   *)
(* message offer() took is still to be found: no step of send(), of the loops *)
(* or of ping() loses one before close() does.                                *)
NothingLost ==
  isOpen /\ socket /\ ~WriteMayThrow =>
    \A i \in 1..Len(accepted) :
      \/ Occurs(accepted[i], wire) \/ Occurs(accepted[i], queue)
      \/ \E w \in Workers : InHand(w) /\ hand[w][1] = accepted[i]

(* "must use BasicRemote to guarantee ordered transmission": while session    *)
(* and socket are open, the wire carries the accepted messages in the order   *)
(* in which the queue took them.  The code breaks this: two threads that both *)
(* saw polling FALSE start a loop each, and one overtakes the other.          *)
OrderedTransmission ==
  isOpen /\ socket =>
    /\ Len(wire) <= Len(accepted)
    /\ \A i \in 1..Len(wire) : wire[i] = accepted[i]

(* A loop that is taking and writing messages. *)
Active(w) == wpc[w] \in WorkerPC \ {"free", "exit"}

(* polling is TRUE, so send() starts no loop, and there is none.             *)
Wedged == polling /\ \A w \in Workers : ~Active(w)

(* While session and socket are open a loop is running or the next send()     *)
(* starts one: the flag never outlives the loops, however they overlap.       *)
NeverWedged == isOpen /\ socket => ~Wedged

(* Of all the ways in which send(), close() and overlapping loops set, reset  *)
(* and share the flag, only the catch block around the loop leaves a session  *)
(* without a loop that its next send() would not replace: a session comes to  *)
(* be wedged in no other step than that in which a write throws.              *)
WedgedOnlyByThrow ==
  [][NeverWedged /\ ~NeverWedged'
       => \E w \in Workers : wpc[w] = "write" /\ wpc'[w] = "free"]_vars

(* With one loop at a time this is an ordered channel that may break once.   *)
AChannel == INSTANCE Channel WITH
  Message <- Message, open <- isOpen /\ socket /\ ~Wedged,
  pending <- Undelivered \o queue
ImplementsChannel == AChannel!Spec

(* "Add a message to the sending queue ... the message to be sent to client": *)
(* what is queued is taken off the queue, or the session closes.              *)
Drains == (queue # <<>>) ~> (queue = <<>> \/ ~isOpen)

(* "The session will close if queue is full": a send() that found it full     *)
(* closes the session.                                                        *)
FullQueueCloses == \A s \in Senders : (spc[s] = "close") ~> ~isOpen

(* A session that lost its socket is closed, whoever notices first.           *)
PeerGoneCloses == ~socket ~> ~isOpen

(* A closed session gives its pool threads back, whatever send() was doing.   *)
WorkersReaped == ~isOpen ~> [](\A w \in Workers : wpc[w] = "free")

(* The bytes of every message that is queued, being written or being sent.    *)
BytesHeld ==
  LET writing == {w \in Workers : hand[w] # <<>>}
      sending == {s \in Senders : spc[s] # "idle"}
  IN  FoldSeq(LAMBDA m, sum : SizeOf(m) + sum, 0, queue)
        + MapThenSumSet(LAMBDA w : SizeOf(hand[w][1]), writing)
        + MapThenSumSet(LAMBDA s : Size[s], sending)

(* "The connection will be closed by server when the buffer is full": send()  *)
(* decides to close an open session for want of bytes only if the messages    *)
(* held reach the limit.                                                      *)
CloseOnlyWhenFull ==
  [][\A s \in Senders :
       isOpen /\ socket /\ spc[s] = "checkBytes" /\ spc'[s] = "close"
         => BytesHeld >= bufferSize]_vars

=============================================================================
