------------------------------ MODULE HeartBeat ------------------------------
(***************************************************************************)
(* The heart beat of the server: one thread (core/ServerHeartBeatThread)    *)
(* that calls ping() of every ClientSession in turn, the pongs that clients *)
(* send back, and close() of a session that is silent or gone, racing with  *)
(* onOpen, onClose and the other threads that close sessions.               *)
(*                                                                         *)
(* ping(), close() and setPongCount() are synchronized: "monitor" says what *)
(* the holder of a session's monitor does next.  The thread goes through    *)
(* the listeners in the order in which they were added and waits at the     *)
(* monitor of the one at hand.  Of the beats only those that ping (every    *)
(* PING_FREQUNCY-th) are steps.                                             *)
(***************************************************************************)
EXTENDS Integers, Sequences

CONSTANTS
  Sessions,   \* sessions that may ever be opened, numbered in the order of their
              \* constructors, which is the order of their listeners
  NoSession,  \* the heart beat thread is in no ping()
  MaxRetry,   \* MAX_PING_RETRY_COUNT
  MaxAnswers  \* bound: pings that a client answers before it falls silent

ASSUME SessionsAssumption == Sessions \subseteq Nat
ASSUME MaxRetryAssumption == MaxRetry \in Nat \ {0}
ASSUME NoSessionAssumption == NoSession \notin Sessions

VARIABLES
  onOpen,     \* where the container stands in onOpen() of a session
  registered, \* keys of ClientSessionManager.sessionRegistry
  isOpen,     \* ClientSession.isOpen, of every session
  socket,     \* session.isOpen() of the WebSocket session
  monitor,    \* "free", or what the holder of the session's monitor does next
  retryCount, pingCount, pongCount, \* the fields of ClientSession
  listeners,  \* ServerHeartBeatThread.listeners
  beating,    \* the session whose ping() the thread is in, its monitor taken
  todo,       \* the iterator's snapshot: listeners whose ping() has not begun, the
              \* first of which the thread is about to call
  written,    \* the numbers of the pings that reached the client
  answered,   \* how many of these the client has answered, in order
  ponged,     \* pongs the server has handled
  silent      \* history: pings begun since the last pong was handled

pulseVars  == <<retryCount, pingCount, pongCount, silent>>
clientVars == <<written, answered>>
threadVars == <<beating, todo>>
vars == <<onOpen, registered, isOpen, socket, monitor, retryCount, pingCount, pongCount,
          listeners, beating, todo, written, answered, ponged, silent>>

MonitorState == {"free", "ping", "unlisten", "unregister", "closeSocket"}

TypeOK ==
  /\ onOpen \in [Sessions -> {"none", "constructed", "returned"}]
  /\ registered \subseteq Sessions
  /\ listeners \subseteq Sessions /\ todo \subseteq Sessions
  /\ isOpen \in [Sessions -> BOOLEAN] /\ socket \in [Sessions -> BOOLEAN]
  /\ monitor \in [Sessions -> MonitorState]
  /\ retryCount \in [Sessions -> 0..MaxRetry]
  /\ pingCount \in [Sessions -> Nat] /\ pongCount \in [Sessions -> Nat]
  /\ beating \in Sessions \cup {NoSession}
  /\ written \in [Sessions -> Seq(Nat)] /\ answered \in [Sessions -> Nat]
  /\ ponged \in [Sessions -> Nat] /\ silent \in [Sessions -> Nat]

Init ==
  /\ onOpen = [s \in Sessions |-> "none"] /\ registered = {} /\ listeners = {}
  /\ isOpen = [s \in Sessions |-> FALSE] /\ socket = [s \in Sessions |-> FALSE]
  /\ monitor = [s \in Sessions |-> "free"]
  /\ retryCount = [s \in Sessions |-> MaxRetry]
  /\ pingCount = [s \in Sessions |-> 0] /\ pongCount = [s \in Sessions |-> 0]
  /\ beating = NoSession /\ todo = {}
  /\ written = [s \in Sessions |-> <<>>] /\ answered = [s \in Sessions |-> 0]
  /\ ponged = [s \in Sessions |-> 0] /\ silent = [s \in Sessions |-> 0]

-----------------------------------------------------------------------------
(* WebPDAWSServer.onOpen: registerPeer evaluates new ClientSession(peer),     *)
(* whose constructor adds the listener, and then puts it in the registry.     *)
Construct(s) ==
  /\ onOpen[s] = "none" /\ \A r \in Sessions : r < s => onOpen[r] # "none"
  /\ onOpen' = [onOpen EXCEPT ![s] = "constructed"]
  /\ isOpen' = [isOpen EXCEPT ![s] = TRUE]
  /\ socket' = [socket EXCEPT ![s] = TRUE]
  /\ listeners' = listeners \cup {s}
  /\ UNCHANGED <<registered, monitor, pulseVars, threadVars, clientVars, ponged>>

Register(s) ==
  /\ onOpen[s] = "constructed"
  /\ onOpen' = [onOpen EXCEPT ![s] = "returned"]
  /\ registered' = registered \cup {s}
  /\ UNCHANGED <<isOpen, socket, monitor, listeners, pulseVars, threadVars, clientVars, ponged>>

-----------------------------------------------------------------------------
(* close(), synchronized, in the order of its effects.  What it does to the  *)
(* PVs, the message queue and the security context is left to other modules. *)
Close(s) ==
  /\ monitor[s] = "free"
  /\ isOpen' = [isOpen EXCEPT ![s] = FALSE]
  /\ monitor' = [monitor EXCEPT ![s] = IF isOpen[s] THEN "unlisten" ELSE "free"]
  /\ UNCHANGED <<onOpen, registered, socket, listeners, clientVars, ponged>>

(* Mutant: the listener stays. *)
CloseKeepsListener(s) ==
  /\ monitor[s] = "unlisten" /\ monitor' = [monitor EXCEPT ![s] = "unregister"]
  /\ UNCHANGED <<onOpen, registered, isOpen, socket, listeners, pulseVars, threadVars,
                 clientVars, ponged>>

(* Mutant: the list is locked by the thread for the round. *)
CloseAwaitsRound(s) ==
  /\ beating = NoSession /\ todo = {}
  /\ monitor[s] = "unlisten" /\ monitor' = [monitor EXCEPT ![s] = "unregister"]
  /\ listeners' = listeners \ {s}
  /\ UNCHANGED <<onOpen, registered, isOpen, socket, pulseVars, threadVars, clientVars, ponged>>

(* removeHeartBeatListener(heartBeatListener) *)
CloseUnlistens(s) ==
  /\ monitor[s] = "unlisten" /\ monitor' = [monitor EXCEPT ![s] = "unregister"]
  /\ listeners' = listeners \ {s}
  /\ UNCHANGED <<onOpen, registered, isOpen, socket, pulseVars, threadVars, clientVars, ponged>>

(* Mutant: the session stays in the registry. *)
CloseKeepsRegistered(s) ==
  /\ monitor[s] = "unregister" /\ monitor' = [monitor EXCEPT ![s] = "closeSocket"]
  /\ UNCHANGED <<onOpen, registered, isOpen, socket, listeners, pulseVars, threadVars,
                 clientVars, ponged>>

(* ClientSessionManager.unRegisterSession(session) *)
CloseUnregisters(s) ==
  /\ monitor[s] = "unregister" /\ monitor' = [monitor EXCEPT ![s] = "closeSocket"]
  /\ registered' = registered \ {s}
  /\ UNCHANGED <<onOpen, isOpen, socket, listeners, pulseVars, threadVars, clientVars, ponged>>

(* if (session.isOpen()) session.close() *)
CloseClosesSocket(s) ==
  /\ monitor[s] = "closeSocket" /\ monitor' = [monitor EXCEPT ![s] = "free"]
  /\ socket' = [socket EXCEPT ![s] = FALSE]
  /\ UNCHANGED <<onOpen, registered, isOpen, listeners, pulseVars, threadVars, clientVars, ponged>>

Closing(s) == CloseUnlistens(s) \/ CloseUnregisters(s) \/ CloseClosesSocket(s)

(* WebPDAWSServer.onClose, of a session that is still registered. *)
OnClose(s) ==
  /\ onOpen[s] = "returned" /\ ~socket[s] /\ s \in registered
  /\ Close(s)
  /\ UNCHANGED <<pulseVars, threadVars>>

(* A sending thread closes it: the queue is full, or the socket was lost. *)
SenderCloses(s) ==
  /\ isOpen[s]
  /\ Close(s)
  /\ UNCHANGED <<pulseVars, threadVars>>

-----------------------------------------------------------------------------
(* run() of the heart beat thread and ping() of a session.                   *)

(* for (listener : listeners): the iterator works on a snapshot. *)
Beat ==
  /\ beating = NoSession /\ todo = {} /\ listeners # {}
  /\ todo' = listeners
  /\ UNCHANGED <<onOpen, registered, isOpen, socket, monitor, listeners, pulseVars, beating,
                 clientVars, ponged>>

(* listener.beat(): ping() of the next listener, once its monitor is free. *)
Pings(s) ==
  /\ beating = NoSession /\ s \in todo /\ \A r \in todo : s <= r
  /\ monitor[s] = "free"
  /\ todo' = todo \ {s}
PingStarts(s) == Pings(s) /\ beating' = s

(* if (isOpen()): the listener of a closed session may still be beaten. *)
PingSkips(s) ==
  /\ ~isOpen[s]
  /\ Pings(s)
  /\ UNCHANGED <<onOpen, registered, isOpen, socket, monitor, listeners, pulseVars, beating,
                 clientVars, ponged>>

(* Mutants: the first ping counts; the ping is sent when retryCount is used up. *)
PingCountsFirst(s) ==
  /\ isOpen[s] /\ socket[s] /\ retryCount[s] > 0
  /\ PingStarts(s)
  /\ retryCount' = [retryCount EXCEPT ![s] = @ - 1]
  /\ pingCount' = [pingCount EXCEPT ![s] = @ + 1]
  /\ silent' = [silent EXCEPT ![s] = @ + 1]
  /\ monitor' = [monitor EXCEPT ![s] = "ping"]
  /\ UNCHANGED <<onOpen, registered, isOpen, socket, listeners, pongCount, clientVars, ponged>>

PingUnlimited(s) ==
  /\ isOpen[s] /\ socket[s]
  /\ PingStarts(s)
  /\ retryCount' = [retryCount EXCEPT ![s] = IF pongCount[s] < pingCount[s] THEN @ - 1 ELSE @]
  /\ pingCount' = [pingCount EXCEPT ![s] = @ + 1]
  /\ silent' = [silent EXCEPT ![s] = @ + 1]
  /\ monitor' = [monitor EXCEPT ![s] = "ping"]
  /\ UNCHANGED <<onOpen, registered, isOpen, socket, listeners, pongCount, clientVars, ponged>>

(* if (pongCount < pingCount) retryCount--; sendObject(new PingMessage(pingCount++)) *)
PingSends(s) ==
  /\ isOpen[s] /\ socket[s] /\ retryCount[s] > 0
  /\ PingStarts(s)
  /\ retryCount' = [retryCount EXCEPT ![s] = IF pongCount[s] < pingCount[s] THEN @ - 1 ELSE @]
  /\ pingCount' = [pingCount EXCEPT ![s] = @ + 1]
  /\ silent' = [silent EXCEPT ![s] = @ + 1]
  /\ monitor' = [monitor EXCEPT ![s] = "ping"]
  /\ UNCHANGED <<onOpen, registered, isOpen, socket, listeners, pongCount, clientVars, ponged>>

(* Mutant: logged, but not closed. *)
PingLogs(s) ==
  /\ isOpen[s] /\ (socket[s] => retryCount[s] = 0)
  /\ PingStarts(s)
  /\ UNCHANGED <<onOpen, registered, isOpen, socket, monitor, listeners, pulseVars, clientVars, ponged>>

(* No pong for too long, or the socket is gone: close(). *)
PingCloses(s) ==
  /\ isOpen[s] /\ (socket[s] => retryCount[s] = 0)
  /\ PingStarts(s)
  /\ Close(s)
  /\ UNCHANGED pulseVars

(* sendObject returns, or throws and the exception is logged: always if the   *)
(* socket is closed, and perhaps if it is open. *)
PingWritten(s) ==
  /\ monitor[s] = "ping" /\ socket[s]
  /\ monitor' = [monitor EXCEPT ![s] = "free"] /\ beating' = NoSession
  /\ written' = [written EXCEPT ![s] = Append(@, pingCount[s] - 1)]
  /\ UNCHANGED <<onOpen, registered, isOpen, socket, listeners, pulseVars, todo,
                 answered, ponged>>

PingThrows(s) ==
  /\ monitor[s] = "ping"
  /\ monitor' = [monitor EXCEPT ![s] = "free"] /\ beating' = NoSession
  /\ UNCHANGED <<onOpen, registered, isOpen, socket, listeners, pulseVars, todo,
                 clientVars, ponged>>

(* It returns from close(), of which all has been done. *)
PingReturns(s) ==
  /\ beating = s /\ monitor[s] = "free"
  /\ beating' = NoSession
  /\ UNCHANGED <<onOpen, registered, isOpen, socket, monitor, listeners, pulseVars, todo,
                 clientVars, ponged>>

-----------------------------------------------------------------------------
(* The client, which may stop answering at any time, and the container, which *)
(* hands its pongs to PongCommand.                                            *)
Answer(s) ==
  /\ socket[s] /\ answered[s] < Len(written[s]) /\ answered[s] < MaxAnswers
  /\ answered' = [answered EXCEPT ![s] = @ + 1]
  /\ UNCHANGED <<onOpen, registered, isOpen, socket, monitor, listeners, pulseVars, threadVars,
                 written, ponged>>

Disconnect(s) ==
  /\ socket[s]
  /\ socket' = [socket EXCEPT ![s] = FALSE]
  /\ UNCHANGED <<onOpen, registered, isOpen, monitor, listeners, pulseVars, threadVars,
                 clientVars, ponged>>

(* Mutant: retryCount is not reset. *)
PongKeepsRetry(s) ==
  /\ onOpen[s] = "returned" /\ s \in registered /\ monitor[s] = "free" /\ ponged[s] < answered[s]
  /\ ponged' = [ponged EXCEPT ![s] = @ + 1]
  /\ pongCount' = [pongCount EXCEPT ![s] = written[s][ponged[s] + 1]]
  /\ silent' = [silent EXCEPT ![s] = 0]
  /\ UNCHANGED <<onOpen, registered, isOpen, socket, monitor, listeners, retryCount, pingCount,
                 threadVars, clientVars>>

(* PongCommand.run(): setPongCount(count), count being the ping's number.  The *)
(* pong of a session that is no longer registered finds no session to tell.    *)
Pong(s) ==
  /\ onOpen[s] = "returned" /\ s \in registered /\ monitor[s] = "free" /\ ponged[s] < answered[s]
  /\ ponged' = [ponged EXCEPT ![s] = @ + 1]
  /\ retryCount' = [retryCount EXCEPT ![s] = MaxRetry]
  /\ pongCount' = [pongCount EXCEPT ![s] = written[s][ponged[s] + 1]]
  /\ silent' = [silent EXCEPT ![s] = 0]
  /\ UNCHANGED <<onOpen, registered, isOpen, socket, monitor, listeners, pingCount,
                 threadVars, clientVars>>

-----------------------------------------------------------------------------
Ping(s) == PingSkips(s) \/ PingSends(s) \/ PingCloses(s)

Next ==
  \/ Beat
  \/ \E s \in Sessions :
       \/ Construct(s) \/ Register(s) \/ Closing(s) \/ OnClose(s) \/ SenderCloses(s)
       \/ Ping(s) \/ PingWritten(s) \/ PingThrows(s) \/ PingReturns(s)
       \/ Answer(s) \/ Disconnect(s) \/ Pong(s)

Spec == Init /\ [][Next]_vars

(* The heart beat thread runs, a thread in close() goes on with it.  Nothing  *)
(* makes a client connect, answer or leave, or another thread close.          *)
ThreadFairness ==
  /\ WF_vars(Beat \/ \E s \in Sessions : Ping(s) \/ PingReturns(s))
  /\ \A s \in Sessions : WF_vars(Closing(s))

(* A write of a ping returns, with or without an exception. *)
WritesReturn == WF_vars(\E s \in Sessions : PingWritten(s) \/ PingThrows(s))

FairSpec == Spec /\ ThreadFairness /\ WritesReturn

-----------------------------------------------------------------------------
(* Properties.                                                               *)

(* retryCount is what is left of the pings a client may leave unanswered.     *)
(* The first ping of a session is not counted: a client that never answered   *)
(* is granted one ping more.                                                  *)
RetryTracksSilence ==
  \A s \in Sessions :
    LET uncounted == IF ponged[s] = 0 /\ silent[s] > 0 THEN 1 ELSE 0
    IN  retryCount[s] = MaxRetry - (silent[s] - uncounted)

(* ping() gives up a session whose socket is open only after MaxRetry pings   *)
(* in a row without a pong: however pongs and pings overlap, a client that    *)
(* answers one of them in time is kept.                                       *)
GivesUpOnlySilent ==
  [][\A s \in Sessions :
       beating' = s /\ beating # s /\ isOpen[s] /\ ~isOpen'[s] /\ socket[s]
         => silent[s] >= MaxRetry]_vars

(* The thread has as listeners exactly the sessions that are open, but for    *)
(* one that is between the first and the second step of its close().          *)
ListenersAreOpen ==
  listeners = {s \in Sessions : isOpen[s] \/ monitor[s] = "unlisten"}

(* A client that answers no more loses its session in the end.  (A client     *)
(* answers at most MaxAnswers pings, and may stop at any time before.)        *)
SilentClientClosed == \A s \in Sessions : []<>~isOpen[s]

(* A session that was open when it came into the registry leaves it in the end:   *)
(* whichever thread closes it, no client that is gone is kept there, and reached  *)
(* by commands.  (One that was closed before is put there too late, and stays.)   *)
RegistryReleased ==
  \A s \in Sessions : s \in registered /\ isOpen[s] ~> s \notin registered

(* "A heart beat thread on server side that can do things regularly": the     *)
(* thread comes to the end of every round.  It is held up for ever neither in *)
(* a ping() nor at the monitor of a session that somebody else has, though it *)
(* waits there for whoever that is, and all listeners behind wait with it.    *)
BeatsRegularly == []<>(beating = NoSession /\ todo = {})

=============================================================================
