-------------------------- MODULE HeartBeat_proofs --------------------------
(***************************************************************************)
(* Theorems about HeartBeat, for any sessions and any MaxRetry.             *)
(***************************************************************************)
EXTENDS HeartBeat, TLAPS

(* A client answers only pings it has got, and a pong answers one of them.    *)
InFlight ==
  \A s \in Sessions : ponged[s] <= answered[s] /\ answered[s] <= Len(written[s])

Types == TypeOK /\ InFlight

(* What the counters of session s have to do with each other.  A client       *)
(* answers a ping after it was sent, so that the number of a ping it has got,  *)
(* and of a pong, is below pingCount; until the first pong every ping is an    *)
(* unanswered one.                                                             *)
PulseOK(s) ==
  /\ \A k \in 1..Len(written[s]) : written[s][k] < pingCount[s]
  /\ monitor[s] = "ping" => pingCount[s] > 0
  /\ ponged[s] = 0 => pongCount[s] = 0 /\ silent[s] = pingCount[s]
  /\ ponged[s] > 0 => pongCount[s] < pingCount[s]

RetryOK(s) ==
  LET uncounted == IF ponged[s] = 0 /\ silent[s] > 0 THEN 1 ELSE 0
  IN  retryCount[s] = MaxRetry - (silent[s] - uncounted)

PulseInv == \A s \in Sessions : PulseOK(s) /\ RetryOK(s)

LEMMA TypesInit == Init => Types
  BY MaxRetryAssumption DEF Init, Types, TypeOK, InFlight, MonitorState

LEMMA Numbers ==
  ASSUME Types, NEW s \in Sessions
  PROVE  /\ written[s] \in Seq(Nat) /\ Len(written[s]) \in Nat
         /\ \A k \in 1..Len(written[s]) : written[s][k] \in Nat
         /\ ponged[s] \in Nat /\ answered[s] \in Nat
         /\ ponged[s] <= answered[s] /\ answered[s] <= Len(written[s])
         /\ pingCount[s] \in Nat /\ pongCount[s] \in Nat /\ silent[s] \in Nat
         /\ retryCount[s] \in 0..MaxRetry
<1>1. written[s] \in Seq(Nat)
  BY DEF Types, TypeOK
<1>2. Len(written[s]) \in Nat /\ \A k \in 1..Len(written[s]) : written[s][k] \in Nat
  BY <1>1
<1> QED
  BY <1>1, <1>2 DEF Types, TypeOK, InFlight

LEMMA AnswerTypes ==
  ASSUME Types, NEW s \in Sessions, Answer(s)
  PROVE  Types'
<1>1. /\ answered' = [answered EXCEPT ![s] = @ + 1] /\ answered[s] < Len(written[s])
      /\ UNCHANGED <<onOpen, registered, isOpen, socket, monitor, listeners, retryCount, pingCount,
                     pongCount, silent, beating, todo, written, ponged>>
  BY DEF Answer, pulseVars, threadVars
<1>2. answered \in [Sessions -> Nat]
  BY DEF Types, TypeOK
<1>3. answered' \in [Sessions -> Nat] /\ answered'[s] = answered[s] + 1
  BY <1>1, <1>2
<1>4. TypeOK'
  BY <1>1, <1>3 DEF Types, TypeOK
<1>5. \A r \in Sessions : ponged'[r] <= answered'[r] /\ answered'[r] <= Len(written'[r])
  <2> TAKE r \in Sessions
  <2>1. answered'[r] = IF r = s THEN answered[r] + 1 ELSE answered[r]
    BY <1>1, <1>2
  <2> QED
    BY <1>1, <2>1, Numbers
<1> QED
  BY <1>4, <1>5 DEF Types, InFlight

LEMMA PongTypes ==
  ASSUME Types, NEW s \in Sessions, Pong(s)
  PROVE  Types'
<1> DEFINE number == written[s][ponged[s] + 1]
<1>1. /\ ponged' = [ponged EXCEPT ![s] = @ + 1] /\ ponged[s] < answered[s]
      /\ retryCount' = [retryCount EXCEPT ![s] = MaxRetry]
      /\ pongCount' = [pongCount EXCEPT ![s] = number]
      /\ silent' = [silent EXCEPT ![s] = 0]
      /\ UNCHANGED <<onOpen, registered, isOpen, socket, monitor, listeners, pingCount,
                     beating, todo, written, answered>>
  BY DEF Pong, threadVars, clientVars
<1>2. ponged[s] + 1 \in 1..Len(written[s])
  BY <1>1, Numbers
<1>3. number \in Nat
  BY <1>2, Numbers
<1> HIDE DEF number
<1>4. TypeOK'
  <2>1. ponged \in [Sessions -> Nat] /\ retryCount \in [Sessions -> 0..MaxRetry]
        /\ pongCount \in [Sessions -> Nat] /\ silent \in [Sessions -> Nat]
    BY DEF Types, TypeOK
  <2>2. ponged' \in [Sessions -> Nat] /\ silent' \in [Sessions -> Nat]
    BY <1>1, <2>1
  <2>3. pongCount' \in [Sessions -> Nat] /\ retryCount' \in [Sessions -> 0..MaxRetry]
    BY <1>1, <1>3, <2>1, MaxRetryAssumption
  <2> QED
    BY <1>1, <2>2, <2>3 DEF Types, TypeOK
<1>5. \A r \in Sessions : ponged'[r] <= answered'[r] /\ answered'[r] <= Len(written'[r])
  <2> TAKE r \in Sessions
  <2>1. ponged'[r] = IF r = s THEN ponged[r] + 1 ELSE ponged[r]
    BY <1>1 DEF Types, TypeOK
  <2> QED
    BY <1>1, <2>1, Numbers
<1> QED
  BY <1>4, <1>5 DEF Types, InFlight

LEMMA PingWrittenTypes ==
  ASSUME Types, NEW s \in Sessions, PingWritten(s), pingCount[s] > 0
  PROVE  Types'
<1> USE DEF Types, TypeOK, InFlight, MonitorState, pulseVars
<1> DEFINE longer == Append(written[s], pingCount[s] - 1)
<1>1. /\ written' = [written EXCEPT ![s] = longer]
      /\ monitor' = [monitor EXCEPT ![s] = "free"] /\ beating' = NoSession
      /\ UNCHANGED <<onOpen, registered, isOpen, socket, listeners, retryCount, pingCount,
                     pongCount, silent, todo, answered, ponged>>
  BY DEF PingWritten
<1>2. longer \in Seq(Nat) /\ Len(longer) = Len(written[s]) + 1
  OBVIOUS
<1>3. \A r \in Sessions : Len(written'[r]) \in Nat /\ Len(written[r]) <= Len(written'[r])
  BY <1>1, <1>2
<1>4. InFlight'
  BY <1>1, <1>3
<1> QED
  BY <1>1, <1>2, <1>4

LEMMA TypesStep == Types /\ PulseInv /\ [Next]_vars => Types'
<1> SUFFICES ASSUME Types, PulseInv, [Next]_vars PROVE Types'
  OBVIOUS
<1> USE MaxRetryAssumption DEF Types, TypeOK, InFlight, MonitorState, pulseVars, clientVars, threadVars
<1>1. CASE Beat
  BY <1>1 DEF Beat
<1>2. ASSUME NEW s \in Sessions, Construct(s) PROVE Types'
  BY <1>2 DEF Construct
<1>3. ASSUME NEW s \in Sessions, Register(s) PROVE Types'
  BY <1>3 DEF Register
<1>4. ASSUME NEW s \in Sessions, Closing(s) PROVE Types'
  BY <1>4 DEF Closing, CloseUnlistens, CloseUnregisters, CloseClosesSocket
<1>5. ASSUME NEW s \in Sessions, OnClose(s) \/ SenderCloses(s) PROVE Types'
  BY <1>5 DEF OnClose, SenderCloses, Close
<1>6. ASSUME NEW s \in Sessions, PingSkips(s) PROVE Types'
  BY <1>6 DEF PingSkips, Pings
<1>7. ASSUME NEW s \in Sessions, PingSends(s) PROVE Types'
  <2>1. /\ retryCount' = [retryCount EXCEPT ![s] = IF pongCount[s] < pingCount[s] THEN @ - 1 ELSE @]
        /\ retryCount[s] > 0 /\ beating' = s /\ todo' = todo \ {s}
        /\ pingCount' = [pingCount EXCEPT ![s] = @ + 1] /\ silent' = [silent EXCEPT ![s] = @ + 1]
        /\ monitor' = [monitor EXCEPT ![s] = "ping"]
        /\ UNCHANGED <<onOpen, registered, isOpen, socket, listeners, pongCount, written, answered, ponged>>
    BY <1>7 DEF PingSends, PingStarts, Pings
  <2>2. retryCount' \in [Sessions -> 0..MaxRetry]
    BY <2>1
  <2>3. pingCount' \in [Sessions -> Nat] /\ silent' \in [Sessions -> Nat]
    BY <2>1
  <2>4. monitor' \in [Sessions -> MonitorState]
    BY <2>1
  <2>5. InFlight'
    BY <2>1
  <2> QED
    BY <2>1, <2>2, <2>3, <2>4, <2>5
<1>8. ASSUME NEW s \in Sessions, PingCloses(s) PROVE Types'
  BY <1>8 DEF PingCloses, PingStarts, Pings, Close
<1>9. ASSUME NEW s \in Sessions, PingWritten(s) PROVE Types'
  BY <1>9, PingWrittenTypes DEF PingWritten, PulseInv, PulseOK
<1>10. ASSUME NEW s \in Sessions, PingThrows(s) \/ PingReturns(s) PROVE Types'
  BY <1>10 DEF PingThrows, PingReturns
<1>11. ASSUME NEW s \in Sessions, Answer(s) \/ Pong(s) PROVE Types'
  BY <1>11, AnswerTypes, PongTypes
<1>12. ASSUME NEW s \in Sessions, Disconnect(s) PROVE Types'
  BY <1>12 DEF Disconnect
<1>13. CASE UNCHANGED vars
  BY <1>13 DEF vars
<1> QED
  BY <1>1, <1>2, <1>3, <1>4, <1>5, <1>6, <1>7, <1>8, <1>9, <1>10, <1>11, <1>12, <1>13
  DEF Next, Ping

-----------------------------------------------------------------------------
LEMMA PulseInvInit == Init => PulseInv
<1> SUFFICES ASSUME Init, NEW s \in Sessions PROVE PulseOK(s) /\ RetryOK(s)
  BY DEF PulseInv
<1>1. /\ written[s] = <<>> /\ monitor[s] = "free" /\ ponged[s] = 0 /\ pongCount[s] = 0
      /\ silent[s] = 0 /\ pingCount[s] = 0 /\ retryCount[s] = MaxRetry
  BY DEF Init
<1>2. 1..Len(written[s]) = {}
  BY <1>1
<1> QED
  BY <1>1, <1>2, MaxRetryAssumption DEF PulseOK, RetryOK

(* Steps that touch no counter of session r, nor its ping in progress. *)
LEMMA PulseUnchanged ==
  ASSUME NEW r \in Sessions, PulseOK(r), RetryOK(r),
         UNCHANGED <<ponged[r], written[r], pingCount[r], pongCount[r], silent[r], retryCount[r]>>,
         monitor'[r] = "ping" => monitor[r] = "ping"
  PROVE  PulseOK(r)' /\ RetryOK(r)'
BY DEF PulseOK, RetryOK

LEMMA PulseInvStep == Types /\ PulseInv /\ [Next]_vars => PulseInv'
<1> SUFFICES ASSUME Types, [Next]_vars, NEW r \in Sessions, PulseOK(r), RetryOK(r)
             PROVE  PulseOK(r)' /\ RetryOK(r)'
  BY DEF PulseInv
<1> USE DEF pulseVars, clientVars, threadVars
<1>t. TypeOK /\ InFlight /\ written[r] \in Seq(Nat) /\ Len(written[r]) \in Nat
  BY Numbers DEF Types
<1>1. ASSUME NEW s \in Sessions, PingSends(s) PROVE PulseOK(r)' /\ RetryOK(r)'
  <2>1. CASE r = s
    <3>1. /\ retryCount'[s] = IF pongCount[s] < pingCount[s] THEN retryCount[s] - 1 ELSE retryCount[s]
          /\ pingCount'[s] = pingCount[s] + 1 /\ silent'[s] = silent[s] + 1
          /\ UNCHANGED <<ponged, written, pongCount>>
      BY <1>t, <1>1 DEF PingSends, PingStarts, Pings, TypeOK
    <3>2. /\ pingCount[s] \in Nat /\ silent[s] \in Nat /\ pongCount[s] \in Nat
          /\ ponged[s] \in Nat /\ retryCount[s] \in 0..MaxRetry
          /\ \A k \in 1..Len(written[s]) : written[s][k] \in Nat
      BY Numbers
    <3>3. \A k \in 1..Len(written'[s]) : written'[s][k] < pingCount'[s]
      BY <2>1, <3>1, <3>2 DEF PulseOK
    <3>4. pingCount'[s] > 0 /\ pongCount'[s] < pingCount'[s]
      BY <2>1, <3>1, <3>2 DEF PulseOK
    <3>5. ponged'[s] = 0 => pongCount'[s] = 0 /\ silent'[s] = pingCount'[s]
      BY <2>1, <3>1, <3>2 DEF PulseOK
    <3>6. RetryOK(r)'
      <4>1. CASE ponged[s] = 0 /\ silent[s] = 0
        BY <2>1, <3>1, <3>2, <4>1, MaxRetryAssumption DEF PulseOK, RetryOK
      <4>2. CASE ponged[s] = 0 /\ silent[s] > 0
        BY <2>1, <3>1, <3>2, <4>2, MaxRetryAssumption DEF PulseOK, RetryOK
      <4>3. CASE ponged[s] > 0
        <5>1. pongCount[s] < pingCount[s] /\ retryCount[s] = MaxRetry - silent[s]
          BY <2>1, <3>2, <4>3, MaxRetryAssumption DEF PulseOK, RetryOK
        <5>2. retryCount'[s] = MaxRetry - silent'[s]
          BY <3>1, <3>2, <5>1, MaxRetryAssumption
        <5>3. ~(ponged'[s] = 0)
          BY <3>1, <3>2, <4>3
        <5> QED
          BY <2>1, <3>1, <3>2, <5>2, <5>3, MaxRetryAssumption DEF RetryOK
      <4> QED
        BY <3>2, <4>1, <4>2, <4>3
    <3> QED
      BY <2>1, <3>3, <3>4, <3>5, <3>6 DEF PulseOK
  <2>2. CASE r # s
    BY <1>t, <1>1, <2>2, PulseUnchanged DEF PingSends, TypeOK
  <2> QED
    BY <2>1, <2>2
<1>2. ASSUME NEW s \in Sessions, PingWritten(s) PROVE PulseOK(r)' /\ RetryOK(r)'
  <2>1. CASE r = s
    <3>1. /\ written'[s] = Append(written[s], pingCount[s] - 1) /\ monitor'[s] = "free"
          /\ UNCHANGED <<retryCount, pingCount, pongCount, ponged, silent>>
      BY <1>t, <1>2 DEF PingWritten, TypeOK
    <3>2. \A k \in 1..Len(written'[s]) :
            written'[s][k] = IF k <= Len(written[s]) THEN written[s][k] ELSE pingCount[s] - 1
      BY <1>t, <2>1, <3>1
    <3>3. pingCount[s] \in Nat
      BY <1>t DEF TypeOK
    <3>4. \A k \in 1..Len(written'[s]) : written'[s][k] < pingCount'[s]
      BY <1>t, <2>1, <3>1, <3>2, <3>3 DEF PulseOK
    <3> QED
      BY <2>1, <3>1, <3>4 DEF PulseOK, RetryOK
  <2>2. CASE r # s
    BY <1>t, <1>2, <2>2, PulseUnchanged DEF PingWritten, TypeOK
  <2> QED
    BY <2>1, <2>2
<1>3. ASSUME NEW s \in Sessions, Pong(s) PROVE PulseOK(r)' /\ RetryOK(r)'
  <2>1. CASE r = s
    <3>1. /\ ponged'[s] = ponged[s] + 1 /\ retryCount'[s] = MaxRetry
          /\ pongCount'[s] = written[s][ponged[s] + 1] /\ silent'[s] = 0 /\ ponged[s] < answered[s]
          /\ UNCHANGED <<written, pingCount, monitor>>
      BY <1>t, <1>3 DEF Pong, TypeOK
    <3>2. ponged[s] \in Nat /\ answered[s] \in Nat /\ answered[s] <= Len(written[s])
      BY <1>t DEF TypeOK, InFlight
    <3>3. ponged[s] + 1 \in 1..Len(written[s])
      BY <1>t, <2>1, <3>1, <3>2
    <3>4. pongCount'[s] < pingCount'[s]
      BY <2>1, <3>1, <3>3 DEF PulseOK
    <3> QED
      BY <2>1, <3>1, <3>2, <3>4, MaxRetryAssumption DEF PulseOK, RetryOK
  <2>2. CASE r # s
    BY <1>t, <1>3, <2>2, PulseUnchanged DEF Pong, TypeOK
  <2> QED
    BY <2>1, <2>2
<1>4. ASSUME NEW s \in Sessions,
             \/ Construct(s) \/ Register(s) \/ Closing(s) \/ OnClose(s) \/ SenderCloses(s) \/ Answer(s)
             \/ PingSkips(s) \/ PingCloses(s) \/ PingThrows(s) \/ PingReturns(s) \/ Disconnect(s)
      PROVE  PulseOK(r)' /\ RetryOK(r)'
  <2>1. UNCHANGED <<ponged, written, pingCount, pongCount, silent, retryCount>>
    BY <1>4 DEF Construct, Register, Closing, CloseUnlistens, CloseUnregisters, CloseClosesSocket, Answer,
       OnClose, SenderCloses, PingSkips, PingCloses, PingThrows, PingReturns, Disconnect, Close
  <2>2. monitor'[r] = "ping" => monitor[r] = "ping"
    BY <1>t, <1>4 DEF Construct, Register, Closing, CloseUnlistens, CloseUnregisters, CloseClosesSocket,
       Answer, OnClose, SenderCloses, PingSkips, PingCloses, PingThrows, PingReturns, Disconnect, Close, TypeOK
  <2> QED
    BY <2>1, <2>2, PulseUnchanged
<1>5. CASE Beat \/ UNCHANGED vars
  BY <1>5, PulseUnchanged DEF Beat, vars
<1> QED
  BY <1>1, <1>2, <1>3, <1>4, <1>5 DEF Next, Ping

LEMMA Pulse == Spec => [](Types /\ PulseInv)
  BY TypesInit, TypesStep, PulseInvInit, PulseInvStep, PTL DEF Spec

(* The counters, sets and control states stay what they are declared to be;   *)
(* in particular retryCount never drops below zero.                           *)
THEOREM Typing == Spec => []TypeOK
<1>1. Types => TypeOK
  BY DEF Types
<1> QED
  BY <1>1, Pulse, PTL

(* retryCount is at any time what is left of the pings a client may leave     *)
(* unanswered: every ping but the session's first takes one off, every pong   *)
(* gives all back.                                                            *)
THEOREM RetryTracksSilenceHolds == Spec => []RetryTracksSilence
<1>1. PulseInv => RetryTracksSilence
  BY DEF PulseInv, RetryOK, RetryTracksSilence
<1> QED
  BY <1>1, Pulse, PTL

(* ping() closes a session with an open socket only after MaxRetry pings in a *)
(* row during which no pong was handled, whoever else uses the session.       *)
THEOREM GivesUpOnlySilentHolds == Spec => GivesUpOnlySilent
<1> DEFINE Step == \A s \in Sessions :
                     beating' = s /\ beating # s /\ isOpen[s] /\ ~isOpen'[s] /\ socket[s]
                       => silent[s] >= MaxRetry
<1>1. Types /\ PulseInv /\ [Next]_vars => [Step]_vars
  <2> SUFFICES ASSUME Types, PulseInv, [Next]_vars, NEW s \in Sessions,
                      beating' = s, beating # s, isOpen[s], ~isOpen'[s], socket[s]
               PROVE  silent[s] >= MaxRetry
    OBVIOUS
  <2>1. Ping(s)
    BY NoSessionAssumption DEF Next, vars, Beat, Construct, Register, Closing, CloseUnlistens,
       CloseUnregisters, CloseClosesSocket, OnClose, SenderCloses, Ping, PingSkips, PingSends,
       PingCloses, PingStarts, Pings, PingWritten, PingThrows, PingReturns, Answer, Disconnect, Pong,
       Close, threadVars
  <2>2. PingCloses(s)
    BY <2>1 DEF Ping, PingSkips, PingSends
  <2>3. retryCount[s] = 0
    BY <2>2 DEF PingCloses
  <2> QED
    <3>1. silent[s] \in Nat /\ RetryOK(s)
      BY DEF Types, TypeOK, PulseInv
    <3> QED
      BY <2>3, <3>1, MaxRetryAssumption DEF RetryOK
<1> QED
  BY <1>1, Pulse, PTL DEF Spec, GivesUpOnlySilent

-----------------------------------------------------------------------------
(* A session that close() is at work on is no longer open, and one that was   *)
(* never opened is not being closed.                                          *)
CloseInv ==
  \A s \in Sessions :
    /\ s \in listeners <=> isOpen[s] \/ monitor[s] = "unlisten"
    /\ monitor[s] \in {"unlisten", "unregister", "closeSocket"} => ~isOpen[s]
    /\ onOpen[s] = "none" => ~isOpen[s] /\ monitor[s] = "free"

LEMMA CloseInvStep == TypeOK /\ CloseInv /\ [Next]_vars => CloseInv'
<1> SUFFICES ASSUME TypeOK, CloseInv, [Next]_vars PROVE CloseInv'
  OBVIOUS
<1> USE DEF CloseInv, TypeOK
<1>1. ASSUME NEW s \in Sessions, Construct(s) PROVE CloseInv'
  BY <1>1 DEF Construct
<1>2. ASSUME NEW s \in Sessions, Register(s) PROVE CloseInv'
  BY <1>2 DEF Register
<1>3. ASSUME NEW s \in Sessions, CloseUnlistens(s) PROVE CloseInv'
  BY <1>3 DEF CloseUnlistens
<1>4. ASSUME NEW s \in Sessions, CloseUnregisters(s) \/ CloseClosesSocket(s) PROVE CloseInv'
  BY <1>4 DEF CloseUnregisters, CloseClosesSocket
<1>5. ASSUME NEW s \in Sessions, isOpen[s], Close(s) PROVE CloseInv'
  BY <1>5 DEF Close
<1>6. ASSUME NEW s \in Sessions, ~isOpen[s], Close(s) PROVE CloseInv'
  BY <1>6 DEF Close
<1>7. ASSUME NEW s \in Sessions, PingSends(s) PROVE CloseInv'
  BY <1>7 DEF PingSends, PingStarts, Pings
<1>8. ASSUME NEW s \in Sessions, PingWritten(s) \/ PingThrows(s) PROVE CloseInv'
  BY <1>8 DEF PingWritten, PingThrows
<1>9. ASSUME NEW s \in Sessions,
             PingSkips(s) \/ PingReturns(s) \/ Answer(s) \/ Disconnect(s) \/ Pong(s)
      PROVE  CloseInv'
  <2>1. UNCHANGED <<onOpen, isOpen, monitor, listeners>>
    BY <1>9 DEF PingSkips, PingReturns, Answer, Disconnect, Pong
  <2> QED
    BY <2>1
<1>10. CASE Beat \/ UNCHANGED vars
  BY <1>10 DEF Beat, vars
<1> QED
  BY <1>1, <1>2, <1>3, <1>4, <1>5, <1>6, <1>7, <1>8, <1>9, <1>10
  DEF Next, Ping, PingCloses, OnClose, SenderCloses, Closing

(* The heart beat thread beats exactly the open sessions: none is forgotten   *)
(* and none stays after close() has taken its listener off.                   *)
THEOREM ListenersAreOpenHolds == Spec => []ListenersAreOpen
<1>1. Init => CloseInv
  BY DEF Init, CloseInv
<1>2. TypeOK /\ CloseInv => ListenersAreOpen
  BY DEF TypeOK, CloseInv, ListenersAreOpen
<1> QED
  BY <1>1, <1>2, CloseInvStep, Typing, PTL DEF Spec

=============================================================================
