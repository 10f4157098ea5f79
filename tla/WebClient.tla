------------------------------ MODULE WebClient ------------------------------
(***************************************************************************)
(* The JavaScript client (webpda-lib/webpda-core.js, createPV of            *)
(* webpda-cs.js) and the session of the server it talks to.                 *)
(*                                                                         *)
(* A page holds PVs.  PVs made with the same parameters share an internal   *)
(* PV, to which one PV of the server corresponds; the client counts PVs to  *)
(* decide when to create, pause and close it there.  JavaScript runs one    *)
(* handler at a time, but a handler calls the callbacks of the page in      *)
(* loops over arrays, and a callback may call the client again: "todo" is   *)
(* what is left of the loops of the running handler, and the page acts      *)
(* between two handlers or in a callback ("inPage").                        *)
(***************************************************************************)
EXTENDS Naturals, Sequences, SequencesExt, FiniteSets

CONSTANTS
  Params,     \* parameter objects of createPV: name, update period, buffering
  MaxPVs,     \* bound: PVs ever created
  MaxCalls,   \* bound: calls that close, pause, resume, write, log in or out
  MaxUpdates, \* bound: events of each PV of the server
  Users,      \* what the users may do that a login can bring: sets of Authorizations
  Habits      \* what this page does that the client does not expect, of AllHabits

(* "early": uses a PV before its CreatePV command has been sent; "callback":   *)
(* closes PVs in callbacks; "stale": uses PVs it has closed, or a client it has *)
(* closed; "oneShot": removes an on-open callback while it runs, or twice.      *)
AllHabits == {"early", "callback", "stale", "oneShot"}

ASSUME ParamsAssumption == MaxPVs \in Nat /\ MaxCalls \in Nat /\ MaxUpdates \in Nat
Authorizations == {"CreatePV", "SetPVValue"}
ASSUME UsersAssumption == Users \subseteq SUBSET Authorizations
ASSUME HabitsAssumption == Habits \subseteq AllHabits

VARIABLES
  readyState,      \* of the WebSocket: "connecting", "open", "closing", "closed"
  websocket,       \* is the variable websocket not null?
  isLive,          \* WebPDA.isLive
  pvs,             \* the PV objects, by id: their internalPV and paused
  pvArray,         \* ids in pvArray
  internals,       \* the internal PVs, by id: parameterObj, myPVs, isPaused, and the
                   \* number of the last event, 0 when it is not connected
  internalPVArray, \* ids in internalPVArray
  internalPVID,    \* number of ids given to internal PVs
  onOpen,          \* webSocketOnOpenCallbacks: Page, or the internal PV to create
  timers,          \* removals of such callbacks that setTimeout has scheduled
  todo, inPage,    \* what is left of the running handler; is the page in a callback?
  toServer,        \* commands on their way
  toClient,        \* events on their way
  granted,         \* server: what the user of the session may do
  server,          \* server: the session's pvMap, "none", "running" or "paused"
  updates,         \* server: number of events of each PV
  calls,           \* number of calls of the page
  sent,            \* history: internal PVs whose CreatePV command has been sent
  refused,         \* history: those the server refused to create
  stray,           \* history: commands that met no PV on the server
  joined,          \* history: PVs added to an internal PV that was paused
  told             \* history: the last event the page knows from each PV

socketVars == <<readyState, websocket, isLive>>
clientVars == <<pvs, pvArray, internals, internalPVArray, internalPVID, joined, told>>
openVars   == <<onOpen, timers, sent>>
loopVars   == <<todo, inPage>>
serverVars == <<toClient, granted, server, updates, refused, stray>>
vars == <<readyState, websocket, isLive, pvs, pvArray, internals, internalPVArray, internalPVID,
          onOpen, timers, todo, inPage, toServer, toClient, granted, server, updates,
          calls, sent, refused, stray, joined, told>>

Ids  == 1..MaxPVs
Page == 0  \* an on-open callback of the page

Command == [name: {"Login", "Logout", "CreatePV", "ClosePV", "PausePV", "ResumePV", "SetPVValue"},
            id: {0} \cup Ids]
NewCommand(name, i) == [name |-> name, id |-> i]

(* What a handler has still to do: call the k-th on-open callback, fire a PV of  *)
(* pvArray, all internal PVs, one of them, or the k-th PV of an internal PV.     *)
Item == [kind: {"open", "pv", "internals", "internal", "slot"}, id: {0} \cup Ids, key: Nat]
NewItem(kind, i, k) == [kind |-> kind, id |-> i, key |-> k]

TypeOK ==
  /\ readyState \in {"connecting", "open", "closing", "closed"}
  /\ websocket \in BOOLEAN /\ isLive \in BOOLEAN
  /\ pvs \in Seq([internal: Ids, paused: BOOLEAN]) /\ Len(pvs) <= MaxPVs
  /\ internals \in Seq([param: Params, myPVs: SUBSET Ids, isPaused: BOOLEAN, shown: Nat])
  /\ Len(internals) <= MaxPVs
  /\ pvArray \subseteq 1..Len(pvs) /\ internalPVArray \subseteq 1..Len(internals)
  /\ internalPVID \in 0..Len(internals)
  /\ onOpen \in Seq({Page} \cup Ids) /\ timers \subseteq Ids
  /\ todo \in Seq(Item) /\ inPage \in BOOLEAN
  /\ toServer \in Seq(Command)
  /\ toClient \in Seq([id: Ids, number: Nat])
  /\ granted \subseteq Authorizations /\ server \in [Ids -> {"none", "running", "paused"}]
  /\ updates \in [Ids -> 0..MaxUpdates] /\ calls \in 0..MaxCalls
  /\ sent \subseteq Ids /\ refused \subseteq Ids /\ stray \subseteq Ids
  /\ joined \subseteq Ids /\ told \in [Ids -> Nat]

(* new WebPDA(url, username, password), on a server that has no session yet. *)
Init ==
  /\ readyState = "connecting" /\ websocket = TRUE /\ isLive = FALSE
  /\ pvs = <<>> /\ pvArray = {} /\ internals = <<>> /\ internalPVArray = {}
  /\ internalPVID = 0
  /\ onOpen = <<>> /\ timers = {} /\ todo = <<>> /\ inPage = FALSE
  /\ toServer = <<>> /\ toClient = <<>>
  /\ granted = {} /\ server = [i \in Ids |-> "none"] /\ updates = [i \in Ids |-> 0]
  /\ calls = 0 /\ sent = {} /\ refused = {} /\ stray = {} /\ joined = {}
  /\ told = [p \in Ids |-> 0]

-----------------------------------------------------------------------------
(* sendText(): of null, or of a socket that is still connecting, it throws; a   *)
(* socket that is closing or closed drops the text without a word.               *)
Throws == ~websocket \/ readyState = "connecting"
Sends(name, i) ==
  toServer' = IF readyState = "open" THEN Append(toServer, NewCommand(name, i)) ELSE toServer

(* The page acts when no handler runs, or in a callback. *)
AtPage == todo = <<>> \/ inPage

(* It uses a PV whose creation it has seen through, unless it has other habits. *)
MayUse(p) ==
  /\ AtPage /\ calls < MaxCalls
  /\ "early" \notin Habits => pvs[p].internal \in sent \/ ~websocket
  /\ "stale" \notin Habits => websocket /\ p \in pvArray

(* A call of the page ends, or throws: the page catches it, or its handler ends. *)
Returns == UNCHANGED loopVars
Fails   == Returns \/ (todo' = <<>> /\ inPage' = FALSE)

Called == calls' = calls + 1

(* Mutant: the id of the PV in pvArray is one too high. *)
NewPVTooHigh(i) ==
  /\ pvs' = Append(pvs, [internal |-> i, paused |-> FALSE])
  /\ pvArray' = pvArray \cup {Len(pvs) + 2}

NewPV(i) ==
  /\ pvs' = Append(pvs, [internal |-> i, paused |-> FALSE])
  /\ pvArray' = pvArray \cup {Len(pvs) + 1}

(* Mutant: compareFunc() finds no two parameter objects equal. *)
NeverKnown(param) == FALSE

(* getInternalPV() *)
Known(param) == \E i \in internalPVArray : internals[i].param = param

(* createPV(name, ...): of parameters that an internal PV has already ... *)
Join(param) ==
  \E i \in internalPVArray :
    LET p == Len(pvs) + 1
    IN  /\ internals[i].param = param
        /\ NewPV(i)
        /\ internals' = [internals EXCEPT ![i].myPVs = @ \cup {p}]
        /\ joined' = IF internals[i].isPaused THEN joined \cup {p} ELSE joined
        /\ told' = [told EXCEPT ![p] = internals[i].shown]
        /\ Returns
        /\ UNCHANGED <<internalPVArray, internalPVID, onOpen, sent, toServer>>

(* ... or of new ones: the command is sent, or left to an on-open callback.      *)
CreateNew(param) ==
  LET p == Len(pvs) + 1
      i == Len(internals) + 1
  IN  /\ ~Known(param) /\ ~(isLive /\ Throws) /\ Len(internals) < MaxPVs
      /\ internalPVID' = internalPVID + 1
      /\ internals' = Append(internals, [param |-> param, myPVs |-> {p}, isPaused |-> FALSE, shown |-> 0])
      /\ internalPVArray' = internalPVArray \cup {i}
      /\ NewPV(i)
      /\ IF isLive THEN Sends("CreatePV", i) /\ sent' = sent \cup {i} /\ UNCHANGED onOpen
                   ELSE onOpen' = Append(onOpen, i) /\ UNCHANGED <<toServer, sent>>
      /\ Returns
      /\ UNCHANGED <<joined, told>>

(* What internalPVArray has at the index of internal PV i: those that were given *)
(* no id have the next one, one after the other.                                 *)
Slot(i) == {j \in internalPVArray : j = i \/ (i > internalPVID /\ j > internalPVID)}

(* Of a client that was open and that the page has closed, the command throws    *)
(* when the internal PV has been registered, and before its id is taken: it has  *)
(* no PV, the next PV of its parameters joins it, and the next internal PV takes *)
(* its place in internalPVArray.                                                 *)
CreateThrows(param) ==
  LET i == Len(internals) + 1
  IN  /\ ~Known(param) /\ isLive /\ Throws /\ Len(internals) < MaxPVs
      /\ internals' = Append(internals, [param |-> param, myPVs |-> {}, isPaused |-> FALSE, shown |-> 0])
      /\ internalPVArray' = (internalPVArray \ Slot(i)) \cup {i}
      /\ Fails
      /\ UNCHANGED <<pvs, pvArray, internalPVID, joined, told, onOpen, sent, toServer>>

CreatePV(param) ==
  /\ AtPage /\ Len(pvs) < MaxPVs
  /\ "stale" \notin Habits => websocket
  /\ Join(param) \/ CreateNew(param) \/ CreateThrows(param)
  /\ UNCHANGED <<socketVars, timers, serverVars, calls>>

(* Mutant: closePV() does not look for other PVs. *)
LastAlways(i, p) == TRUE

(* WebPDAInternalPV.closePV(): no other PV is left. *)
LastOf(i, p) == internals[i].myPVs \subseteq {p}

(* Mutant: internalPVArray keeps what it has closed. *)
CloseInternalKeeps(i) == Sends("ClosePV", i) /\ UNCHANGED internalPVArray

(* closeInternalPV() *)
CloseInternalPV(i) == Sends("ClosePV", i) /\ internalPVArray' = internalPVArray \ {i}

(* PV.close(): the last PV of an internal PV closes that. *)
ClosePV(p) ==
  LET i == pvs[p].internal
  IN  /\ MayUse(p) /\ Called
      /\ "callback" \notin Habits => todo = <<>>
      /\ pvArray' = pvArray \ {p}
      /\ internals' = [internals EXCEPT ![i].myPVs = @ \ {p}]
      /\ \/ ~LastOf(i, p) /\ Returns /\ UNCHANGED <<internalPVArray, toServer>>
         \/ LastOf(i, p) /\ Throws /\ Fails /\ UNCHANGED <<internalPVArray, toServer>>
         \/ LastOf(i, p) /\ ~Throws /\ Returns /\ CloseInternalPV(i)
      /\ UNCHANGED <<socketVars, pvs, internalPVID, openVars, serverVars, joined, told>>

(* Mutant: one PV that is paused is enough. *)
AnyPaused(i, p, paused) == \E q \in internals[i].myPVs : IF q = p THEN paused ELSE pvs[q].paused

AllPaused(i, p, paused) == \A q \in internals[i].myPVs : IF q = p THEN paused ELSE pvs[q].paused

(* Mutant: isPaused stays as it was. *)
PauseInternalForgets(i, all) ==
  Sends(IF all THEN "PausePV" ELSE "ResumePV", i) /\ UNCHANGED internals

(* pauseInternalPV(), and isPaused = allPVsPaused *)
PauseInternalPV(i, all) ==
  /\ Sends(IF all THEN "PausePV" ELSE "ResumePV", i)
  /\ internals' = [internals EXCEPT ![i].isPaused = all]

(* PV.setPaused(): the internal PV is paused while all its PVs are. *)
SetPaused(p, paused) ==
  LET i   == pvs[p].internal
      all == AllPaused(i, p, paused)
  IN  /\ MayUse(p) /\ Called
      /\ pvs' = [pvs EXCEPT ![p].paused = paused]
      /\ told' = IF pvs[p].paused /\ ~paused THEN [told EXCEPT ![p] = internals[i].shown] ELSE told
      /\ joined' = joined \ {p}
      /\ \/ all = internals[i].isPaused /\ Returns /\ UNCHANGED <<internals, toServer>>
         \/ all # internals[i].isPaused /\ Throws /\ Fails /\ UNCHANGED <<internals, toServer>>
         \/ all # internals[i].isPaused /\ ~Throws /\ Returns /\ PauseInternalPV(i, all)
      /\ UNCHANGED <<socketVars, pvArray, internalPVArray, internalPVID, openVars, serverVars>>

(* setPVValue(pv, value), login(), logout(): a command is sent, or it throws. *)
Say(name, i) ==
  /\ IF Throws THEN Fails /\ UNCHANGED toServer ELSE Returns /\ Sends(name, i)
  /\ UNCHANGED <<socketVars, clientVars, openVars, serverVars>>

SetPVValue(p) == MayUse(p) /\ Called /\ Say("SetPVValue", pvs[p].internal)

LogInOrOut(name) ==
  /\ AtPage /\ calls < MaxCalls /\ Called
  /\ "early" \notin Habits => readyState # "connecting"
  /\ "stale" \notin Habits => websocket
  /\ Say(name, 0)

(* addWebSocketOnOpenCallback(), removeWebSocketOnOpenCallback(): splice() of    *)
(* the index -1 of an absent callback removes the last one.                      *)
Without(callback) ==
  IF onOpen = <<>> THEN onOpen
  ELSE IF Contains(onOpen, callback)
    THEN RemoveAt(onOpen, CHOOSE k \in DOMAIN onOpen :
                            onOpen[k] = callback /\ \A j \in 1..(k-1) : onOpen[j] # callback)
    ELSE Front(onOpen)

AddOnOpen ==
  /\ AtPage /\ readyState = "connecting" /\ ~Contains(onOpen, Page)
  /\ onOpen' = Append(onOpen, Page)
  /\ UNCHANGED <<socketVars, clientVars, timers, sent, loopVars, toServer, serverVars, calls>>

RemoveOnOpen ==
  /\ AtPage /\ calls < MaxCalls /\ Called
  /\ "oneShot" \notin Habits => todo = <<>> /\ Contains(onOpen, Page)
  /\ onOpen' = Without(Page)
  /\ UNCHANGED <<socketVars, clientVars, timers, sent, loopVars, toServer, serverVars>>

(* WebPDA.close() *)
Close ==
  /\ AtPage /\ websocket
  /\ websocket' = FALSE
  /\ readyState' = IF readyState = "closed" THEN "closed" ELSE "closing"
  /\ UNCHANGED <<isLive, clientVars, openVars, loopVars, toServer, serverVars, calls>>

PageActs ==
  \/ \E param \in Params : CreatePV(param)
  \/ \E p \in 1..Len(pvs) : ClosePV(p) \/ SetPVValue(p) \/ \E paused \in BOOLEAN : SetPaused(p, paused)
  \/ \E name \in {"Login", "Logout"} : LogInOrOut(name)
  \/ AddOnOpen \/ RemoveOnOpen \/ Close

-----------------------------------------------------------------------------
(* The browser runs the next handler when the last one has returned. The loops  *)
(* are for-in loops: their keys are those of the array when they start, and a   *)
(* key that is gone when its turn comes is skipped.                             *)
Nth(S, k) == CHOOSE id \in S : Cardinality({other \in S : other < id}) = k - 1
Items(kind, S) == [k \in 1..Cardinality(S) |-> NewItem(kind, Nth(S, k), 0)]
Slots(i) == [k \in 1..Cardinality(internals[i].myPVs) |-> NewItem("slot", i, k)]
Runs(items) == todo = <<>> /\ todo' = items /\ inPage' = FALSE

(* websocket.onopen: log in, then fireOnOpen(). *)
OnOpen ==
  /\ readyState = "connecting" /\ readyState' = "open" /\ isLive' = TRUE
  /\ toServer' = Append(toServer, NewCommand("Login", 0))
  /\ Runs([k \in 1..Len(onOpen) |-> NewItem("open", 0, k)])
  /\ UNCHANGED <<websocket, clientVars, openVars, serverVars, calls>>

(* websocket.onmessage: an event of a PV, dropped when the PV has been closed;   *)
(* a socket that is closing delivers nothing.                                    *)
OnMessage ==
  LET event == Head(toClient)
  IN  /\ toClient # <<>> /\ toClient' = Tail(toClient)
      /\ \/ /\ readyState = "open" /\ event.id \in internalPVArray
            /\ internals' = [internals EXCEPT ![event.id].shown = event.number]
            /\ Runs(Slots(event.id))
         \/ /\ readyState # "open" \/ event.id \notin internalPVArray
            /\ Runs(<<>>) /\ UNCHANGED internals
      /\ UNCHANGED <<socketVars, pvs, pvArray, internalPVArray, internalPVID, joined, told, openVars,
                     toServer, granted, server, updates, calls, refused, stray>>

(* websocket.onclose: every PV, and then every internal PV, is told that it is   *)
(* not connected. (The handler's "this" is the socket: isLive stays as it is.)   *)
(* The session of the server ends with its socket.                               *)
OnClose ==
  /\ readyState # "closed" /\ readyState' = "closed"
  /\ Runs(Items("pv", pvArray) \o <<NewItem("internals", 0, 0)>>)
  /\ toServer' = <<>> /\ toClient' = <<>> /\ granted' = {}
  /\ server' = [i \in Ids |-> "none"]
  /\ UNCHANGED <<websocket, isLive, clientVars, openVars, updates, calls, refused, stray>>

(* setTimeout(function() { removeWebSocketOnOpenCallback(listener) }, 0)         *)
OnTimeout ==
  \E i \in timers :
    /\ Runs(<<>>)
    /\ timers' = timers \ {i} /\ onOpen' = Without(i)
    /\ UNCHANGED <<socketVars, clientVars, sent, toServer, serverVars, calls>>

-----------------------------------------------------------------------------
(* One turn of a loop of the running handler. *)
Goes(items) == todo' = items \o Tail(todo)
CallPage == Goes(<<>>) /\ inPage' = TRUE
Skip     == Goes(<<>>) /\ inPage' = FALSE

(* Mutant: the listener removes itself while the loop runs. *)
RemoveAtOnce(i) == onOpen' = Without(i) /\ UNCHANGED timers

RemoveLater(i) == timers' = timers \cup {i} /\ UNCHANGED onOpen

(* webSocketOnOpenCallbacks[k](): one of the page, or the listener of            *)
(* internalCreatePV(), which sends the command and leaves its removal for later. *)
CallOnOpen(k) ==
  /\ UNCHANGED <<told, internals>>
  /\ \/ k > Len(onOpen) /\ Skip /\ UNCHANGED <<onOpen, timers, sent, toServer>>
     \/ k <= Len(onOpen) /\ onOpen[k] = Page /\ CallPage /\ UNCHANGED <<onOpen, timers, sent, toServer>>
     \/ /\ k <= Len(onOpen) /\ onOpen[k] # Page
        /\ \/ Throws /\ todo' = <<>> /\ inPage' = FALSE /\ UNCHANGED <<onOpen, timers, sent, toServer>>
           \/ /\ ~Throws /\ Skip
              /\ Sends("CreatePV", onOpen[k]) /\ sent' = sent \cup {onOpen[k]}
              /\ RemoveLater(onOpen[k])

(* Mutant: a PV that is paused ends the loop. *)
TellOrEnd(p, number) ==
  \/ pvs[p].paused /\ todo' = <<>> /\ inPage' = FALSE /\ UNCHANGED told
  \/ ~pvs[p].paused /\ CallPage /\ told' = [told EXCEPT ![p] = number]

(* PV.firePVEventFunc(): the callbacks of a PV that is not paused. *)
Tell(p, number) ==
  \/ pvs[p].paused /\ Skip /\ UNCHANGED told
  \/ ~pvs[p].paused /\ CallPage /\ told' = [told EXCEPT ![p] = number]

(* pvArray[p].firePVEventFunc() with "conn", false *)
FirePV(p) ==
  /\ \/ p \in pvArray /\ Tell(p, 0)
     \/ p \notin pvArray /\ Skip /\ UNCHANGED told
  /\ UNCHANGED <<internals, onOpen, timers, sent, toServer>>

(* fireOnClose(): internalPVArray[i].firePVEventFunc() with "conn", false *)
FireInternalPVs ==
  /\ Goes(Items("internal", internalPVArray)) /\ inPage' = FALSE
  /\ UNCHANGED <<told, internals, onOpen, timers, sent, toServer>>

FireInternalPV(i) ==
  /\ \/ \E j \in Slot(i) :
          /\ internals' = [internals EXCEPT ![j].shown = 0]
          /\ Goes(Slots(j)) /\ inPage' = FALSE
     \/ Slot(i) = {} /\ Skip /\ UNCHANGED internals
  /\ UNCHANGED <<told, onOpen, timers, sent, toServer>>

(* Mutant: the loop stops one short. *)
FireSlotShort(i, k) ==
  LET myPVs == internals[i].myPVs
  IN  /\ \/ k < Cardinality(myPVs) /\ Tell(Nth(myPVs, k), internals[i].shown)
         \/ k >= Cardinality(myPVs) /\ Skip /\ UNCHANGED told
      /\ UNCHANGED <<internals, onOpen, timers, sent, toServer>>

(* myPVs[k].firePVEventFunc() of an internal PV *)
FireSlot(i, k) ==
  LET myPVs == internals[i].myPVs
  IN  /\ \/ k <= Cardinality(myPVs) /\ Tell(Nth(myPVs, k), internals[i].shown)
         \/ k > Cardinality(myPVs) /\ Skip /\ UNCHANGED told
      /\ UNCHANGED <<internals, onOpen, timers, sent, toServer>>

Step ==
  /\ todo # <<>>
  /\ LET item == Head(todo)
     IN  \/ item.kind = "open" /\ CallOnOpen(item.key)
         \/ item.kind = "pv" /\ FirePV(item.id)
         \/ item.kind = "internals" /\ FireInternalPVs
         \/ item.kind = "internal" /\ FireInternalPV(item.id)
         \/ item.kind = "slot" /\ FireSlot(item.id, item.key)
  /\ UNCHANGED <<socketVars, pvs, pvArray, internalPVArray, internalPVID, joined, serverVars, calls>>

-----------------------------------------------------------------------------
(* The session of the server, as far as the client sees it: modules SendQueue   *)
(* and PVLifecycle have the rest. Commands run in the order of their messages.  *)
Permitted(name) == name \in Authorizations => name \in granted

(* getPV() of an id that is not in the map: the command meets no PV. *)
Obey(name, i) ==
  \/ name = "CreatePV" /\ server' = [server EXCEPT ![i] = "running"] /\ UNCHANGED stray
  \/ name = "ClosePV" /\ server' = [server EXCEPT ![i] = "none"] /\ UNCHANGED stray
  \/ /\ name \in {"PausePV", "ResumePV", "SetPVValue"} /\ server[i] = "none"
     /\ stray' = stray \cup {i} /\ UNCHANGED server
  \/ /\ name \in {"PausePV", "ResumePV"} /\ server[i] # "none"
     /\ server' = [server EXCEPT ![i] = IF name = "PausePV" THEN "paused" ELSE "running"]
     /\ UNCHANGED stray
  \/ name = "SetPVValue" /\ server[i] # "none" /\ UNCHANGED <<server, stray>>

Execute ==
  LET name == Head(toServer).name
      i    == Head(toServer).id
  IN  /\ toServer # <<>> /\ toServer' = Tail(toServer)
      /\ \/ name = "Login" /\ granted' \in Users \cup {granted} /\ UNCHANGED <<server, stray, refused>>
         \/ name = "Logout" /\ granted' = {} /\ UNCHANGED <<server, stray, refused>>
         \/ /\ name \notin {"Login", "Logout"} /\ Permitted(name)
            /\ Obey(name, i) /\ UNCHANGED <<granted, refused>>
         \/ /\ ~Permitted(name)
            /\ refused' = IF name = "CreatePV" THEN refused \cup {i} ELSE refused
            /\ UNCHANGED <<granted, server, stray>>
      /\ UNCHANGED <<socketVars, clientVars, openVars, loopVars, toClient, updates, calls>>

(* An event of a PV that runs is sent to the client. *)
Update(i) ==
  /\ server[i] = "running" /\ updates[i] < MaxUpdates
  /\ updates' = [updates EXCEPT ![i] = @ + 1]
  /\ toClient' = Append(toClient, [id |-> i, number |-> updates[i] + 1])
  /\ UNCHANGED <<socketVars, clientVars, openVars, loopVars, toServer, granted, server,
                 calls, refused, stray>>

Next ==
  \/ PageActs
  \/ OnOpen \/ OnMessage \/ OnClose \/ OnTimeout \/ Step
  \/ Execute \/ \E i \in Ids : Update(i)

Spec == Init /\ [][Next]_vars

(* The browser runs handlers and timers to their end and delivers messages, and  *)
(* a socket that is closing is closed in the end; the server executes commands.  *)
(* The page need not act, the connection need not open, no PV need have events.  *)
Fairness ==
  /\ WF_vars(Step) /\ WF_vars(OnMessage) /\ WF_vars(OnTimeout) /\ WF_vars(Execute)
  /\ WF_vars(readyState = "closing" /\ OnClose)

FairSpec == Spec /\ Fairness

-----------------------------------------------------------------------------
(* The promise of module Subscriptions: what the page has opened and paused is   *)
(* what the session runs, once the commands on their way have been executed.     *)
wanted  == [i \in Ids |-> IF i \notin internalPVArray THEN "none"
                          ELSE IF internals[i].isPaused THEN "paused" ELSE "running"]
phase   == IF readyState = "connecting" THEN "new" ELSE readyState

S == INSTANCE Subscriptions WITH
       unsent <- internalPVArray \ sent, pending <- toServer, actual <- server,
       Others <- {command \in Command : command.name \in {"Login", "Logout", "SetPVValue"}}

(* internalCreatePV(), closePV(), pausePV() and the on-open listeners implement  *)
(* the client's part of Subscriptions, and the commands the server's.            *)
ImplementsSubscriptions == S!Spec

(* Between two handlers, with nothing on its way, the PVs of the session are     *)
(* those the client counts on, in the state the client believes: closePV() and   *)
(* pausePV() have left no PV behind and none in another state.                   *)
Agreed ==
  todo = <<>> /\ toServer = <<>> /\ readyState = "open" =>
    \A i \in Ids \ refused : i \notin internalPVArray \/ i \in sent => server[i] = wanted[i]

(* internalPVArray and the lists myPVs of its members partition the PVs of the   *)
(* page: a PV is fired by exactly one internal PV, and there is one of each      *)
(* parameters, so that two PVs of one name cost one channel.  (Once the page has *)
(* closed the client, a PV may be left whose internal PV was overwritten; the    *)
(* rest holds even then.)                                                        *)
OneChannelEach ==
  /\ websocket => \A p \in pvArray : pvs[p].internal \in internalPVArray
  /\ \A i \in DOMAIN internals :
       internals[i].myPVs = {p \in pvArray : pvs[p].internal = i}
  /\ \A i \in internalPVArray :
       /\ readyState = "open" => internals[i].myPVs # {}
       /\ \A j \in internalPVArray \ {i} : internals[j].param # internals[i].param

(* While the socket is open, a PV that is not paused, and joined no paused one,  *)
(* hears its channel: pausePV() pauses an internal PV only when all its PVs are. *)
NotSilenced ==
  readyState = "open" =>
    \A p \in pvArray \ joined : ~pvs[p].paused => ~internals[pvs[p].internal].isPaused

(* Between two handlers the page has been told, by each of its PVs that is not   *)
(* paused, the last event that its internal PV has seen: the loops over myPVs    *)
(* and pvArray skip nobody, and no event goes to a PV of another name.           *)
EveryPVTold ==
  todo = <<>> => \A p \in pvArray : ~pvs[p].paused => told[p] = internals[pvs[p].internal].shown

(* A command finds its PV on the server: CreatePV comes before it and ClosePV    *)
(* after it, but for the PVs whose creation was refused.                         *)
CommandsFindPV == stray \subseteq refused

(* A channel of the client is created on the server, or refused, once the socket *)
(* is open: no on-open listener is lost from webSocketOnOpenCallbacks.           *)
EveryPVCreated ==
  \A i \in Ids :
    i \in internalPVArray /\ readyState = "open" ~>
      server[i] # "none" \/ i \in refused \/ i \notin internalPVArray \/ readyState # "open"

(* An event reaches each PV of its channel that stays open and is not paused.    *)
EventsReachPage ==
  \A p \in Ids, n \in 1..MaxUpdates :
    (p \in pvArray /\ readyState = "open" /\ updates[pvs[p].internal] = n) ~>
      (p \notin pvArray \/ readyState # "open" \/ pvs[p].paused \/ told[p] >= n)

=============================================================================
