----------------------------- MODULE PVLifecycle -----------------------------
(***************************************************************************)
(* The PVs of one ClientSession: the container thread that runs the         *)
(* client's commands one after another (core/clientcommand/*PVCommand),     *)
(* the single notification thread of PVManagerPVFactory, and a thread that  *)
(* closes the session (cs/pvmanager/PVManagerPV, ClientSession.close).      *)
(*                                                                         *)
(* A PVManagerPV has two volatile fields, pvReader and pvWriter, that the   *)
(* notification thread sets and stop() clears on another thread; its        *)
(* methods read them twice, to test and to use.  Each read, write, monitor  *)
(* and task of the notification thread is a step.  What PVManager keeps     *)
(* open behind the fields is "handle".                                      *)
(***************************************************************************)
EXTENDS Naturals, Sequences, FiniteSets, Functions

CONSTANTS
  Ids,         \* PV ids of the client
  PVs,         \* PVManagerPV objects; bounds the PVs ever created
  NoPV,        \* null
  Writable,    \* those that are neither read only nor a formula
  MaxEvents,   \* bound: events of the control system on each PV
  MaxCommands  \* bound: commands of the client

ASSUME PVsAssumption == Writable \subseteq PVs /\ NoPV \notin PVs
ASSUME BoundsAssumption == MaxEvents \in [PVs -> Nat] /\ MaxCommands \in Nat

VARIABLES
  isOpen,     \* ClientSession.isOpen
  registered, \* the session is in ClientSessionManager
  pvMap,      \* ClientSession.pvMap
  monitor,    \* the session's monitor: "free", or the method that holds it
  toStop,     \* PVs the holder of the monitor has still to stop
  stopPC,     \* where it stands in stop()
  stopping,   \* the PV it stops
  startFlag,  \* PVManagerPV.startFlag
  field,      \* is the field pvReader, pvWriter not null?
  handle,     \* the PVReader, PVWriter itself: "none", "open", "closed"
  connected,  \* PVReader.isConnected()
  paused,     \* PVReader.isPaused()
  told,       \* what each listener has last sent of the connection: "none",
              \* "up", "down"; "paused" if added to a paused PV and never called
  created,    \* the PVManagerPVs created so far
  latched,    \* those whose start() latch has been counted down
  cmd, cpc,   \* the command of the container thread and where it stands
  commands,   \* number of commands begun
  tasks,      \* queue of the notification thread
  task, npc,  \* the task it runs, and where it stands
  events,     \* number of events of each PV
  exposed,    \* history: PVs whose creation met the closing of the session,
              \* or whose start() timed out
  failed      \* history: PVs of which a method found null where it had found an object

sessionVars == <<isOpen, registered, pvMap>>
stopVars    == <<monitor, toStop, stopPC, stopping>>
session     == <<sessionVars, stopVars>>
fieldVars   == <<startFlag, field, handle, latched>>
readerVars  == <<connected, paused, told>>
pvVars      == <<fieldVars, readerVars>>
threadVars  == <<tasks, task, npc>>
madeVars    == <<created, commands>>
cmdVars     == <<cmd, cpc, madeVars>>
logVars     == <<events, exposed, failed>>
vars == <<isOpen, registered, pvMap, monitor, toStop, stopPC, stopping, startFlag, field,
          handle, connected, paused, told, created, latched, cmd, cpc, commands,
          tasks, task, npc, events, exposed, failed>>

Handles == {"reader", "writer"}
Op      == {"create", "close", "pause", "resume", "write"}
Told    == {"none", "up", "down", "paused"}
Task    == [kind: {"start", "event", "update", "permission"}, pv: PVs, listener: Nat]

(* Listener 0 stands for all listeners that the PV has when the task runs. *)
All == 0
NewTask(kind, p, l) == [kind |-> kind, pv |-> p, listener |-> l]

NoCommand == [op |-> "close", id |-> NoPV, pv |-> NoPV, isNew |-> FALSE]

CommandPC == {"idle", "getPV", "addPV", "addListener", "checkReader", "useReader", "checkWriter",
              "useWriter", "start", "await", "remove", "removing", "check", "use"}

(* Types, and: only a PV that may be written has a writer.                    *)
TypeOK ==
  /\ isOpen \in BOOLEAN /\ registered \in BOOLEAN
  /\ pvMap \in [Ids -> PVs \cup {NoPV}]
  /\ monitor \in {"free", "removePV", "close"} /\ toStop \subseteq PVs
  /\ stopPC \in {"none", "closeReader", "closeWriter", "nullReader", "nullWriter", "flag"}
  /\ stopping \in PVs \cup {NoPV}
  /\ startFlag \in [PVs -> BOOLEAN]
  /\ field \in [PVs -> [Handles -> BOOLEAN]]
  /\ handle \in [PVs -> [Handles -> {"none", "open", "closed"}]]
  /\ \A p \in PVs \ Writable : handle[p]["writer"] = "none"
  /\ connected \in [PVs -> BOOLEAN] /\ paused \in [PVs -> BOOLEAN]
  /\ told \in [PVs -> Seq(Told)]
  /\ created \subseteq PVs /\ latched \subseteq created
  /\ exposed \subseteq created /\ failed \subseteq created
  /\ cmd \in [op: Op, id: Ids \cup {NoPV}, pv: PVs \cup {NoPV}, isNew: BOOLEAN]
  /\ cpc \in CommandPC /\ commands \in 0..MaxCommands
  /\ tasks \in Seq(Task)
  /\ task \in Task \cup {NoPV}
  /\ npc \in {"idle", "startReader", "startWriter", "countDown", "check", "use", "send"}
  /\ events \in [PVs -> Nat]

Init ==
  /\ isOpen = TRUE /\ registered = TRUE /\ pvMap = [i \in Ids |-> NoPV]
  /\ monitor = "free" /\ toStop = {} /\ stopPC = "none" /\ stopping = NoPV
  /\ startFlag = [p \in PVs |-> FALSE]
  /\ field = [p \in PVs |-> [h \in Handles |-> FALSE]]
  /\ handle = [p \in PVs |-> [h \in Handles |-> "none"]]
  /\ connected = [p \in PVs |-> FALSE] /\ paused = [p \in PVs |-> FALSE]
  /\ told = [p \in PVs |-> <<>>]
  /\ created = {} /\ latched = {} /\ exposed = {} /\ failed = {}
  /\ cmd = NoCommand /\ cpc = "idle" /\ commands = 0
  /\ tasks = <<>> /\ task = NoPV /\ npc = "idle"
  /\ events = [p \in PVs |-> 0]

(* The container thread goes on in its command, or ends it. *)
Goes(from, to) ==
  /\ cpc = from /\ cpc' = to
  /\ cmd' = IF to = "idle" THEN NoCommand ELSE cmd

ThreadGoes(from, to) == npc = from /\ npc' = to

(* addListener() and internalStart() are synchronized on the PV. *)
InAddListener(p)   == cmd.pv = p /\ cpc \in {"checkReader", "useReader", "checkWriter", "useWriter"}
InInternalStart(p) == npc = "startWriter" /\ task.pv = p
Creating(p)        == cmd.op = "create" /\ cmd.pv = p /\ cpc # "idle"

-----------------------------------------------------------------------------
(* WebPDAWSServer.executeCommand, for a session that is still registered.      *)
Begin(op, i) ==
  /\ registered /\ commands < MaxCommands
  /\ op = "create" => created # PVs
  /\ cpc = "idle" /\ cpc' = IF op = "close" THEN "remove" ELSE "getPV"
  /\ cmd' = [op |-> op, id |-> i, pv |-> NoPV, isNew |-> FALSE]
  /\ commands' = commands + 1
  /\ UNCHANGED <<session, pvVars, created, threadVars, logVars>>

(* getClientSession().getPV(id), synchronized; PVFactory.createPV() if there is  *)
(* none.  The other commands call a method of null then, and end by exception.   *)
GetPV ==
  /\ cpc = "getPV" /\ monitor = "free"
  /\ LET p == pvMap[cmd.id]
     IN  \/ /\ p # NoPV
            /\ cmd' = [cmd EXCEPT !.pv = p]
            /\ cpc' = IF cmd.op = "create" THEN "addListener" ELSE "check"
            /\ UNCHANGED created
         \/ /\ p = NoPV /\ cmd.op = "create"
            /\ \E new \in PVs \ created :
                 /\ cmd' = [cmd EXCEPT !.pv = new, !.isNew = TRUE]
                 /\ created' = created \cup {new}
            /\ cpc' = "addPV"
         \/ /\ p = NoPV /\ cmd.op # "create"
            /\ cpc' = "idle" /\ cmd' = NoCommand
            /\ UNCHANGED created
  /\ UNCHANGED <<session, pvVars, commands, threadVars, logVars>>

(* addPV(id, pv), synchronized: without effect when the session is closed. *)
AddPV ==
  /\ monitor = "free"
  /\ Goes("addPV", "addListener")
  /\ pvMap' = IF isOpen THEN [pvMap EXCEPT ![cmd.id] = cmd.pv] ELSE pvMap
  /\ exposed' = IF isOpen THEN exposed ELSE exposed \cup {cmd.pv}
  /\ UNCHANGED <<isOpen, registered, stopVars, pvVars, madeVars, threadVars, events,
                 failed>>

(* addListener(listener), synchronized on the PV, up to the test of pvReader. *)
AddListener ==
  /\ Goes("addListener", "checkReader")
  /\ ~InInternalStart(cmd.pv)
  /\ told' = [told EXCEPT ![cmd.pv] = Append(@, "none")]
  /\ UNCHANGED <<session, fieldVars, connected, paused, madeVars, threadVars, logVars>>

(* A field is tested: go on to use it, or skip to what follows. *)
CheckField(h, from, use, skip) ==
  /\ Goes(from, IF field[cmd.pv][h] THEN use ELSE skip)
  /\ UNCHANGED <<session, pvVars, madeVars, threadVars, logVars>>

(* It is used, but has become null in between: the command ends by exception. *)
FindsNull(h, use) ==
  /\ Goes(use, "idle")
  /\ ~field[cmd.pv][h]
  /\ failed' = failed \cup {cmd.pv}
  /\ UNCHANGED <<session, pvVars, madeVars, threadVars, events, exposed>>

(* Mutant: an update only if there was none before the listener was added. *)
NoUpdateForLater ==
  /\ Goes("useReader", "checkWriter")
  /\ field[cmd.pv]["reader"]
  /\ told' = [told EXCEPT ![cmd.pv][Len(told[cmd.pv])] = IF paused[cmd.pv] THEN "paused" ELSE @]
  /\ UNCHANGED <<session, fieldVars, connected, paused, madeVars, threadVars, logVars>>

(* The later listener of a connected PV that is not paused is given an update.  *)
UpdateLater ==
  /\ Goes("useReader", "checkWriter")
  /\ field[cmd.pv]["reader"]
  /\ LET p == cmd.pv
         l == Len(told[p])
         update == handle[p]["reader"] = "open" /\ connected[p] /\ ~paused[p]
     IN  /\ tasks' = IF update THEN Append(tasks, NewTask("update", p, l)) ELSE tasks
         /\ told' = [told EXCEPT ![p][l] = IF paused[p] THEN "paused" ELSE @]
  /\ UNCHANGED <<session, fieldVars, connected, paused, madeVars, task, npc, logVars>>

(* It is also told of the write permission.  addListener() returns, and the      *)
(* command goes on to start() if it has created the PV.                          *)
PermissionForLater ==
  /\ Goes("useWriter", "start")
  /\ field[cmd.pv]["writer"]
  /\ tasks' = IF handle[cmd.pv]["writer"] # "open" THEN tasks
              ELSE Append(tasks, NewTask("permission", cmd.pv, Len(told[cmd.pv])))
  /\ UNCHANGED <<session, pvVars, madeVars, task, npc, logVars>>

AddListenerGoesOn ==
  \/ CheckField("reader", "checkReader", "useReader", "checkWriter")
  \/ FindsNull("reader", "useReader")
  \/ UpdateLater
  \/ CheckField("writer", "checkWriter", "useWriter", "start")
  \/ FindsNull("writer", "useWriter")
  \/ PermissionForLater

(* Mutant: newPV is not set. *)
StartNever ==
  /\ Goes("start", "idle")
  /\ UNCHANGED <<session, pvVars, madeVars, threadVars, logVars>>

(* if (newPV) pv.start(): internalStart() is left to the notification thread. *)
Start ==
  /\ Goes("start", IF cmd.isNew THEN "await" ELSE "idle")
  /\ IF cmd.isNew
       THEN /\ startFlag' = [startFlag EXCEPT ![cmd.pv] = TRUE]
            /\ tasks' = Append(tasks, NewTask("start", cmd.pv, All))
       ELSE UNCHANGED <<startFlag, tasks>>
  /\ UNCHANGED <<session, field, handle, latched, readerVars, madeVars, task, npc,
                 logVars>>

(* latch.await(), which gives up after 30 seconds: the exception is logged. *)
StartReturns ==
  /\ cmd.pv \in latched
  /\ Goes("await", "idle")
  /\ UNCHANGED <<session, pvVars, madeVars, threadVars, logVars>>

StartTimesOut ==
  /\ cmd.pv \notin latched
  /\ Goes("await", "idle")
  /\ exposed' = exposed \cup {cmd.pv}
  /\ UNCHANGED <<session, pvVars, madeVars, threadVars, events, failed>>

-----------------------------------------------------------------------------
(* PausePV and SetPVValue: a field is tested, then used. *)
SetPaused ==
  /\ Goes("use", "idle")
  /\ cmd.op \in {"pause", "resume"} /\ field[cmd.pv]["reader"]
  /\ paused' = [paused EXCEPT ![cmd.pv] = cmd.op = "pause"]
  /\ UNCHANGED <<session, fieldVars, connected, told, madeVars, threadVars, logVars>>

(* pvWriter.write(value), to an open or a closed writer. *)
SetValue ==
  /\ Goes("use", "idle")
  /\ cmd.op = "write" /\ field[cmd.pv]["writer"]
  /\ UNCHANGED <<session, pvVars, madeVars, threadVars, logVars>>

UsePV ==
  \/ cmd.op \in {"pause", "resume"}
       /\ (CheckField("reader", "check", "use", "idle") \/ FindsNull("reader", "use"))
  \/ cmd.op = "write"
       /\ (CheckField("writer", "check", "use", "idle") \/ FindsNull("writer", "use"))
  \/ SetPaused \/ SetValue

-----------------------------------------------------------------------------
(* stop(), which removePV(id) and close() call with the monitor of the session. *)

(* Mutant: all PVs of the session are stopped. *)
RemoveStopsAll ==
  /\ monitor = "free"
  /\ Goes("remove", "removing")
  /\ monitor' = "removePV"
  /\ toStop' = Range(pvMap) \ {NoPV}
  /\ UNCHANGED <<sessionVars, stopPC, stopping, pvVars, madeVars, threadVars, logVars>>

(* Mutant: the PV leaves the map, but is not stopped. *)
RemoveOnly ==
  /\ monitor = "free"
  /\ Goes("remove", "removing")
  /\ monitor' = "removePV"
  /\ UNCHANGED <<sessionVars, toStop, stopPC, stopping, pvVars, madeVars, threadVars,
                 logVars>>

RemovePV ==
  /\ monitor = "free"
  /\ Goes("remove", "removing")
  /\ monitor' = "removePV"
  /\ toStop' = {pvMap[cmd.id]} \ {NoPV}
  /\ UNCHANGED <<sessionVars, stopPC, stopping, pvVars, madeVars, threadVars, logVars>>

EndRemovePV ==
  /\ monitor = "removePV" /\ toStop = {} /\ stopPC = "none"
  /\ Goes("removing", "idle")
  /\ pvMap' = [pvMap EXCEPT ![cmd.id] = NoPV]
  /\ monitor' = "free"
  /\ UNCHANGED <<isOpen, registered, toStop, stopPC, stopping, pvVars, madeVars,
                 threadVars, logVars>>

(* close() by another thread. *)
Close ==
  /\ monitor = "free" /\ isOpen
  /\ isOpen' = FALSE
  /\ monitor' = "close"
  /\ toStop' = Range(pvMap) \ {NoPV}
  /\ exposed' = exposed \cup {p \in created : Creating(p)}
  /\ UNCHANGED <<registered, pvMap, stopPC, stopping, pvVars, cmdVars, threadVars,
                 events, failed>>

(* Mutant: the session stays in the registry. *)
EndCloseRegistered ==
  /\ monitor = "close" /\ toStop = {} /\ stopPC = "none"
  /\ pvMap' = [i \in Ids |-> NoPV]
  /\ monitor' = "free"
  /\ UNCHANGED <<isOpen, registered, toStop, stopPC, stopping, pvVars, cmdVars,
                 threadVars, logVars>>

(* pvMap.clear(), isClosed = true and unRegisterSession(), up to the end. *)
EndClose ==
  /\ monitor = "close" /\ toStop = {} /\ stopPC = "none"
  /\ pvMap' = [i \in Ids |-> NoPV] /\ registered' = FALSE
  /\ monitor' = "free"
  /\ UNCHANGED <<isOpen, toStop, stopPC, stopping, pvVars, cmdVars, threadVars,
                 logVars>>

StopBegins(p) ==
  /\ monitor # "free" /\ stopPC = "none" /\ p \in toStop
  /\ toStop' = toStop \ {p}
  /\ IF startFlag[p] THEN stopPC' = "closeReader" /\ stopping' = p
                     ELSE UNCHANGED <<stopPC, stopping>>
  /\ UNCHANGED <<sessionVars, monitor, pvVars, cmdVars, threadVars, logVars>>

StopGoes(from, to) == stopPC = from /\ stopPC' = to

(* if (pvReader != null) pvReader.close(), and the same of pvWriter *)
StopCloses(h, from, to) ==
  /\ StopGoes(from, to)
  /\ handle' = IF field[stopping][h] THEN [handle EXCEPT ![stopping][h] = "closed"] ELSE handle
  /\ UNCHANGED <<sessionVars, monitor, toStop, stopping, startFlag, field, latched,
                 readerVars, cmdVars, threadVars, logVars>>

StopNulls(h, from, to) ==
  /\ StopGoes(from, to)
  /\ field' = [field EXCEPT ![stopping][h] = FALSE]
  /\ UNCHANGED <<sessionVars, monitor, toStop, stopping, startFlag, handle, latched,
                 readerVars, cmdVars, threadVars, logVars>>

StopClearsFlag ==
  /\ StopGoes("flag", "none") /\ stopping' = NoPV
  /\ startFlag' = [startFlag EXCEPT ![stopping] = FALSE]
  /\ UNCHANGED <<sessionVars, monitor, toStop, field, handle, latched, readerVars,
                 cmdVars, threadVars, logVars>>

Stop ==
  \/ \E p \in PVs : StopBegins(p)
  \/ StopCloses("reader", "closeReader", "closeWriter")
  \/ StopCloses("writer", "closeWriter", "nullReader")
  \/ StopNulls("reader", "nullReader", "nullWriter")
  \/ StopNulls("writer", "nullWriter", "flag")
  \/ StopClearsFlag

-----------------------------------------------------------------------------
(* PVManager, which runs its listeners on the notification thread: "event" is  *)
(* a change of the connection and of the value of a reader that is not paused,  *)
(* "permission" one of the connection of a writer.  One is in flight at a time. *)
HandleOf(kind) == IF kind = "permission" THEN "writer" ELSE "reader"

Event(kind, p) ==
  /\ events[p] < MaxEvents[p]
  /\ handle[p][HandleOf(kind)] = "open"
  /\ kind = "event" => ~paused[p]
  /\ \A i \in 1..Len(tasks) : tasks[i] # NewTask(kind, p, All)
  /\ tasks' = Append(tasks, NewTask(kind, p, All))
  /\ events' = [events EXCEPT ![p] = @ + 1]
  /\ UNCHANGED <<session, pvVars, cmdVars, task, npc, exposed, failed>>

TakeTask ==
  /\ tasks # <<>>
  /\ ThreadGoes("idle", IF Head(tasks).kind = "start" THEN "startReader" ELSE "check")
  /\ task' = Head(tasks) /\ tasks' = Tail(tasks)
  /\ UNCHANGED <<session, pvVars, cmdVars, logVars>>

(* internalStart(), synchronized on the PV: pvReader, then pvWriter if it may   *)
(* write, each with the object that PVManager creates for it.                   *)
Opens(h) ==
  /\ field' = [field EXCEPT ![task.pv][h] = TRUE]
  /\ handle' = [handle EXCEPT ![task.pv][h] = "open"]

(* Mutant: every PV gets a writer. *)
StartBoth ==
  /\ ThreadGoes("startReader", "startWriter")
  /\ ~InAddListener(task.pv)
  /\ Opens("reader")
  /\ UNCHANGED <<session, startFlag, latched, readerVars, cmdVars, tasks, task,
                 logVars>>

StartReader ==
  /\ ThreadGoes("startReader", IF task.pv \in Writable THEN "startWriter" ELSE "countDown")
  /\ ~InAddListener(task.pv)
  /\ Opens("reader")
  /\ UNCHANGED <<session, startFlag, latched, readerVars, cmdVars, tasks, task,
                 logVars>>

StartWriter ==
  /\ ThreadGoes("startWriter", "countDown")
  /\ Opens("writer")
  /\ UNCHANGED <<session, startFlag, latched, readerVars, cmdVars, tasks, task,
                 logVars>>

(* Mutant: the latch is not counted down. *)
CountNothing ==
  /\ ThreadGoes("countDown", "idle") /\ task' = NoPV
  /\ UNCHANGED <<session, pvVars, cmdVars, tasks, logVars>>

CountDown ==
  /\ ThreadGoes("countDown", "idle") /\ task' = NoPV
  /\ latched' = latched \cup {task.pv}
  /\ UNCHANGED <<session, startFlag, field, handle, readerVars, cmdVars, tasks,
                 logVars>>

(* The listeners of a task: the snapshot of CopyOnWriteArrayList, or the one.   *)
Audience == IF task.listener = All THEN 1..Len(told[task.pv]) ELSE {task.listener}

Tell(what) ==
  told' = [told EXCEPT ![task.pv] = [l \in 1..Len(@) |-> IF l \in Audience THEN what ELSE @[l]]]

(* connectionChanged() and valueChanged() of the listeners: isConnected(),      *)
(* getValue() test pvReader, writePermissionChanged() tests pvWriter in          *)
(* isWriteAllowed().  A listener calls send() even if the PV is no longer there. *)
ListenerChecks ==
  LET p == task.pv
      h == HandleOf(task.kind)
  IN  /\ ThreadGoes("check", IF field[p][h] THEN "use" ELSE "send")
      /\ connected' = IF task.kind = "event" THEN [connected EXCEPT ![p] = ~@] ELSE connected
      /\ IF h = "reader" /\ ~field[p][h] THEN Tell("down") ELSE UNCHANGED told
      /\ UNCHANGED <<session, fieldVars, paused, cmdVars, tasks, task, logVars>>

ListenerFindsNull ==
  /\ ThreadGoes("use", "idle") /\ task' = NoPV
  /\ ~field[task.pv][HandleOf(task.kind)]
  /\ failed' = failed \cup {task.pv}
  /\ UNCHANGED <<session, pvVars, cmdVars, tasks, events, exposed>>

ListenerUses ==
  /\ ThreadGoes("use", "send")
  /\ field[task.pv][HandleOf(task.kind)]
  /\ IF task.kind = "permission" THEN UNCHANGED told
                                  ELSE Tell(IF connected[task.pv] THEN "up" ELSE "down")
  /\ UNCHANGED <<session, fieldVars, connected, paused, cmdVars, tasks, task, logVars>>

(* send() may have to wait for the session's monitor (initWorkingThread). *)
ListenerSends ==
  /\ monitor = "free"
  /\ ThreadGoes("send", "idle") /\ task' = NoPV
  /\ UNCHANGED <<session, pvVars, cmdVars, tasks, logVars>>

NotificationThread ==
  \/ TakeTask \/ StartReader \/ StartWriter \/ CountDown
  \/ ListenerChecks \/ ListenerFindsNull \/ ListenerUses \/ ListenerSends

-----------------------------------------------------------------------------
ContainerThread ==
  \/ GetPV \/ AddPV \/ AddListener \/ AddListenerGoesOn \/ Start \/ StartReturns
  \/ UsePV \/ RemovePV \/ EndRemovePV

Next ==
  \/ \E op \in Op, i \in Ids : Begin(op, i)
  \/ ContainerThread \/ StartTimesOut
  \/ Close \/ EndClose \/ Stop
  \/ \E p \in PVs : Event("event", p) \/ (p \in Writable /\ Event("permission", p))
  \/ NotificationThread

Spec == Init /\ [][Next]_vars

(* The threads run.  Nobody has to send a command, close the session or change  *)
(* a PV, and no start() has to time out.                                        *)
FairSpec ==
  /\ Spec
  /\ WF_vars(ContainerThread) /\ WF_vars(NotificationThread)
  /\ WF_vars(Stop) /\ WF_vars(EndClose)

-----------------------------------------------------------------------------
(* Properties.                                                                *)

(* No thread is about to do anything with p that it has already begun. *)
Quiet(p) ==
  /\ monitor = "free" /\ cmd.pv # p
  /\ npc # "idle" => task.pv # p
  /\ \A i \in 1..Len(tasks) : tasks[i].pv # p

Leaked(p) ==
  Quiet(p) /\ p \notin Range(pvMap) /\ \E h \in Handles : handle[p][h] = "open"

(* When everything is done, a PV that is no longer in the map of the session    *)
(* has nothing open in the control system: ClosePV and close() release what     *)
(* start() acquired, in whatever order the two threads run - except for a PV    *)
(* whose creation met the close() of the session, or whose start() timed out.   *)
Released == \A p \in created \ exposed : ~Leaked(p)

(* A PV that the client has created and not closed is running: the reader that  *)
(* its field refers to is open, so that events reach the client.                *)
MappedIsRunning ==
  isOpen => \A p \in Range(pvMap) \ {NoPV} :
    Quiet(p) /\ p \notin exposed => field[p]["reader"] /\ handle[p]["reader"] = "open"

(* "allows later added listener also get connectionChanged": when everything is *)
(* done, what each listener last sent of the connection is what it is, whenever *)
(* it was added, unless the PV was paused then.                                 *)
ListenersLearn ==
  \A p \in created :
    Quiet(p) /\ field[p]["reader"] /\ handle[p]["reader"] = "open" =>
      \A l \in 1..Len(told[p]) : told[p][l] = "paused" \/ (told[p][l] = "up" <=> connected[p])

(* A method finds null in a field that it has just found not to be null only    *)
(* for a PV that the session gives up: the client's commands for the PVs that    *)
(* it keeps, and their events, never fail, whatever other PVs are closed.        *)
FailsOnlyWhenGivenUp ==
  isOpen => \A p \in failed : \A i \in Ids :
    pvMap[i] = p => cmd.op = "close" /\ cpc = "removing" /\ cmd.id = i

(* A command of the client ends: start(), which waits for the notification      *)
(* thread, and the monitors of the session and of the PV, do not lock it up.    *)
CommandsEnd == (cpc # "idle") ~> (cpc = "idle")

(* close() comes to its end, and its session leaves the registry.               *)
CloseEnds == ~isOpen ~> ~registered /\ monitor = "free"

=============================================================================
