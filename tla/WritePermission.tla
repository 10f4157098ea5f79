--------------------------- MODULE WritePermission ---------------------------
(***************************************************************************)
(* What a client is told about its right to write PVs, while its user logs   *)
(* in and out (ClientSession.login, logout, hasPermission), the PVs gain and *)
(* lose their write connection, and the session is closed.                   *)
(*                                                                         *)
(* The container thread runs login() and logout(), which set the flag of     *)
(* each PV in turn without the monitor of the session; the notification      *)
(* thread tells of write connections; a third thread runs close().           *)
(* writePermissionChanged() computes what it tells and then sends it: on     *)
(* either thread these are two steps, and so the older may be sent last.     *)
(***************************************************************************)
EXTENDS Naturals, FiniteSets

CONSTANTS
  PVs,         \* PVs that are neither read only nor formulas
  NoPV,        \* no PV
  MaxLogins,   \* bound: logins tried
  MaxCommands, \* bound: commands
  MaxEvents    \* bound: changes of write connections

ASSUME NoPVAssumption == NoPV \notin PVs
ASSUME BoundsAssumption == MaxLogins \in Nat /\ MaxCommands \in Nat /\ MaxEvents \in Nat

Nobody == 0  \* userSecurityContext is null
Logins == 1..MaxLogins

VARIABLES
  closing,   \* close(): "no", "maps", "user", "forget", "done"
  context,   \* userSecurityContext: the login it is of
  logins,    \* number of logins tried
  writers,   \* the logins whose user may write PVs
  held,      \* the logins whose LoginContext has not been logged out
  pvMap,     \* ClientSession.pvMap
  flag,      \* PVManagerPV.writePermission
  writable,  \* pvWriter is not null and isWriteConnected()
  command,   \* of the container thread: "login", "logout", "create"
  pc,        \* where it stands
  loop, pv,  \* the PVs that its loop has still before it; the one it is at
  was,       \* oldPermission in setWritePermission()
  computed,  \* what the container, the notification thread is about to send
  npv,       \* the PV that the notification thread tells about
  changed,   \* PVs with a write connection event that waits for that thread
  told,      \* the last permission sent to the client
  commands, events, \* numbers of commands and of changes
  raced,     \* history: PVs for which both threads were at work at once
  orphans,   \* history: logins without authorizations, nobody's context
  crossed    \* history: close() met a command

vars == <<closing, context, logins, writers, held, pvMap, flag, writable, command, pc, loop,
          pv, was, computed, npv, changed, told, commands, events, raced, orphans, crossed>>

userVars   == <<context, logins, writers, held, orphans>>
pvVars     == <<pvMap, flag>>
threadVars == <<command, pc, loop, pv, was>>
noteVars   == <<writable, npv, changed, events>>

Threads == {"container", "notification"}
AtPV    == {"old", "set", "check", "tell", "send"}

(* Types, and: a session that closes has no PVs any more. *)
TypeOK ==
  /\ closing \in {"no", "maps", "user", "forget", "done"}
  /\ logins \in 0..MaxLogins /\ context \in 0..logins
  /\ writers \subseteq 1..logins /\ held \subseteq 1..logins /\ orphans \subseteq 1..logins
  /\ pvMap \subseteq PVs /\ flag \in [PVs -> BOOLEAN] /\ writable \in [PVs -> BOOLEAN]
  /\ closing # "no" => pvMap = {} /\ writable = [p \in PVs |-> FALSE]
  /\ command \in {"login", "logout", "create"}
  /\ pc \in {"idle", "begin", "authenticate", "next", "leave"} \cup AtPV
  /\ loop \subseteq PVs /\ pv \in PVs \cup {NoPV} /\ (pc \in AtPV => pv # NoPV)
  /\ was \in BOOLEAN /\ computed \in [Threads -> BOOLEAN]
  /\ npv \in PVs \cup {NoPV} /\ changed \subseteq PVs
  /\ told \in [PVs -> BOOLEAN]
  /\ commands \in 0..MaxCommands /\ events \in 0..MaxEvents
  /\ raced \subseteq PVs /\ crossed \in BOOLEAN

Init ==
  /\ closing = "no" /\ context = Nobody /\ logins = 0
  /\ writers = {} /\ held = {} /\ orphans = {}
  /\ pvMap = {} /\ flag = [p \in PVs |-> FALSE] /\ writable = [p \in PVs |-> FALSE]
  /\ command = "login" /\ pc = "idle" /\ loop = {} /\ pv = NoPV /\ was = FALSE
  /\ computed = [t \in Threads |-> FALSE] /\ npv = NoPV /\ changed = {}
  /\ told = [p \in PVs |-> FALSE]
  /\ commands = 0 /\ events = 0 /\ raced = {} /\ crossed = FALSE

(* hasPermission("SetPVValue") *)
HasPermission == context \in writers

(* PVManagerPV.isWriteAllowed() *)
IsWriteAllowed(p) == writable[p] /\ flag[p]

(* writePermissionChanged(): what it tells the client. *)
Permission(p) == IsWriteAllowed(p) /\ HasPermission

Goes(from, to) == pc = from /\ pc' = to
Crosses == crossed' = (crossed \/ closing # "no")

-----------------------------------------------------------------------------
(* The container thread. WebPDAWSServer finds the session until close() has      *)
(* taken it from the registry.                                                   *)
Begin(name) ==
  /\ closing \in {"no", "maps"} /\ commands < MaxCommands
  /\ name = "login" => logins < MaxLogins
  /\ Goes("idle", "begin") /\ command' = name
  /\ commands' = commands + 1 /\ Crosses
  /\ UNCHANGED <<closing, userVars, pvVars, loop, pv, was, computed, noteVars, told, raced>>

Unchanged == UNCHANGED <<closing, computed, noteVars, told, commands, raced, crossed>>

(* Mutant: addPV() does not set the permission. *)
AddPVUnset(p) == pvMap' = pvMap \cup {p} /\ UNCHANGED flag

(* CreatePVCommand, which needs a user with that right: addPV() does nothing     *)
(* when the session is closed; the PV has no writer yet.                         *)
AddPV(p) ==
  /\ pvMap' = pvMap \cup {p}
  /\ flag' = [flag EXCEPT ![p] = HasPermission]

Create ==
  /\ command = "create" /\ Goes("begin", "idle")
  /\ \/ closing = "no" /\ context # Nobody /\ \E p \in PVs \ pvMap : AddPV(p)
     \/ UNCHANGED pvVars
  /\ UNCHANGED <<userVars, command, loop, pv, was>> /\ Unchanged

(* Mutant: the old context is forgotten as it is. *)
KeepOldLogin == UNCHANGED held

(* userSecurityContext.logout() *)
LogoutContext == held' = held \ {context}

(* login(): the user before is logged out first ... *)
Login ==
  /\ command = "login" /\ Goes("begin", "authenticate")
  /\ LogoutContext
  /\ UNCHANGED <<context, logins, writers, orphans, pvVars, command, loop, pv, was>> /\ Unchanged

(* ... SecurityManager.login() gives a new context, of a user who may write or   *)
(* not; or fails, and the context stays. When the user is known and the          *)
(* authorizations are not, nobody keeps the LoginContext.                        *)
LoginSucceeds ==
  /\ Goes("authenticate", "next")
  /\ logins' = logins + 1 /\ context' = logins' /\ held' = held \cup {logins'}
  /\ writers' \in {writers, writers \cup {logins'}}
  /\ loop' = pvMap
  /\ UNCHANGED <<orphans, pvVars, command, pv, was>> /\ Unchanged

LoginFails ==
  /\ Goes("authenticate", "idle")
  /\ logins' = logins + 1
  /\ \/ held' = held \cup {logins'} /\ orphans' = orphans \cup {logins'}
     \/ UNCHANGED <<held, orphans>>
  /\ UNCHANGED <<context, writers, pvVars, command, loop, pv, was>> /\ Unchanged

(* logout(): nothing if nobody is logged in. *)
Logout ==
  /\ command = "logout" /\ Goes("begin", IF context = Nobody THEN "idle" ELSE "next")
  /\ LogoutContext
  /\ loop' = pvMap
  /\ UNCHANGED <<context, logins, writers, orphans, pvVars, command, pv, was>> /\ Unchanged

(* The loop over pvMap.values() of both, in the order of the HashMap. *)
NextPV ==
  /\ \/ \E p \in loop : Goes("next", "old") /\ pv' = p /\ loop' = loop \ {p}
     \/ loop = {} /\ Goes("next", IF command = "logout" THEN "leave" ELSE "idle") /\ UNCHANGED <<pv, loop>>
  /\ UNCHANGED <<userVars, pvVars, command, was>> /\ Unchanged

(* While both threads are at a PV, what one computes may be out of date when     *)
(* it is sent, or decide that nothing need be sent.                              *)
Meets == raced' = IF npv = pv THEN raced \cup {pv} ELSE raced

(* setWritePermission(): oldPermission, the field, the comparison ... *)
OldPermission ==
  /\ Goes("old", "set") /\ was' = IsWriteAllowed(pv) /\ Meets
  /\ UNCHANGED <<closing, userVars, pvVars, command, loop, pv, computed, noteVars, told, commands, crossed>>

SetWritePermission ==
  /\ Goes("set", "check")
  /\ flag' = [flag EXCEPT ![pv] = command = "login" /\ HasPermission]
  /\ UNCHANGED <<userVars, pvMap, command, loop, pv, was>> /\ Unchanged

(* Mutant: only a permission that was given is told. *)
ChangedToTrue == IsWriteAllowed(pv) /\ ~was

PermissionChanged == was # IsWriteAllowed(pv)

Check ==
  /\ Goes("check", IF PermissionChanged THEN "tell" ELSE "next")
  /\ UNCHANGED <<userVars, pvVars, command, loop, pv, was>> /\ Unchanged

(* ... and writePermissionChanged() of the listener. *)
Tell ==
  /\ Goes("tell", "send")
  /\ computed' = [computed EXCEPT !["container"] = Permission(pv)]
  /\ UNCHANGED <<closing, userVars, pvVars, command, loop, pv, was, noteVars, told, commands, raced, crossed>>

Send ==
  /\ Goes("send", "next")
  /\ told' = [told EXCEPT ![pv] = computed["container"]]
  /\ UNCHANGED <<closing, userVars, pvVars, command, loop, pv, was, computed, noteVars, commands, raced, crossed>>

(* The end of logout(). *)
Leave ==
  /\ Goes("leave", "idle") /\ context' = Nobody
  /\ UNCHANGED <<logins, writers, held, orphans, pvVars, command, loop, pv, was>> /\ Unchanged

(* close() has cleared the map or forgotten the user: the iterator, or a null    *)
(* context, throws.                                                              *)
Throw ==
  /\ closing # "no" /\ pc \notin {"idle", "begin"} /\ pc' = "idle"
  /\ UNCHANGED <<userVars, pvVars, command, loop, pv, was>> /\ Unchanged

ContainerThread ==
  \/ Create \/ Login \/ LoginSucceeds \/ LoginFails \/ Logout \/ NextPV
  \/ OldPermission \/ SetWritePermission \/ Check \/ Tell \/ Send \/ Leave \/ Throw

-----------------------------------------------------------------------------
(* PVManager: the write connection of a PV of the session comes or goes. *)
WriteConnection(p) ==
  /\ p \in pvMap /\ events < MaxEvents /\ events' = events + 1
  /\ writable' = [writable EXCEPT ![p] = ~@] /\ changed' = changed \cup {p}
  /\ UNCHANGED <<closing, userVars, pvVars, threadVars, computed, npv, told, commands, raced, crossed>>

(* The notification thread: writePermissionChanged() of the listener. *)
NotifyTell(p) ==
  /\ npv = NoPV /\ npv' = p /\ p \in changed /\ changed' = changed \ {p}
  /\ computed' = [computed EXCEPT !["notification"] = Permission(p)]
  /\ raced' = IF pc \in AtPV \ {"old"} /\ pv = p THEN raced \cup {p} ELSE raced
  /\ UNCHANGED <<closing, userVars, pvVars, threadVars, writable, events, told, commands, crossed>>

NotifySend ==
  /\ npv # NoPV /\ npv' = NoPV
  /\ told' = [told EXCEPT ![npv] = computed["notification"]]
  /\ UNCHANGED <<closing, userVars, pvVars, threadVars, writable, changed, events, computed, commands,
                 raced, crossed>>

-----------------------------------------------------------------------------
Closes(from, to) ==
  /\ closing = from /\ closing' = to
  /\ crossed' = (crossed \/ pc # "idle")
  /\ UNCHANGED <<logins, writers, orphans, flag, threadVars, computed, npv, changed, events, told, commands, raced>>

(* Mutant: the map is not cleared. *)
CloseKeepsMap == Closes("no", "maps") /\ UNCHANGED <<pvMap, writable, context, held>>

(* close(): stop() of the PVs and pvMap.clear(); unRegisterSession(); and the    *)
(* user is logged out and forgotten.                                             *)
Close ==
  /\ Closes("no", "maps")
  /\ pvMap' = {} /\ writable' = [p \in PVs |-> FALSE]
  /\ UNCHANGED <<context, held>>

Unregister  == Closes("maps", "user") /\ UNCHANGED <<pvMap, writable, context, held>>
CloseLogout == Closes("user", "forget") /\ LogoutContext /\ UNCHANGED <<pvMap, writable, context>>
CloseForget == Closes("forget", "done") /\ context' = Nobody /\ UNCHANGED <<pvMap, writable, held>>

Next ==
  \/ \E name \in {"login", "logout", "create"} : Begin(name)
  \/ ContainerThread
  \/ \E p \in PVs : WriteConnection(p) \/ NotifyTell(p)
  \/ NotifySend
  \/ Close \/ Unregister \/ CloseLogout \/ CloseForget

Spec == Init /\ [][Next]_vars

-----------------------------------------------------------------------------
(* Between two commands the flag of each PV of an open session is the right of   *)
(* the user who is logged in now: the loops of login() and logout() and addPV()  *)
(* miss none, whatever failed before.                                            *)
FlagFollowsUser ==
  closing = "no" /\ pc = "idle" => \A p \in pvMap : flag[p] = HasPermission

(* When nothing is going on, the client has been told of each PV whether it may  *)
(* be written now - unless setWritePermission() and the notification thread were *)
(* at work for that PV at once.                                                  *)
PermissionTold ==
  closing = "no" /\ pc = "idle" /\ npv = NoPV =>
    \A p \in pvMap \ (raced \cup changed) : told[p] = Permission(p)

(* No login stays behind: at most the one of the user is held while the session  *)
(* is open, and none when it has been closed - but for a close() that met a      *)
(* command, and for users whose authorizations could not be read.                *)
LoginsReleased ==
  pc = "idle" /\ ~crossed =>
    /\ held \subseteq orphans \cup {context}
    /\ closing = "done" => held \subseteq orphans

=============================================================================
