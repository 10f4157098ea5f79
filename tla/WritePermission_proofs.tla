------------------------ MODULE WritePermission_proofs ------------------------
(***************************************************************************)
(* Theorems about WritePermission, for any number of PVs, logins, commands  *)
(* and events.  One inductive invariant, IInv, carries all of them: the     *)
(* loops of login() and logout() divide the PVs into those they have        *)
(* visited, whose flag is the new right, and those they have not.           *)
(***************************************************************************)
EXTENDS WritePermission, TLAPS

InLoop     == pc \in {"next"} \cup AtPV
Visited(p) == p \notin loop /\ ~(p = pv /\ pc \in {"old", "set"})

(* The right that the loop gives to the PVs. *)
Right == command = "login" /\ HasPermission

(* The last permission the client has been told, or is being told. *)
Latest(p) == IF npv = p THEN computed["notification"] ELSE told[p]

Control ==
  /\ pc = "authenticate" => command = "login"
  /\ InLoop => command \in {"login", "logout"}
  /\ pc = "leave" => command = "logout"
  /\ pc \in {"begin", "authenticate"} /\ command = "login" => logins < MaxLogins
  /\ pc \in AtPV => pv \notin loop

(* Only PVs of the session are touched. *)
Members ==
  closing = "no" =>
    /\ changed \subseteq pvMap /\ npv \in pvMap \cup {NoPV}
    /\ InLoop => loop \subseteq pvMap
    /\ pc \in AtPV => pv \in pvMap
    /\ \A p \in PVs \ pvMap : ~writable[p] /\ ~told[p]

Flags ==
  closing = "no" =>
    /\ pc \in {"idle", "begin", "authenticate"} => \A p \in pvMap : flag[p] = HasPermission
    /\ InLoop => \A p \in pvMap : Visited(p) => flag[p] = Right
    /\ pc = "leave" => \A p \in pvMap : ~flag[p]

(* What the client knows of a PV that is not at the hand of the loop, ... *)
KnownOf(p) ==
  IF pc \in {"idle", "begin", "authenticate"} THEN Latest(p) = Permission(p)
  ELSE IF InLoop /\ ~Visited(p) THEN Latest(p) = IsWriteAllowed(p) \/ (~Latest(p) /\ ~Right)
  ELSE Latest(p) = IsWriteAllowed(p)

(* ... and of the one that is. *)
AtHand(p) ==
  /\ pc \in AtPV \ {"old"} => npv # p
  /\ pc = "old" => KnownOf(p)
  /\ pc = "set" => KnownOf(p) /\ was = IsWriteAllowed(p)
  /\ pc = "check" => was # IsWriteAllowed(p) \/ Latest(p) = IsWriteAllowed(p)
  /\ pc = "send" => computed["container"] = IsWriteAllowed(p)

ToldInv ==
  closing = "no" =>
    \A p \in pvMap \ (raced \cup changed) :
      IF pc \in AtPV /\ p = pv THEN AtHand(p) ELSE KnownOf(p)

HeldInv ==
  ~crossed =>
    /\ closing # "no" => pc = "idle"
    /\ held \subseteq orphans \cup {context}
    /\ pc \in {"authenticate", "leave"} \/ (InLoop /\ command = "logout") \/ closing \in {"forget", "done"}
         => held \subseteq orphans

IInv == TypeOK /\ Control /\ Members /\ Flags /\ ToldInv /\ HeldInv

-----------------------------------------------------------------------------
(* A step keeps the types. A login that has been tried is within the bound,   *)
(* which Control knows.                                                        *)
LEMMA TypingStep ==
  ASSUME TypeOK, Control, [Next]_vars
  PROVE  TypeOK'
<1> USE NoPVAssumption, BoundsAssumption DEF TypeOK, Threads, AtPV, Control,
        HasPermission, IsWriteAllowed, Permission, Nobody, userVars, pvVars,
        threadVars, noteVars, Unchanged, Goes
<1>1. ASSUME NEW name \in {"login", "logout", "create"}, Begin(name) PROVE TypeOK'
  BY <1>1 DEF Begin, Crosses
<1>2. CASE Create
  <2>1. HasPermission \in BOOLEAN
    BY DEF HasPermission
  <2>2. pvMap' \subseteq PVs /\ flag' \in [PVs -> BOOLEAN]
    BY <1>2, <2>1 DEF TypeOK, Create, AddPV, pvVars
  <2>3. closing' # "no" => pvMap' = {} /\ writable' = [p \in PVs |-> FALSE]
    BY <1>2 DEF TypeOK, Create, pvVars, Unchanged, noteVars
  <2> QED
    BY <1>2, <2>2, <2>3 DEF TypeOK, AtPV, Create, Goes, userVars, noteVars, Unchanged
<1>3. CASE Login
  BY <1>3 DEF Login, LogoutContext
<1>4. CASE LoginSucceeds
  BY <1>4 DEF LoginSucceeds
<1>5. CASE LoginFails
  <2>1. logins' \in 1..MaxLogins /\ logins' = logins + 1 /\ context' \in 0..logins'
    BY <1>5, BoundsAssumption DEF TypeOK, Control, LoginFails, Goes
  <2>2. 1..logins \subseteq 1..logins' /\ logins' \in 1..logins'
    BY <2>1 DEF TypeOK
  <2>3. writers' \subseteq 1..logins' /\ held' \subseteq 1..logins' /\ orphans' \subseteq 1..logins'
    BY <1>5, <2>2 DEF TypeOK, LoginFails
  <2> QED
    BY <1>5, <2>1, <2>3 DEF TypeOK, AtPV, LoginFails, Goes, pvVars, noteVars, Unchanged
<1>6. CASE Logout
  BY <1>6 DEF Logout, LogoutContext
<1>7. CASE NextPV
  BY <1>7 DEF NextPV
<1>8. CASE OldPermission
  BY <1>8 DEF OldPermission, Meets
<1>9. CASE SetWritePermission
  BY <1>9 DEF SetWritePermission
<1>10. CASE Check
  BY <1>10 DEF Check, PermissionChanged
<1>11. CASE Tell
  BY <1>11 DEF Tell
<1>12. CASE Send
  BY <1>12 DEF Send
<1>13. CASE Leave
  BY <1>13 DEF Leave
<1>14. CASE Throw
  BY <1>14 DEF Throw
<1>15. ASSUME NEW p \in PVs, WriteConnection(p) PROVE TypeOK'
  BY <1>15 DEF WriteConnection
<1>16. ASSUME NEW p \in PVs, NotifyTell(p) PROVE TypeOK'
  BY <1>16 DEF NotifyTell
<1>17. CASE NotifySend
  BY <1>17 DEF NotifySend
<1>18. CASE Close
  BY <1>18 DEF Close, Closes
<1>19. CASE Unregister
  BY <1>19 DEF Unregister, Closes
<1>20. CASE CloseLogout
  BY <1>20 DEF CloseLogout, Closes, LogoutContext
<1>21. CASE CloseForget
  BY <1>21 DEF CloseForget, Closes
<1>22. CASE UNCHANGED vars
  BY <1>22 DEF vars
<1> QED
  BY <1>1, <1>2, <1>3, <1>4, <1>5, <1>6, <1>7, <1>8, <1>9, <1>10, <1>11, <1>12,
     <1>13, <1>14, <1>15, <1>16, <1>17, <1>18, <1>19, <1>20, <1>21,
     <1>22 DEF Next, ContainerThread

(* A step keeps Control. *)
LEMMA ControlStep ==
  ASSUME TypeOK, Control, [Next]_vars
  PROVE  Control'
<1> USE NoPVAssumption, BoundsAssumption DEF TypeOK, Threads, AtPV, Control, InLoop,
        userVars, pvVars, threadVars, noteVars, Unchanged, Goes
<1>1. ASSUME NEW name \in {"login", "logout", "create"}, Begin(name) PROVE Control'
  BY <1>1 DEF Begin, Crosses
<1>2. CASE Create
  BY <1>2 DEF Create, AddPV
<1>3. CASE Login
  BY <1>3 DEF Login, LogoutContext
<1>4. CASE LoginSucceeds
  BY <1>4 DEF LoginSucceeds
<1>5. CASE LoginFails
  BY <1>5 DEF LoginFails
<1>6. CASE Logout
  BY <1>6 DEF Logout, LogoutContext
<1>7. CASE NextPV
  BY <1>7 DEF NextPV
<1>8. CASE OldPermission
  BY <1>8 DEF OldPermission, Meets
<1>9. CASE SetWritePermission
  BY <1>9 DEF SetWritePermission
<1>10. CASE Check
  BY <1>10 DEF Check, PermissionChanged
<1>11. CASE Tell
  BY <1>11 DEF Tell
<1>12. CASE Send
  BY <1>12 DEF Send
<1>13. CASE Leave
  BY <1>13 DEF Leave
<1>14. CASE Throw
  BY <1>14 DEF Throw
<1>15. ASSUME NEW p \in PVs, WriteConnection(p) PROVE Control'
  BY <1>15 DEF WriteConnection
<1>16. ASSUME NEW p \in PVs, NotifyTell(p) PROVE Control'
  BY <1>16 DEF NotifyTell
<1>17. CASE NotifySend
  BY <1>17 DEF NotifySend
<1>18. CASE Close
  BY <1>18 DEF Close, Closes
<1>19. CASE Unregister
  BY <1>19 DEF Unregister, Closes
<1>20. CASE CloseLogout
  BY <1>20 DEF CloseLogout, Closes, LogoutContext
<1>21. CASE CloseForget
  BY <1>21 DEF CloseForget, Closes
<1>22. CASE UNCHANGED vars
  BY <1>22 DEF vars
<1> QED
  BY <1>1, <1>2, <1>3, <1>4, <1>5, <1>6, <1>7, <1>8, <1>9, <1>10, <1>11, <1>12,
     <1>13, <1>14, <1>15, <1>16, <1>17, <1>18, <1>19, <1>20, <1>21,
     <1>22 DEF Next, ContainerThread

(* A step keeps Members: Close empties the map, and nothing holds after it. *)
LEMMA MembersStep ==
  ASSUME TypeOK, Control, Members, [Next]_vars
  PROVE  Members'
<1> USE NoPVAssumption, BoundsAssumption DEF TypeOK, Threads, AtPV, Control,
        Members, InLoop, userVars, pvVars, threadVars, noteVars, Unchanged, Goes
<1>1. ASSUME NEW name \in {"login", "logout", "create"}, Begin(name) PROVE Members'
  BY <1>1 DEF Begin, Crosses
<1>2. CASE Create
  BY <1>2 DEF Create, AddPV
<1>3. CASE Login
  BY <1>3 DEF Login, LogoutContext
<1>4. CASE LoginSucceeds
  BY <1>4 DEF LoginSucceeds
<1>5. CASE LoginFails
  BY <1>5 DEF LoginFails
<1>6. CASE Logout
  BY <1>6 DEF Logout, LogoutContext
<1>7. CASE NextPV
  BY <1>7 DEF NextPV
<1>8. CASE OldPermission
  BY <1>8 DEF OldPermission, Meets
<1>9. CASE SetWritePermission
  BY <1>9 DEF SetWritePermission
<1>10. CASE Check
  BY <1>10 DEF Check, PermissionChanged
<1>11. CASE Tell
  BY <1>11 DEF Tell
<1>12. CASE Send
  BY <1>12 DEF Send
<1>13. CASE Leave
  BY <1>13 DEF Leave
<1>14. CASE Throw
  BY <1>14 DEF Throw
<1>15. ASSUME NEW p \in PVs, WriteConnection(p) PROVE Members'
  BY <1>15 DEF WriteConnection
<1>16. ASSUME NEW p \in PVs, NotifyTell(p) PROVE Members'
  BY <1>16 DEF NotifyTell
<1>17. CASE NotifySend
  BY <1>17 DEF NotifySend
<1>18. CASE Close
  BY <1>18 DEF Close, Closes
<1>19. CASE Unregister
  BY <1>19 DEF Unregister, Closes
<1>20. CASE CloseLogout
  BY <1>20 DEF CloseLogout, Closes, LogoutContext
<1>21. CASE CloseForget
  BY <1>21 DEF CloseForget, Closes
<1>22. CASE UNCHANGED vars
  BY <1>22 DEF vars
<1> QED
  BY <1>1, <1>2, <1>3, <1>4, <1>5, <1>6, <1>7, <1>8, <1>9, <1>10, <1>11, <1>12,
     <1>13, <1>14, <1>15, <1>16, <1>17, <1>18, <1>19, <1>20, <1>21,
     <1>22 DEF Next, ContainerThread

(* A step keeps Flags: a new user, or none, begins a loop that has visited       *)
(* nobody, and the loop gives each PV it leaves behind the new right.            *)
LEMMA FlagsStep ==
  ASSUME TypeOK, Control, Flags, [Next]_vars
  PROVE  Flags'
<1> USE NoPVAssumption, BoundsAssumption DEF TypeOK, Threads, AtPV, Control, Flags,
        InLoop, Visited, Right, HasPermission, Nobody, userVars, pvVars, threadVars,
        noteVars, Unchanged, Goes
<1>1. ASSUME NEW name \in {"login", "logout", "create"}, Begin(name) PROVE Flags'
  BY <1>1 DEF Begin, Crosses
<1>2. CASE Create
  BY <1>2 DEF Create, AddPV
<1>3. CASE Login
  BY <1>3 DEF Login, LogoutContext
<1>4. CASE LoginSucceeds
  BY <1>4 DEF LoginSucceeds
<1>5. CASE LoginFails
  BY <1>5 DEF LoginFails
<1>6. CASE Logout
  BY <1>6 DEF Logout, LogoutContext
<1>7. CASE NextPV
  BY <1>7 DEF NextPV
<1>8. CASE OldPermission
  BY <1>8 DEF OldPermission, Meets
<1>9. CASE SetWritePermission
  BY <1>9 DEF SetWritePermission
<1>10. CASE Check
  BY <1>10 DEF Check, PermissionChanged
<1>11. CASE Tell
  BY <1>11 DEF Tell
<1>12. CASE Send
  BY <1>12 DEF Send
<1>13. CASE Leave
  BY <1>13 DEF Leave
<1>14. CASE Throw
  BY <1>14 DEF Throw
<1>15. ASSUME NEW p \in PVs, WriteConnection(p) PROVE Flags'
  BY <1>15 DEF WriteConnection
<1>16. ASSUME NEW p \in PVs, NotifyTell(p) PROVE Flags'
  BY <1>16 DEF NotifyTell
<1>17. CASE NotifySend
  BY <1>17 DEF NotifySend
<1>18. CASE Close
  BY <1>18 DEF Close, Closes
<1>19. CASE Unregister
  BY <1>19 DEF Unregister, Closes
<1>20. CASE CloseLogout
  BY <1>20 DEF CloseLogout, Closes, LogoutContext
<1>21. CASE CloseForget
  BY <1>21 DEF CloseForget, Closes
<1>22. CASE UNCHANGED vars
  BY <1>22 DEF vars
<1> QED
  BY <1>1, <1>2, <1>3, <1>4, <1>5, <1>6, <1>7, <1>8, <1>9, <1>10, <1>11, <1>12,
     <1>13, <1>14, <1>15, <1>16, <1>17, <1>18, <1>19, <1>20, <1>21,
     <1>22 DEF Next, ContainerThread

(* A step keeps ToldInv: the notification thread at another PV disturbs nothing,  *)
(* and at the PV at hand it makes it one of raced.                                *)
LEMMA ToldStep ==
  ASSUME TypeOK, Control, Members, Flags, ToldInv, [Next]_vars
  PROVE  ToldInv'
<1> USE NoPVAssumption, BoundsAssumption DEF TypeOK, Threads, AtPV, Control,
        Members, Flags, ToldInv, KnownOf, AtHand, Latest, InLoop, Visited, Right,
        Permission, IsWriteAllowed, HasPermission, Nobody, userVars, pvVars,
        threadVars, noteVars, Unchanged, Goes
<1>1. ASSUME NEW name \in {"login", "logout", "create"}, Begin(name) PROVE ToldInv'
  BY <1>1 DEF Begin, Crosses
<1>2. CASE Create
  BY <1>2 DEF Create, AddPV
<1>3. CASE Login
  BY <1>3 DEF Login, LogoutContext
<1>4. CASE LoginSucceeds
  BY <1>4 DEF LoginSucceeds
<1>5. CASE LoginFails
  BY <1>5 DEF LoginFails
<1>6. CASE Logout
  BY <1>6 DEF Logout, LogoutContext
<1>7. CASE NextPV
  BY <1>7 DEF NextPV
<1>8. CASE OldPermission
  BY <1>8 DEF OldPermission, Meets
<1>9. CASE SetWritePermission
  BY <1>9 DEF SetWritePermission
<1>10. CASE Check
  BY <1>10 DEF Check, PermissionChanged
<1>11. CASE Tell
  BY <1>11 DEF Tell
<1>12. CASE Send
  BY <1>12 DEF Send
<1>13. CASE Leave
  BY <1>13 DEF Leave
<1>14. CASE Throw
  BY <1>14 DEF Throw
<1>15. ASSUME NEW p \in PVs, WriteConnection(p) PROVE ToldInv'
  BY <1>15 DEF WriteConnection
<1>16. ASSUME NEW p \in PVs, NotifyTell(p) PROVE ToldInv'
  <2> SUFFICES ASSUME closing' = "no", NEW q \in pvMap' \ (raced' \cup changed')
               PROVE  (IF pc \in AtPV /\ q = pv THEN AtHand(q) ELSE KnownOf(q))'
    BY DEF ToldInv
  <2> USE DEF TypeOK, Threads, AtPV, NotifyTell, userVars, pvVars, threadVars, KnownOf, AtHand, Latest,
              InLoop, Visited, Right, Permission, IsWriteAllowed, HasPermission
  <2>1. CASE q # p
    <3>1. q \in pvMap \ (raced \cup changed) /\ closing = "no"
      BY <1>16, <2>1
    <3>2. Latest(q)' = Latest(q) /\ npv' # q /\ computed'["container"] = computed["container"]
      BY <1>16, <2>1, <3>1, NoPVAssumption
    <3>3. IF pc \in AtPV /\ q = pv THEN AtHand(q) ELSE KnownOf(q)
      BY <3>1 DEF ToldInv
    <3> HIDE DEF Latest
    <3> QED
      BY <1>16, <3>2, <3>3
  <2>2. CASE q = p
    <3>1. q \in pvMap /\ q \in PVs /\ npv' = q /\ Latest(q)' = Permission(q)
      BY <1>16, <2>2, NoPVAssumption
    <3>2. CASE pc \in {"idle", "begin", "authenticate"}
      BY <1>16, <2>2, <3>1, <3>2
    <3>3. CASE InLoop
      <4>1. Permission(q) = (IsWriteAllowed(q) /\ HasPermission)
        OBVIOUS
      <4>2. CASE Visited(q)
        BY <1>16, <2>2, <3>1, <3>3, <4>2 DEF Flags, Control
      <4>3. CASE ~Visited(q)
        BY <1>16, <2>2, <3>1, <3>3, <4>3 DEF Flags, Control
      <4> QED
        BY <4>2, <4>3
    <3>4. CASE pc = "leave"
      BY <1>16, <2>2, <3>1, <3>4 DEF Flags
    <3> QED
      BY <3>2, <3>3, <3>4
  <2> QED
    BY <2>1, <2>2
<1>17. CASE NotifySend
  BY <1>17 DEF NotifySend
<1>18. CASE Close
  BY <1>18 DEF Close, Closes
<1>19. CASE Unregister
  BY <1>19 DEF Unregister, Closes
<1>20. CASE CloseLogout
  BY <1>20 DEF CloseLogout, Closes, LogoutContext
<1>21. CASE CloseForget
  BY <1>21 DEF CloseForget, Closes
<1>22. CASE UNCHANGED vars
  BY <1>22 DEF vars
<1> QED
  BY <1>1, <1>2, <1>3, <1>4, <1>5, <1>6, <1>7, <1>8, <1>9, <1>10, <1>11, <1>12,
     <1>13, <1>14, <1>15, <1>16, <1>17, <1>18, <1>19, <1>20, <1>21,
     <1>22 DEF Next, ContainerThread

(* A step keeps HeldInv: the context that is replaced or forgotten has been       *)
(* logged out before.                                                             *)
LEMMA HeldStep ==
  ASSUME TypeOK, Control, HeldInv, [Next]_vars
  PROVE  HeldInv'
<1> USE NoPVAssumption, BoundsAssumption DEF TypeOK, Threads, AtPV, Control,
        HeldInv, InLoop, Nobody, userVars, pvVars, threadVars, noteVars, Unchanged,
        Goes
<1>1. ASSUME NEW name \in {"login", "logout", "create"}, Begin(name) PROVE HeldInv'
  BY <1>1 DEF Begin, Crosses
<1>2. CASE Create
  BY <1>2 DEF Create, AddPV
<1>3. CASE Login
  BY <1>3 DEF Login, LogoutContext
<1>4. CASE LoginSucceeds
  BY <1>4 DEF LoginSucceeds
<1>5. CASE LoginFails
  BY <1>5 DEF LoginFails
<1>6. CASE Logout
  BY <1>6 DEF Logout, LogoutContext
<1>7. CASE NextPV
  BY <1>7 DEF NextPV
<1>8. CASE OldPermission
  BY <1>8 DEF OldPermission, Meets
<1>9. CASE SetWritePermission
  BY <1>9 DEF SetWritePermission
<1>10. CASE Check
  BY <1>10 DEF Check, PermissionChanged
<1>11. CASE Tell
  BY <1>11 DEF Tell
<1>12. CASE Send
  BY <1>12 DEF Send
<1>13. CASE Leave
  BY <1>13 DEF Leave
<1>14. CASE Throw
  BY <1>14 DEF Throw
<1>15. ASSUME NEW p \in PVs, WriteConnection(p) PROVE HeldInv'
  BY <1>15 DEF WriteConnection
<1>16. ASSUME NEW p \in PVs, NotifyTell(p) PROVE HeldInv'
  BY <1>16 DEF NotifyTell
<1>17. CASE NotifySend
  BY <1>17 DEF NotifySend
<1>18. CASE Close
  BY <1>18 DEF Close, Closes
<1>19. CASE Unregister
  BY <1>19 DEF Unregister, Closes
<1>20. CASE CloseLogout
  BY <1>20 DEF CloseLogout, Closes, LogoutContext
<1>21. CASE CloseForget
  BY <1>21 DEF CloseForget, Closes
<1>22. CASE UNCHANGED vars
  BY <1>22 DEF vars
<1> QED
  BY <1>1, <1>2, <1>3, <1>4, <1>5, <1>6, <1>7, <1>8, <1>9, <1>10, <1>11, <1>12,
     <1>13, <1>14, <1>15, <1>16, <1>17, <1>18, <1>19, <1>20, <1>21,
     <1>22 DEF Next, ContainerThread

-----------------------------------------------------------------------------
(* The invariant holds at the beginning ... *)
LEMMA InitEstablishes == Init => IInv
<1> SUFFICES ASSUME Init PROVE IInv
  OBVIOUS
<1> USE NoPVAssumption, BoundsAssumption DEF Init
<1>1. TypeOK
  <2>1. logins \in 0..MaxLogins /\ context \in 0..logins /\ commands \in 0..MaxCommands
        /\ events \in 0..MaxEvents
    BY DEF Nobody
  <2>2. /\ flag \in [PVs -> BOOLEAN] /\ writable \in [PVs -> BOOLEAN]
        /\ told \in [PVs -> BOOLEAN] /\ computed \in [Threads -> BOOLEAN]
    OBVIOUS
  <2> QED
    BY <2>1, <2>2 DEF TypeOK, AtPV
<1>2. Control /\ Members
  BY DEF Control, Members, InLoop, AtPV
<1>3. Flags /\ ToldInv
  BY DEF Flags, ToldInv, AtPV, InLoop
<1>4. HeldInv
  BY DEF HeldInv, AtPV, InLoop
<1> QED
  BY <1>1, <1>2, <1>3, <1>4 DEF IInv

(* ... and always. *)
THEOREM Invariance == Spec => []IInv
<1>1. Init => IInv
  BY InitEstablishes
<1>2. IInv /\ [Next]_vars => IInv'
  BY TypingStep, ControlStep, MembersStep, FlagsStep, ToldStep, HeldStep DEF IInv
<1> QED
  BY <1>1, <1>2, PTL DEF Spec

(* Type correctness of ClientSession and PVManagerPV as modelled: and a session   *)
(* that closes has no PVs any more.                                               *)
THEOREM Typing == Spec => []TypeOK
<1>1. IInv => TypeOK
  BY DEF IInv
<1> QED
  BY <1>1, Invariance, PTL

(* Between two commands the flag of each PV of an open session is the right of    *)
(* the user who is logged in (ClientSession.login, logout, addPV).                *)
THEOREM FlagFollowsUserHolds == Spec => []FlagFollowsUser
<1>1. IInv => FlagFollowsUser
  BY DEF IInv, Flags, FlagFollowsUser
<1> QED
  BY <1>1, Invariance, PTL

(* With nothing going on, the client has been told of each PV whether it may be   *)
(* written, unless both threads were at work for it at once (setWritePermission). *)
THEOREM PermissionToldHolds == Spec => []PermissionTold
<1>1. ASSUME IInv PROVE PermissionTold
  BY <1>1, NoPVAssumption DEF IInv, TypeOK, ToldInv, KnownOf, Latest, AtPV, PermissionTold
<1> QED
  BY <1>1, Invariance, PTL

(* No login stays behind (ClientSession.login, logout, close), but for a close()  *)
(* that met a command and for users whose authorizations could not be read.       *)
THEOREM LoginsReleasedHolds == Spec => []LoginsReleased
<1>1. ASSUME IInv PROVE LoginsReleased
  BY <1>1 DEF IInv, HeldInv, LoginsReleased
<1> QED
  BY <1>1, Invariance, PTL

=============================================================================
