---------------------------- MODULE Subscriptions ----------------------------
(***************************************************************************)
(* What the JavaScript client and the server promise each other: the server *)
(* runs the PVs the client wants, once the commands on their way have been  *)
(* executed. "wanted" is the client's copy, "actual" the server's, and      *)
(* "pending" the log of commands between them. A PV can be wanted before    *)
(* the connection is open; its creation is then unsent.                     *)
(***************************************************************************)
EXTENDS Naturals, Sequences

CONSTANTS
  Ids,    \* ids of internal PVs
  Others  \* commands that do not create, close, pause or resume a PV

VARIABLES
  phase,    \* of the connection: "new", "open", "closing", "closed"
  wanted,   \* by the client
  unsent,   \* ids whose creation waits for the connection to open
  pending,  \* commands on their way
  actual,   \* on the server
  refused   \* ids the server has refused to create

vars == <<phase, wanted, unsent, pending, actual, refused>>

Status == {"none", "running", "paused"}
Names  == {"CreatePV", "ClosePV", "PausePV", "ResumePV"}
Chat   == {command \in Others : command.name \notin Names}

TypeOK ==
  /\ phase \in {"new", "open", "closing", "closed"}
  /\ wanted \in [Ids -> Status] /\ actual \in [Ids -> Status]
  /\ unsent \subseteq Ids /\ refused \subseteq Ids
  /\ pending \in Seq([name: Names, id: Ids] \cup Chat)

Init ==
  /\ phase = "new"
  /\ wanted = [i \in Ids |-> "none"] /\ actual = wanted
  /\ unsent = {} /\ pending = <<>> /\ refused = {}

Log(name, i) ==
  pending' = IF phase = "open" THEN Append(pending, [name |-> name, id |-> i]) ELSE pending

(* What a command makes of a PV. *)
Outcome(name) == CASE name = "ClosePV" -> "none" [] name = "PausePV" -> "paused" [] OTHER -> "running"

-----------------------------------------------------------------------------
(* The client: an id comes after all that has been said of it, and everything    *)
(* said of it after its creation.                                                *)
About(command, i) == command.name \in Names /\ command.id = i
Fresh(i) == wanted[i] = "none" /\ actual[i] = "none" /\ \A k \in DOMAIN pending : ~About(pending[k], i)

Want(i) ==
  /\ Fresh(i) /\ i \notin unsent \cup refused
  /\ wanted' = [wanted EXCEPT ![i] = "running"]
  /\ \/ phase # "new" /\ Log("CreatePV", i) /\ UNCHANGED unsent
     \/ phase # "open" /\ unsent' = unsent \cup {i} /\ UNCHANGED pending
  /\ UNCHANGED <<phase, actual, refused>>

Flush(i) ==
  /\ phase = "open" /\ i \in unsent /\ unsent' = unsent \ {i}
  /\ Log("CreatePV", i)
  /\ UNCHANGED <<phase, wanted, actual, refused>>

Say(i, name) ==
  /\ phase # "new" /\ wanted[i] # "none" /\ i \notin unsent /\ wanted[i] # Outcome(name)
  /\ name # "CreatePV"
  /\ wanted' = [wanted EXCEPT ![i] = Outcome(name)]
  /\ Log(name, i)
  /\ UNCHANGED <<phase, unsent, actual, refused>>

(* Commands about something else go the same way, the first of them when the     *)
(* connection opens.                                                             *)
Mention ==
  /\ phase = "open"
  /\ \E command \in Chat : pending' = Append(pending, command)
  /\ UNCHANGED <<phase, wanted, unsent, actual, refused>>

Open ==
  /\ phase = "new" /\ phase' = "open"
  /\ \E command \in Chat : pending' = Append(pending, command)
  /\ UNCHANGED <<wanted, unsent, actual, refused>>

(* The server takes the commands in order, and may refuse a creation. *)
Take ==
  /\ pending # <<>> /\ pending' = Tail(pending)
  /\ LET command == Head(pending)
         i       == command.id
     IN  \/ /\ command.name \in Names
            /\ actual' = [actual EXCEPT ![i] = IF i \in refused THEN "none" ELSE Outcome(command.name)]
            /\ UNCHANGED refused
         \/ /\ command.name = "CreatePV"
            /\ refused' = refused \cup {i} /\ UNCHANGED actual
         \/ command.name \notin Names /\ UNCHANGED <<actual, refused>>
  /\ UNCHANGED <<phase, wanted, unsent>>

Close ==
  /\ phase # "closed" /\ phase' = "closing"
  /\ UNCHANGED <<wanted, unsent, pending, actual, refused>>

(* The connection ends, and the session with it. *)
Lost ==
  /\ phase' = "closed" /\ pending' = <<>> /\ actual' = [i \in Ids |-> "none"]
  /\ UNCHANGED <<wanted, unsent, refused>>

Next ==
  \/ \E i \in Ids : Want(i) \/ Flush(i) \/ \E name \in Names : Say(i, name)
  \/ Mention \/ Open \/ Take \/ Close \/ Lost

Spec == Init /\ [][Next]_vars

-----------------------------------------------------------------------------
(* When no command is on its way and no creation unsent, the server runs what    *)
(* the client wants, except what it has refused.                                 *)
Agreed ==
  phase = "open" /\ pending = <<>> =>
    \A i \in Ids \ (unsent \cup refused) : actual[i] = wanted[i]

=============================================================================
