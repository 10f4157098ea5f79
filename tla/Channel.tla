------------------------------- MODULE Channel -------------------------------
(***************************************************************************)
(* What the outgoing path of a session promises its senders: messages are  *)
(* delivered in the order they were accepted, each once, none skipped while *)
(* the channel is open.  Once it is broken (session closed, socket gone, or *)
(* the sending loop dead) pending messages may be lost, but what is still   *)
(* delivered comes from the front of what is left.                          *)
(***************************************************************************)
EXTENDS Naturals, Sequences

CONSTANT Message

VARIABLES
  open,      \* FALSE once messages may be lost
  accepted,  \* history of the messages taken
  pending,   \* accepted, neither delivered nor lost
  wire       \* history of the messages delivered

vars == <<open, accepted, pending, wire>>

Init == open = TRUE /\ accepted = <<>> /\ pending = <<>> /\ wire = <<>>

Accept(m) ==
  /\ accepted' = Append(accepted, m)
  /\ pending' = Append(pending, m)
  /\ UNCHANGED <<open, wire>>

Deliver ==
  /\ pending # <<>>
  /\ wire' = Append(wire, Head(pending))
  /\ pending' = Tail(pending)
  /\ UNCHANGED <<open, accepted>>

(* Break the channel, or lose messages of a broken one, from either end. *)
Break ==
  /\ open' = FALSE
  /\ \E i, j \in 0..Len(pending) : pending' = SubSeq(pending, i + 1, j)
  /\ UNCHANGED <<accepted, wire>>

Next == (\E m \in Message : Accept(m)) \/ Deliver \/ Break

Spec == Init /\ [][Next]_vars

(* An open channel has skipped and reordered nothing. *)
InOrder == open => accepted = wire \o pending

=============================================================================
