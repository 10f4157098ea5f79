---------------------------- MODULE MCSendQueue ----------------------------
(***************************************************************************)
(* Constants for model checking SendQueue.  Sizes are scaled down: a       *)
(* message weighs 1 or 2, the byte limit is 2 or 3 and a deque of 2 stands *)
(* for 10240, so that a few messages reach every limit.                    *)
(***************************************************************************)
EXTENDS SendQueue

CONSTANTS container, notifier  \* the thread of the WebSocket container, the PV thread

OneSize  == (notifier :> 1)
SameSize == (container :> 1 @@ notifier :> 1)

(* Threads of equal message size are interchangeable; the loops always are. *)
CONSTANTS w1, w2
Symmetry == Permutations({container, notifier}) \cup Permutations({w1, w2})

=============================================================================
