----------------------------- MODULE MCWebClient -----------------------------
(* Small instances of WebClient.  A user who has logged in may do everything, one *)
(* who has not, or has logged out, nothing.                                       *)
EXTENDS WebClient

MCOneUser == {Authorizations}

(* Parameter objects are only compared. *)
Symmetry == Permutations(Params)

=============================================================================
