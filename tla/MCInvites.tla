----------------------------- MODULE MCInvites -----------------------------
(***************************************************************************)
(* Invites.tla on a small instance.  The safety run lets every kind of step  *)
(* happen; the liveness run keeps few ids, so that TLC can hold the graph.   *)
(***************************************************************************)
EXTENDS Invites, TLC

Ids == Permutations(Email) \cup Permutations(Invite) \cup Permutations(User) \cup Permutations(Request)
=============================================================================
