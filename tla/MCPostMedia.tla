---------------------------- MODULE MCPostMedia ----------------------------
(***************************************************************************)
(* PostMedia.tla with two requests on a handful of attachments.              *)
(***************************************************************************)
EXTENDS PostMedia, TLC

Ends == {0, 3}
Requests == Permutations(Request)
=============================================================================
