--------------------------- MODULE MCCredentials ---------------------------
(***************************************************************************)
(* Credentials.tla with two requests on one account.                        *)
(***************************************************************************)
EXTENDS Credentials, TLC

Ids == Permutations(Request) \cup Permutations(Token)
=============================================================================
