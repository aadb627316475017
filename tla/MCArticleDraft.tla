--------------------------- MODULE MCArticleDraft ---------------------------
(***************************************************************************)
(* ArticleDraft.tla with two tiers and a few edits and failures.            *)
(***************************************************************************)
EXTENDS ArticleDraft
=============================================================================
