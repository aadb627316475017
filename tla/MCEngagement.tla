---------------------------- MODULE MCEngagement ----------------------------
(***************************************************************************)
(* Reactions.tla and Comments.tla, which share no state: the scene says which  *)
(* one a behaviour is about, and the other is at rest.                        *)
(***************************************************************************)
EXTENDS Reactions, TLC

CONSTANTS Thread, Moderators, Call, MaxComments, MaxWrites

ASSUME RoomForComments == MaxComments \in Nat \ {0}

VARIABLES scene, comments, readers, thread, calls, touched, upset, spent

commentVars == <<comments, readers, thread, calls, touched, upset, spent>>

Commenting == INSTANCE Comments

(* Reactions from before are about the item the bars come with.               *)
Scenes ==
  /\ Init /\ \A r \in reactions, b \in Bar : r[2] = bar[b].item
  /\ Commenting!Init
  /\ \/ scene = "reactions" /\ comments = <<>>
     \/ scene = "comments" /\ reactions = {} /\ \A a, b \in Bar : user[a] = user[b]

Steps ==
  \/ scene = "reactions" /\ Next /\ UNCHANGED <<scene, commentVars>>
  \/ scene = "comments" /\ Commenting!Next /\ UNCHANGED <<scene, reactionVars>>

MCSpec == Scenes /\ [][Steps]_<<scene, reactionVars, commentVars>>

OwnCommentsRight == Commenting!OwnCommentsRight

Symmetric == Permutations(Reactor) \cup Permutations(Item) \cup Permutations(React)
=============================================================================
