----------------------------- MODULE MCArchive -----------------------------
(***************************************************************************)
(* FacebookImport.tla on two uploads of one small archive, and Archive.tla and  *)
(* ArchiveText.tla, each on an instance of its own: the scene is an import, what the   *)
(* parser makes of an archive as it grows, or of a text.                        *)
(***************************************************************************)
EXTENDS MCFacebookImport

CONSTANTS Uri, Text, Blank, Time, MaxWork, MaxUploads, Point, MaxText

ASSUME DatesAreNumbers == Time \subseteq Nat

VARIABLES scene, entries, albums, rows, met, outgrown, work, uploads, meant, raw, body

archiveVars == <<entries, albums, rows, met, outgrown, work, uploads>>
textVars == <<meant, raw, body>>

Parsing == INSTANCE Archive WITH posts <- entries
Mending == INSTANCE ArchiveText

ASSUME PointsAreCharacters == MaxText \in Nat /\ \A c \in Point : c \in Nat /\ Mending!Scalar(c)

Scenes ==
  /\ Init /\ Parsing!Init /\ Mending!Init
  /\ scene \in {"import", "archive", "text"}
  /\ scene # "text" => meant = <<>>

Steps ==
  \/ scene = "import" /\ Next /\ UNCHANGED <<scene, archiveVars, textVars>>
  \/ scene = "archive" /\ Parsing!Next /\ UNCHANGED <<scene, vars, textVars>>
  \/ scene = "text" /\ Mending!Next /\ UNCHANGED <<scene, vars, archiveVars>>

ArchiveSpec == Scenes /\ [][Steps]_<<scene, vars, archiveVars, textVars>>

ArchiveKept == Parsing!ArchiveKept
TextRestored == Mending!TextRestored

Symmetric == Jobs \cup Permutations(Uri)
=============================================================================
