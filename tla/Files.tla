------------------------------- MODULE Files -------------------------------
(***************************************************************************)
(* Rows with files in S3: a user's avatar (src/src/profile/handlers.rs),      *)
(* whose object gets a key of its own with every upload, and an access code    *)
(* with its two documents (src/src/admin/access_codes.rs), whose objects are   *)
(* named after the code.  No lock or transaction spans a row and its objects.  *)
(***************************************************************************)
EXTENDS Naturals, FiniteSets

CONSTANTS Request,  \* requests under way at a time, about the one user or the one code
          MaxKeys,  \* bound on avatars uploaded
          MaxCodes, \* bound on rows of access_codes
          MaxStarts \* bound on requests

VARIABLES
  avatar,  \* users.avatar_s3_key; 0 for NULL
  objects, \* avatars in S3
  keys,    \* how many keys have been drawn
  code,    \* id of the row with the code; 0 when there is none
  codes,   \* how many such rows there have been
  docs,    \* documents in S3 under the code's name
  req,     \* the requests
  rivals,  \* history: requests on the code have overlapped, or an insert was answered with an error
  starts   \* how many requests there have been

fileVars == <<avatar, objects, keys, code, codes, docs, req, rivals, starts>>

Document == {"index.html", "Document.docx"}
Idle == [pc |-> "idle", what |-> "none", key |-> 0, prev |-> 0]

TypeOK ==
  /\ avatar \in 0 .. MaxKeys /\ objects \subseteq 0 .. MaxKeys /\ keys \in 0 .. MaxKeys
  /\ code \in 0 .. MaxCodes /\ codes \in 0 .. MaxCodes /\ docs \subseteq Document
  /\ rivals \in BOOLEAN /\ starts \in 0 .. MaxStarts
  /\ req \in [Request -> [pc : {"idle", "begun", "stored", "found", "written", "cleaning", "cleaned"},
                          what : {"none", "avatar", "no avatar", "create", "delete"},
                          key : 0 .. MaxKeys, prev : 0 .. MaxKeys + MaxCodes]]

Init ==
  /\ avatar = 0 /\ objects = {} /\ keys = 0 /\ code = 0 /\ codes = 0 /\ docs = {}
  /\ req = [r \in Request |-> Idle] /\ rivals = FALSE /\ starts = 0

At(r, what, pc) == req[r].what \in what /\ req[r].pc = pc
Goto(r, pc) == req' = [req EXCEPT ![r].pc = pc]
OfCode(what) == what \in {"create", "delete"}

Begin(r, what) ==
  /\ req[r].pc = "idle" /\ starts < MaxStarts
  /\ starts' = starts + 1
  /\ req' = [req EXCEPT ![r] = [Idle EXCEPT !.pc = "begun", !.what = what]]
  /\ rivals' = (rivals \/ (OfCode(what) /\ \E s \in Request : OfCode(req[s].what)))
  /\ UNCHANGED <<avatar, objects, keys, code, codes, docs>>

(* A refusal, a failed upload or statement, a dropped handler.                *)
Stop(r) ==
  /\ req[r].pc # "idle"
  /\ req' = [req EXCEPT ![r] = Idle]
  /\ UNCHANGED <<avatar, objects, keys, code, codes, docs, rivals, starts>>

-----------------------------------------------------------------------------
(* The avatar.                                                               *)

(* Mutant: the object is named after the user.                                *)
OwnKey == 1

(* avatars/{user}/{uuid}.webp                                                *)
NewKey == keys + 1

PutAvatar(r) ==
  /\ At(r, {"avatar"}, "begun") /\ keys < MaxKeys
  /\ keys' = keys + 1 /\ objects' = objects \cup {NewKey}
  /\ req' = [req EXCEPT ![r].pc = "stored", ![r].key = NewKey]
  /\ UNCHANGED <<avatar, code, codes, docs, rivals, starts>>

(* find_user, for the key the row has so far.  Without one there is nothing to  *)
(* delete.                                                                   *)
FindUser(r) ==
  /\ At(r, {"avatar"}, "stored") \/ (At(r, {"no avatar"}, "begun") /\ avatar # 0)
  /\ req' = [req EXCEPT ![r].pc = "found", ![r].prev = avatar]
  /\ UNCHANGED <<avatar, objects, keys, code, codes, docs, rivals, starts>>

(* update_user: the new key, or NULL.                                        *)
UpdateUser(r) ==
  /\ At(r, {"avatar", "no avatar"}, "found")
  /\ avatar' = req[r].key
  /\ Goto(r, "written")
  /\ UNCHANGED <<objects, keys, code, codes, docs, rivals, starts>>

(* The object of the key it had found.                                       *)
DeletePrevious(r) ==
  /\ At(r, {"avatar", "no avatar"}, "written")
  /\ objects' = IF req[r].prev = req[r].key THEN objects ELSE objects \ {req[r].prev}
  /\ req' = [req EXCEPT ![r] = Idle]
  /\ UNCHANGED <<avatar, keys, code, codes, docs, rivals, starts>>

-----------------------------------------------------------------------------
(* The access code.                                                          *)

(* Mutant: the code is not looked up first.                                   *)
Anyhow == TRUE

CodeIsNew == code = 0

CheckCode(r) ==
  /\ At(r, {"create"}, "begun") /\ CodeIsNew
  /\ Goto(r, "found")
  /\ UNCHANGED <<avatar, objects, keys, code, codes, docs, rivals, starts>>

(* The documents are uploaded one after the other.                            *)
PutIndex(r) ==
  /\ At(r, {"create"}, "found")
  /\ docs' = docs \cup {"index.html"} /\ Goto(r, "stored")
  /\ UNCHANGED <<avatar, objects, keys, code, codes, rivals, starts>>

PutDocument(r) ==
  /\ At(r, {"create"}, "stored")
  /\ docs' = docs \cup {"Document.docx"} /\ Goto(r, "written")
  /\ UNCHANGED <<avatar, objects, keys, code, codes, rivals, starts>>

(* The code is unique.                                                       *)
InsertCode(r) ==
  /\ At(r, {"create"}, "written") /\ code = 0 /\ codes < MaxCodes
  /\ code' = codes + 1 /\ codes' = codes + 1
  /\ req' = [req EXCEPT ![r] = Idle]
  /\ UNCHANGED <<avatar, objects, keys, docs, rivals, starts>>

(* A duplicate, or another error of the database; the row may have been inserted *)
(* all the same.                                                             *)
InsertFails(r) ==
  /\ At(r, {"create"}, "written")
  /\ \/ UNCHANGED <<code, codes, rivals>>
     \/ code = 0 /\ codes < MaxCodes /\ code' = codes + 1 /\ codes' = codes + 1 /\ rivals' = TRUE
  /\ Goto(r, "cleaning")
  /\ UNCHANGED <<avatar, objects, keys, docs, starts>>

FindCode(r) ==
  /\ At(r, {"delete"}, "begun") /\ code # 0
  /\ req' = [req EXCEPT ![r].pc = "found", ![r].prev = code]
  /\ UNCHANGED <<avatar, objects, keys, code, codes, docs, rivals, starts>>

(* By id; that the row is gone already is no error.                           *)
DeleteCode(r) ==
  /\ At(r, {"delete"}, "found")
  /\ code' = IF code = req[r].prev THEN 0 ELSE code
  /\ Goto(r, "cleaning")
  /\ UNCHANGED <<avatar, objects, keys, codes, docs, rivals, starts>>

(* One document, then the other; failures are ignored.                        *)
CleanIndex(r) ==
  /\ At(r, {"create", "delete"}, "cleaning")
  /\ docs' \in {docs, docs \ {"index.html"}} /\ Goto(r, "cleaned")
  /\ UNCHANGED <<avatar, objects, keys, code, codes, rivals, starts>>

CleanDocument(r) ==
  /\ At(r, {"create", "delete"}, "cleaned")
  /\ docs' \in {docs, docs \ {"Document.docx"}} /\ req' = [req EXCEPT ![r] = Idle]
  /\ UNCHANGED <<avatar, objects, keys, code, codes, rivals, starts>>

-----------------------------------------------------------------------------
Next ==
  \E r \in Request :
    \/ \E what \in {"avatar", "no avatar", "create", "delete"} : Begin(r, what)
    \/ Stop(r) \/ PutAvatar(r) \/ FindUser(r) \/ UpdateUser(r) \/ DeletePrevious(r)
    \/ CheckCode(r) \/ PutIndex(r) \/ PutDocument(r) \/ InsertCode(r) \/ InsertFails(r)
    \/ FindCode(r) \/ DeleteCode(r) \/ CleanIndex(r) \/ CleanDocument(r)

Spec == Init /\ [][Next]_fileVars

-----------------------------------------------------------------------------
(* "A missing row pointer would break image loads" (post_me_avatar): however     *)
(* uploads and removals overlap, the row's avatar is there.                    *)
AvatarLoads == avatar # 0 => avatar \in objects

(* A code comes with both documents, as long as no two requests have been about  *)
(* it at the same time (the one whose insert fails takes the winner's away) and  *)
(* no insert is done but answered with an error.                               *)
CodeHasDocuments == code # 0 /\ ~rivals => docs = Document

(* What a row points to is there: an avatar always, the documents of a code       *)
(* unless requests on it overlapped or an insert's answer was lost.            *)
RowsHaveFiles == AvatarLoads /\ CodeHasDocuments
=============================================================================
