------------------------------ MODULE Archive ------------------------------
(***************************************************************************)
(* What the importer reads from an archive (src/src/imports/facebook/        *)
(* parser.rs): the entries of the manifests become posts and albums, each     *)
(* with a key made of its date, its text and its first picture, and posts that *)
(* only repeat an album's pictures are dropped.  Facebook's user goes on       *)
(* between two exports: posts are written, albums grow and are touched.        *)
(* The jobs that insert what was read are in FacebookImport.tla; here one      *)
(* upload after another is imported as a whole.                              *)
(***************************************************************************)
EXTENDS Naturals, FiniteSets, SequencesExt

CONSTANTS Uri,       \* pictures
          Text,      \* bodies, names and descriptions; those in Blank are white space
          Blank,
          Time,      \* numbers; 0 is a date that is missing
          MaxWork,   \* bound on what the user of Facebook does
          MaxUploads \* bound on uploads

VARIABLES
  posts,   \* the user's entries, as they are exported: [at, body, uris]
  albums,  \* and albums, one manifest each: [name, photos, touched], photos of [uri, at]
  rows,    \* what has been imported: [kind, id, uris, of], of being the album's number
  met,     \* history: pictures some upload has met in an entry that can be imported
  outgrown, \* history: those met under a key that was there already, without them
  work, uploads

vars == <<posts, albums, rows, met, outgrown, work, uploads>>

Nothing == <<>>

Init ==
  /\ posts = {} /\ albums = <<>> /\ rows = {} /\ met = {} /\ outgrown = {}
  /\ work = 0 /\ uploads = 0

-----------------------------------------------------------------------------
(* The user of Facebook.                                                     *)

Works == work' = work + 1 /\ UNCHANGED <<rows, met, outgrown, uploads>>

WritePost(at, body, uris) ==
  /\ Works
  /\ posts' = posts \cup {[at |-> at, body |-> body, uris |-> uris]}
  /\ UNCHANGED albums

StartAlbum(name, u, at, touched) ==
  /\ Works /\ touched >= at
  /\ albums' = Append(albums, [name |-> name, touched |-> touched,
                               photos |-> <<[uri |-> u, at |-> at]>>])
  /\ UNCHANGED posts

(* A new picture goes behind the others and is no older; the album is touched.  *)
AddPhoto(a, u, at, touched) ==
  /\ Works /\ touched >= albums[a].touched
  /\ \A i \in DOMAIN albums[a].photos : albums[a].photos[i].uri # u /\ albums[a].photos[i].at =< at
  /\ albums' = [albums EXCEPT ![a].photos = Append(@, [uri |-> u, at |-> at]), ![a].touched = touched]
  /\ UNCHANGED posts

(* A new description, say, which is no part of any key.                       *)
Touch(a, touched) ==
  /\ Works /\ touched > albums[a].touched
  /\ albums' = [albums EXCEPT ![a].touched = touched]
  /\ UNCHANGED posts

-----------------------------------------------------------------------------
(* The parser.                                                               *)

Trimmed(t) == IF t \in Blank THEN Nothing ELSE <<t>>

(* compute_external_id, a hash that nobody gets twice by chance.               *)
ExternalId(at, text, uris) == <<at, text, IF uris = <<>> THEN Nothing ELSE <<uris[1]>> >>

(* normalize_post; an entry without a date, or without text and pictures, is no  *)
(* post.                                                                     *)
IsPost(p) == p.at # 0 /\ (Trimmed(p.body) # Nothing \/ p.uris # <<>>)

NormalPost(p) ==
  [kind |-> "post", id |-> ExternalId(p.at, Trimmed(p.body), p.uris), body |-> Trimmed(p.body),
   uris |-> Range(p.uris), of |-> 0]

Dates(a) == {a.photos[i].at : i \in DOMAIN a.photos} \ {0}

(* Mutant: the date an album was touched comes first.                         *)
LastTouched(a) == IF a.touched # 0 \/ Dates(a) = {} THEN a.touched ELSE Min(Dates(a))

(* The earliest picture's date, or when none has one the album's.              *)
AlbumDate(a) == IF Dates(a) = {} THEN a.touched ELSE Min(Dates(a))

Untitled(at) == <<"Untitled album", at>>

AlbumName(a) == IF Trimmed(a.name) = Nothing THEN Untitled(AlbumDate(a)) ELSE Trimmed(a.name)

(* normalize_album.                                                          *)
IsAlbum(a) == a.photos # <<>> /\ AlbumDate(a) # 0

Uris(a) == [i \in DOMAIN a.photos |-> a.photos[i].uri]

NormalAlbum(n) ==
  LET a == albums[n] IN
  [kind |-> "album", id |-> ExternalId(AlbumDate(a), AlbumName(a), Uris(a)), body |-> AlbumName(a),
   uris |-> Range(Uris(a)), of |-> n]

(* Mutant: the pictures of albums that are not imported count.                 *)
AnyAlbumsPictures(readable) == UNION {Range(Uris(albums[n])) : n \in DOMAIN albums}

AlbumUris(readable) == UNION {Range(Uris(albums[n])) : n \in readable}

(* The albums-win rule.                                                      *)
Suppressed(p, uris) == p.body = Nothing /\ p.uris # {} /\ p.uris \subseteq uris

(* parse_archive, with the album manifests that decode, and the posts' if it does. *)
ParsedAlbums(decoded) == {NormalAlbum(n) : n \in {m \in decoded : IsAlbum(albums[m])}}

ParsedPosts(decoded) ==
  LET normal == {NormalPost(p) : p \in {q \in posts : IsPost(q)}}
      claimed == AlbumUris({m \in decoded : IsAlbum(albums[m])})
  IN {p \in normal : ~Suppressed(p, claimed)}

Row(p) == [kind |-> p.kind, id |-> p.id, uris |-> p.uris, of |-> p.of]

(* The keys that are there already: a post's in any row, an album's in an album. *)
Known(p) == \E r \in rows : r.id = p.id /\ (p.kind = "album" => r.kind = "album")

(* One upload, as the worker in facebook/mod.rs goes about it: what is known is   *)
(* skipped, the rest inserted.                                               *)
Upload(decoded, postsDecode) ==
  LET found == ParsedAlbums(decoded) \cup (IF postsDecode THEN ParsedPosts(decoded) ELSE {})
      pictures(p) == UNION {r.uris : r \in {q \in rows : q.id = p.id}}
  IN
  /\ uploads' = uploads + 1
  /\ rows' = rows \cup {Row(p) : p \in {q \in found : ~Known(q)}}
  /\ met' = met \cup AlbumUris({n \in decoded : IsAlbum(albums[n])})
                \cup UNION {Range(p.uris) : p \in {q \in posts : postsDecode /\ IsPost(q)}}
  /\ outgrown' = outgrown \cup UNION {p.uris \ pictures(p) : p \in {q \in found : Known(q)}}
  /\ UNCHANGED <<posts, albums, work>>

-----------------------------------------------------------------------------
UserWorks ==
  \/ \E uris \in UNION {SetToSeqs(p) : p \in SUBSET Uri}, at \in Time, body \in Text : WritePost(at, body, uris)
  \/ \E name \in Text, u \in Uri, at, touched \in Time : StartAlbum(name, u, at, touched)
  \/ \E a \in DOMAIN albums, at \in Time :
       \/ \E u \in Uri, touched \in Time : AddPhoto(a, u, at, touched)
       \/ Touch(a, at)

Next ==
  \/ work < MaxWork /\ UserWorks
  \/ uploads < MaxUploads /\ \E decoded \in SUBSET DOMAIN albums, postsDecode \in BOOLEAN : Upload(decoded, postsDecode)

Spec == Init /\ [][Next]_vars

-----------------------------------------------------------------------------
(* parse_archive drops the posts that only repeat albums, and the uploads what   *)
(* they know by its key: no picture of an entry that could be imported is lost   *)
(* by it, but those that an album or a post has got after its import.           *)
NothingLost == met \subseteq outgrown \cup UNION {r.uris : r \in rows}

(* normalize_album ("re-exports don't shift the album date when an album is       *)
(* touched", "the same album re-exported produces the same id"): an album whose   *)
(* first picture is dated is imported once, however it grows and is touched.     *)
AlbumsOnce ==
  \A r, s \in rows :
    r.kind = "album" /\ s.kind = "album" /\ r.of = s.of /\ albums[r.of].photos[1].at # 0 => r = s

ArchiveKept == NothingLost /\ AlbumsOnce
=============================================================================
