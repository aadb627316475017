----------------------------- MODULE ArchiveText -----------------------------
(***************************************************************************)
(* What the importer does to a text of an archive (normalize_post,            *)
(* fix_facebook_mojibake, wrap_bare_urls and trim_url_punctuation in         *)
(* src/src/imports/facebook/parser.rs).  A text is a sequence of code points; *)
(* Scheme stands for the characters "https://".                              *)
(***************************************************************************)
EXTENDS Integers, SequencesExt

CONSTANTS Point,  \* code points a text is made of
          MaxText \* bound on the length of a text

VARIABLES
  meant, \* the text as it was written
  raw,   \* as it is in the archive
  body   \* as it is imported

vars == <<meant, raw, body>>

Scheme == 0
Less == 60
More == 62
Sentence == {33, 44, 46, 59, 63}
Closers == {41, 93}
Opener(c) == IF c = 41 THEN 40 ELSE 91

Texts == UNION {[1 .. n -> Point] : n \in 0 .. MaxText}

(* The white space of str::trim among the characters below 256; two of them    *)
(* are also bytes that a character beyond ASCII may end with.                *)
AsciiSpace == 9 .. 13 \cup {32}
Space == AsciiSpace \cup {133, 160}

Trim(s, space) ==
  LET kept == {i \in DOMAIN s : s[i] \notin space} IN
  IF kept = {} THEN <<>> ELSE SubSeq(s, Min(kept), Max(kept))

-----------------------------------------------------------------------------
(* UTF-8.                                                                    *)

(* The characters: no surrogates.                                            *)
Scalar(c) == c < 55296 \/ (57343 < c /\ c < 1114112)

Bytes(c) ==
  CASE c < 128                   -> <<c>>
    [] 128 =< c /\ c < 2048      -> <<192 + c \div 64, 128 + (c % 64)>>
    [] 2048 =< c /\ c < 65536    -> <<224 + c \div 4096, 128 + ((c \div 64) % 64), 128 + (c % 64)>>
    [] OTHER -> <<240 + c \div 262144, 128 + ((c \div 4096) % 64), 128 + ((c \div 64) % 64), 128 + (c % 64)>>

Utf8(t) == FlattenSeq([i \in DOMAIN t |-> Bytes(t[i])])

(* How many bytes a character with this first byte has; 0 if none begins with it. *)
Width(b) ==
  CASE b < 128 -> 1 [] b \in 194 .. 223 -> 2 [] b \in 224 .. 239 -> 3 [] b \in 240 .. 244 -> 4 [] OTHER -> 0

Character(s, i) ==
  LET low(k) == s[i + k] - 128 IN
  CASE Width(s[i]) = 1 -> s[i]
    [] Width(s[i]) = 2 -> (s[i] - 192) * 64 + low(1)
    [] Width(s[i]) = 3 -> ((s[i] - 224) * 64 + low(1)) * 64 + low(2)
    [] OTHER           -> (((s[i] - 240) * 64 + low(1)) * 64 + low(2)) * 64 + low(3)

Begins(s, i) ==
  LET w == Width(s[i]) IN
  /\ w > 0 /\ i + w - 1 =< Len(s)
  /\ \A k \in 1 .. w - 1 : s[i + k] \in 128 .. 191
  /\ Bytes(Character(s, i)) = SubSeq(s, i, i + w - 1)
  /\ Scalar(Character(s, i))

Invalid == <<-1>>

(* std::str::from_utf8.                                                      *)
Decoded(s) ==
  LET from[i \in 1 .. Len(s) + 1] ==
        IF i > Len(s) THEN <<>>
        ELSE IF ~Begins(s, i) THEN Invalid
        ELSE LET rest == from[i + Width(s[i])]
             IN IF rest = Invalid THEN Invalid ELSE <<Character(s, i)>> \o rest
  IN from[1]

(* Mutant: only texts all of whose characters are beyond ASCII are mended.       *)
MendForeign(s) ==
  IF (\A i \in DOMAIN s : s[i] \in 128 .. 255) /\ Decoded(s) # Invalid THEN Decoded(s) ELSE s

FixMojibake(s) ==
  IF (\E i \in DOMAIN s : s[i] \in 128 .. 255) /\ (\A i \in DOMAIN s : s[i] < 256)
       /\ Decoded(s) # Invalid /\ Len(Decoded(s)) < Len(s)
  THEN Decoded(s)
  ELSE s

-----------------------------------------------------------------------------
(* Links.                                                                    *)

Count(s, c) == Cardinality({i \in DOMAIN s : s[i] = c})

(* The openers are counted over the whole link, the closers over what is left.   *)
Peels(link, n) ==
  \/ link[n] \in Sentence
  \/ link[n] \in Closers /\ Count(SubSeq(link, 1, n), link[n]) > Count(link, Opener(link[n]))

(* trim_url_punctuation: how much of the link is kept.                         *)
Kept(link) ==
  LET back[n \in 0 .. Len(link)] == IF n = 0 \/ ~Peels(link, n) THEN n ELSE back[n - 1]
  IN back[Len(link)]

InLink(c) == c \notin {32, Less, More}

(* The end of the match of the pattern https?://[^\s<>]+ that begins at i.       *)
LinkEnd(t, i) == CHOOSE e \in i .. Len(t) : (e = Len(t) \/ ~InLink(t[e + 1])) /\ \A k \in i .. e : InLink(t[k])

IsLink(t, i) == t[i] = Scheme /\ i < Len(t) /\ InLink(t[i + 1])

WrapBareUrls(t) ==
  LET from[i \in 1 .. Len(t) + 1] ==
        IF i > Len(t) THEN <<>>
        ELSE IF ~IsLink(t, i) THEN <<t[i]>> \o from[i + 1]
        ELSE LET end == LinkEnd(t, i)  kept == i + Kept(SubSeq(t, i, end)) - 1
             IN <<Less>> \o SubSeq(t, i, kept) \o <<More>> \o SubSeq(t, kept + 1, end) \o from[end + 1]
  IN from[1]

-----------------------------------------------------------------------------
Init == meant \in Texts /\ raw = <<>> /\ body = <<>>

(* The exporter writes each byte of a text's UTF-8 as a character.             *)
Export == raw = <<>> /\ raw' = Utf8(meant) /\ UNCHANGED <<meant, body>>

(* normalize_post, for one entry: what is there of the bytes is trimmed first. *)
Import ==
  /\ raw # <<>> /\ body = <<>>
  /\ body' = WrapBareUrls(FixMojibake(Trim(raw, Space)))
  /\ UNCHANGED <<meant, raw>>

Next == Export \/ Import

Spec == Init /\ [][Next]_vars

-----------------------------------------------------------------------------
Unwrapped(t) ==
  LET upto[n \in 0 .. Len(t)] ==
        IF n = 0 THEN <<>> ELSE IF t[n] \in {Less, More} THEN upto[n - 1] ELSE Append(upto[n - 1], t[n])
  IN upto[Len(t)]

Balanced(s) ==
  \A c \in Closers :
    /\ Count(s, c) = Count(s, Opener(c))
    /\ \A n \in 0 .. Len(s) : Count(SubSeq(s, 1, n), c) =< Count(SubSeq(s, 1, n), Opener(c))

Has(t, part) == \E k \in 1 .. Len(t) - Len(part) + 1 : SubSeq(t, k, k + Len(part) - 1) = part

(* The import undoes the export of a text, but for the blanks around it; and a link *)
(* that was written with its brackets balanced and no punctuation at its end comes *)
(* out whole, whatever it stands between.  The exception is a text whose last byte *)
(* trim takes for white space, as it does the second one of a-grave: what is left no *)
(* longer reads as UTF-8 and stays as it was exported.                       *)
TextRestored ==
  LET t == Trim(meant, AsciiSpace) IN
  body # <<>> /\ Last(Bytes(Last(t))) \notin Space =>
    /\ Unwrapped(body) = Unwrapped(t)
    /\ \A i \in DOMAIN t :
         IsLink(t, i) /\ (i = 1 \/ ~InLink(t[i - 1])) =>
           LET link == SubSeq(t, i, LinkEnd(t, i)) IN
           Balanced(link) /\ Last(link) \notin Sentence => Has(body, <<Less>> \o link \o <<More>>)
=============================================================================
