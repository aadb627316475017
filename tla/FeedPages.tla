----------------------------- MODULE FeedPages -----------------------------
(***************************************************************************)
(* A list that is loaded page by page: the feed, the articles and the albums. *)
(* The server's part is src/src/posts/queries.rs with the handler's cursor,   *)
(* the browser's is Feed.tsx and Articles.tsx: a filter from the URL, the     *)
(* rows shown, a cursor, "load more".                                        *)
(*                                                                          *)
(* Rows appear (a post is written or imported, with any published_at, or an   *)
(* article is published), and disappear (deleted, hidden from this viewer)     *)
(* between the pages.  Nothing ties an answer to the filter it was asked for:  *)
(* switching the filter starts another request beside the old one, whose      *)
(* answer is shown like any other.                                           *)
(***************************************************************************)
EXTENDS Naturals, Sequences, FiniteSets, Functions

CONSTANTS Row,        \* ids, which are numbers: ids order rows of one time
          Time,       \* values of published_at
          Kind,       \* kinds of rows, and the filters that select them
          KindOf,     \* the kind of each row, which never changes
          All,        \* the filter that selects every row
          Limit,      \* rows per page
          MaxAsked,   \* bound on requests
          MaxChanges  \* bound on rows changed while the page is open

Filter == Kind \cup {All}

VARIABLES
  rows,     \* the table: published_at of each row, and whether this viewer can read it
  filter,   \* the filter in the URL
  posts,    \* the ids listed
  cursor,   \* the cursor of the next page: a row's key, or none
  hasMore, loading, failed,
  asked,    \* requests, in the order they were sent
  owed,     \* history: rows readable ever since this filter's first page was asked for
  changes,  \* how many rows have changed
  stale     \* history: a request of an earlier filter has ended since

vars == <<rows, filter, posts, cursor, hasMore, loading, failed, asked, owed, changes, stale>>

Key == [at : Time, id : Row]
NoCursor == <<>>

Init ==
  /\ rows \in [Row -> [at : Time, readable : BOOLEAN]]
  /\ filter = All /\ posts = <<>> /\ cursor = NoCursor
  /\ hasMore = FALSE /\ loading = FALSE /\ failed = FALSE
  /\ asked = <<>> /\ owed = {} /\ changes = 0 /\ stale = FALSE

TypeOK ==
  /\ rows \in [Row -> [at : Time, readable : BOOLEAN]] /\ filter \in Filter
  /\ posts \in Seq(Row) /\ cursor \in Key \cup {NoCursor}
  /\ {hasMore, loading, failed, stale} \subseteq BOOLEAN
  /\ Len(asked) =< MaxAsked /\ owed \subseteq Row /\ changes \in 0 .. MaxChanges

-----------------------------------------------------------------------------
(* The server.                                                               *)

KeyOf(i) == [at |-> rows[i].at, id |-> i]

Before(k, l) == k.at > l.at \/ (k.at = l.at /\ k.id > l.id)

Selected(f) == {i \in Row : rows[i].readable /\ f \in {All, KindOf[i]}}

(* Mutant: rows of the cursor's own time are taken for shown.                 *)
Older(f, c) == {i \in Selected(f) : c = NoCursor \/ rows[i].at < c.at}

(* The rows after the cursor, (published_at, id) descending.                   *)
After(f, c) == {i \in Selected(f) : c = NoCursor \/ Before(c, KeyOf(i))}

Sorted(S) ==
  CHOOSE s \in [1 .. Cardinality(S) -> S] :
    \A i, j \in DOMAIN s : i < j => Before(KeyOf(s[i]), KeyOf(s[j]))

(* list_feed_page with one row more than a page, and the handler's next_cursor. *)
Page(f, c) ==
  LET found == Sorted(After(f, c))
      page == SubSeq(found, 1, IF Len(found) > Limit THEN Limit ELSE Len(found))
  IN [posts |-> page,
      next  |-> IF Len(found) > Limit THEN KeyOf(page[Limit]) ELSE NoCursor]

NoPage == [posts |-> <<>>, next |-> NoCursor]

(* What became true while a request is out: a publication, a deletion, ...     *)
Change(i, t, b) ==
  /\ asked # <<>> /\ changes < MaxChanges /\ changes' = changes + 1
  /\ rows[i].readable # b
  /\ rows' = [rows EXCEPT ![i].at = t, ![i].readable = b]
  /\ owed' = owed \ {i}
  /\ UNCHANGED <<filter, posts, cursor, hasMore, loading, failed, asked, stale>>

-----------------------------------------------------------------------------
(* The page.                                                                 *)

(* loadPage up to its await.                                                 *)
Send(f, c) ==
  /\ Len(asked) < MaxAsked
  /\ asked' = Append(asked, [filter |-> f, cursor |-> c, state |-> "sent", page |-> NoPage])
  /\ loading' = TRUE /\ failed' = FALSE

(* The effect on mount and on a new filter: it empties the list and asks for    *)
(* the first page.                                                           *)
Open(f) ==
  /\ posts' = <<>> /\ cursor' = NoCursor /\ hasMore' = FALSE
  /\ filter' = f /\ Send(f, NoCursor)
  /\ owed' = Selected(f) /\ stale' = FALSE
  /\ UNCHANGED <<rows, changes>>

SwitchFilter(f) == (f # filter \/ asked = <<>>) /\ Open(f)

LoadMore ==
  /\ hasMore /\ ~loading
  /\ Send(filter, cursor)
  /\ UNCHANGED <<rows, filter, posts, cursor, hasMore, owed, changes, stale>>

(* The server takes up a request.                                            *)
AnswerPage(n) ==
  /\ asked[n].state = "sent"
  /\ asked' = [asked EXCEPT ![n].state = "answered", ![n].page = Page(asked[n].filter, asked[n].cursor)]
  /\ UNCHANGED <<rows, filter, posts, cursor, hasMore, loading, failed, owed, changes, stale>>

Extended(q) == IF q.cursor = NoCursor THEN q.page.posts ELSE posts \o q.page.posts

(* The filter was switched after this request, which ends all the same.        *)
Late(n) == \E m \in n + 1 .. Len(asked) : asked[m].cursor = NoCursor

(* The answer arrives: setPosts, setCursor, setHasMore, whatever is asked now. *)
ShowPage(n) ==
  LET q == asked[n] IN
  /\ q.state = "answered"
  /\ posts' = Extended(q) /\ cursor' = q.page.next /\ hasMore' = (q.page.next # NoCursor)
  /\ loading' = FALSE
  /\ asked' = [asked EXCEPT ![n].state = "shown", ![n].page = NoPage]
  /\ stale' = (stale \/ Late(n))
  /\ UNCHANGED <<rows, filter, failed, owed, changes>>

(* No answer, or an error: what is shown stays, and "load more" opens again,    *)
(* also when another page is on its way.                                     *)
PageFails(n) ==
  /\ asked[n].state \in {"sent", "answered"}
  /\ failed' = TRUE /\ loading' = FALSE
  /\ asked' = [asked EXCEPT ![n].state = "shown", ![n].page = NoPage]
  /\ stale' = (stale \/ Late(n))
  /\ UNCHANGED <<rows, filter, posts, cursor, hasMore, owed, changes>>

-----------------------------------------------------------------------------
Next ==
  \/ \E i \in Row, t \in Time, b \in BOOLEAN : Change(i, t, b)
  \/ \E f \in Filter : SwitchFilter(f)
  \/ LoadMore
  \/ \E n \in 1 .. Len(asked) : AnswerPage(n) \/ ShowPage(n) \/ PageFails(n)

Spec == Init /\ [][Next]_vars

-----------------------------------------------------------------------------
Shown == Range(posts)

NothingSkipped ==
  \A i \in owed \ Shown :
    /\ hasMore \/ loading \/ failed
    /\ \A k \in Shown : rows[k].readable /\ k \in owed => Before(KeyOf(k), KeyOf(i))

NothingTwice == \A i, j \in 1 .. Len(posts) : posts[i] = posts[j] /\ posts[i] \in owed => i = j

(* Whatever is inserted or removed between the pages, the list has no hole: a   *)
(* row that could be read all the time is on it as soon as a row behind it is,  *)
(* and in the end; none is listed twice, but one that was published anew, and   *)
(* each where the filter in the URL selects it.  All this unless a request of   *)
(* an earlier filter has ended over the list: its answer is shown as this one's, *)
(* and its failure lets the next page be asked for, and listed, twice.          *)
ListFollowsRows ==
  \/ stale
  \/ NothingSkipped /\ NothingTwice /\ \A i \in Shown : filter \in {All, KindOf[i]}
=============================================================================
