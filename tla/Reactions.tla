----------------------------- MODULE Reactions -----------------------------
(***************************************************************************)
(* Reactions: the handlers of src/src/engagement (reactions.rs,              *)
(* comment_reactions.rs, media_reactions.rs: the same three times, for a      *)
(* post, a comment or a picture), and the bar that calls them                *)
(* (social-frontend/src/features/engagement/ReactionBar.tsx), on its own or   *)
(* in the panel of MediaLightbox.tsx, which moves from picture to picture, or  *)
(* under a comment (CommentThread.tsx), where an edit takes its place.          *)
(*                                                                          *)
(* A click shows its outcome at once, then removes the old kind with one       *)
(* request and adds the new one with another; each answers with the counts    *)
(* and the caller's kinds, read in two statements after the write.            *)
(***************************************************************************)
EXTENDS Naturals, FiniteSets

CONSTANTS Reactor, Bar,   \* signed-in users; bars on their screens
          Lightbox,       \* bars in the panel of a lightbox, a subset of Bar
          Returning,      \* bars that go and come back: under a comment, on a profile
          Editable,       \* those under a comment that their user may edit
          Item,           \* posts, comments or pictures
          React,          \* kinds of reaction
          Nil,            \* no kind, no answer
          MaxClicks,      \* bound on clicks
          MaxEvents       \* bound on moves, faults and losses of sight

ASSUME FewUsers == IsFiniteSet(Reactor) /\ IsFiniteSet(React)
ASSUME NilIsNoKind == Nil \notin React
ASSUME OneKindOfBar == Lightbox \subseteq Bar \ Returning /\ Editable \subseteq Returning

VARIABLES
  reactions,  \* rows <<user, item, kind>>: their unique index
  visible,    \* the pairs <<user, item>> load_visible_post lets pass
  user,       \* who looks at each bar
  bar,        \* its state: item, props, what is shown, the load under way
  call,       \* the click it is busy with
  crossed,    \* history: bars that met a failure, or a click while a load was under way
              \* or while they were away
  stale,      \* history: bars that came back with other kinds than the server has
  clicked,    \* history: bars clicked while stale
  done        \* how many clicks and events

reactionVars == <<reactions, visible, user, bar, call, crossed, stale, clicked, done>>

View == [counts : [React -> Nat], kinds : SUBSET React, first : React \cup {Nil}]
Blank == [counts |-> [k \in React |-> 0], kinds |-> {}, first |-> Nil]
Idle == [pc |-> "idle", of |-> Nil, remove |-> Nil, add |-> Nil, props |-> Blank, answer |-> Blank]

Counts(i) == [k \in React |-> Cardinality({u \in Reactor : <<u, i, k>> \in reactions})]
Mine(u, i) == {k \in React : <<u, i, k>> \in reactions}

(* viewer_reaction_kinds comes in no particular order; the bar goes by the first. *)
Firsts(kinds) == IF kinds = {} THEN {Nil} ELSE kinds

Loaded(v, i) == [item |-> i, props |-> v, shown |-> v, load |-> "none", read |-> Blank]
Loading(b, i) == [b EXCEPT !.item = i, !.load = "sent", !.read = Blank]

TypeOK ==
  /\ reactions \subseteq Reactor \X Item \X React /\ visible \subseteq Reactor \X Item
  /\ user \in [Bar -> Reactor] /\ crossed \cup stale \cup clicked \subseteq Bar
  /\ \A b \in Bar : /\ bar[b].item \in Item /\ bar[b].props \in View /\ bar[b].shown \in View
                    /\ call[b].pc \in {"idle", "sent", "gated", "written", "counted", "answered"}

(* A bar of the feed comes with the state of its post; one of a lightbox is     *)
(* empty until it has been loaded.  Nobody has reacted twice to an item.       *)
Init ==
  /\ reactions \in SUBSET (Reactor \X Item \X React)
  /\ \A u \in Reactor, i \in Item : Cardinality(Mine(u, i)) <= 1
  /\ visible = Reactor \X Item
  /\ user \in [Bar -> Reactor]
  /\ \E i \in Item :
       bar = [b \in Bar |->
                IF b \in Lightbox THEN Loading(Loaded(Blank, i), i)
                ELSE LET mine == Mine(user[b], i) IN
                     Loaded([counts |-> Counts(i), kinds |-> mine,
                             first |-> CHOOSE k \in Firsts(mine) : TRUE], i)]
  /\ call = [b \in Bar |-> Idle]
  /\ crossed = {} /\ stale = {} /\ clicked = {} /\ done = [click |-> 0, event |-> 0]

Spend(what, max) == done[what] < max /\ done' = [done EXCEPT ![what] = @ + 1]

-----------------------------------------------------------------------------
(* The bar.                                                                  *)

(* runRequest's guess.                                                       *)
Without(v, k) ==
  IF k = Nil THEN v
  ELSE [v EXCEPT !.counts[k] = IF @ = 0 THEN 0 ELSE @ - 1, !.kinds = @ \ {k}]

With(v, k) ==
  IF k = Nil THEN v ELSE [v EXCEPT !.counts[k] = @ + 1, !.kinds = @ \cup {k}, !.first = k]

(* Mutant: the new kind first.                                               *)
AddFirst(c) == IF c.add # Nil THEN "add" ELSE "remove"

(* Which of a click's requests is next.                                      *)
Turn(c) == IF c.remove # Nil THEN "remove" ELSE "add"

(* applyReaction: the current kind is taken back, another replaces it.  The     *)
(* closure keeps the props of this moment.                                   *)
Click(b, k) ==
  LET was == bar[b].shown.first
      add == IF k = was THEN Nil ELSE k IN
  /\ call[b].pc = "idle" /\ bar[b].load # "away"
  /\ Spend("click", MaxClicks)
  /\ call' = [call EXCEPT ![b] = [Idle EXCEPT !.pc = "sent", !.of = bar[b].item, !.remove = was,
                                              !.add = add, !.props = bar[b].props]]
  /\ LET guess == With(Without(bar[b].shown, was), add) IN
     \E f \in Firsts(guess.kinds) :
       bar' = [bar EXCEPT ![b].shown = [guess EXCEPT !.first = IF add = Nil THEN f ELSE add]]
  /\ crossed' = IF bar[b].load = "none" THEN crossed ELSE crossed \cup {b}
  /\ clicked' = clicked \cup ({b} \cap stale)
  /\ UNCHANGED <<reactions, visible, user, stale>>

(* load_visible_post, load_visible_comment, load_visible_media.               *)
Gate(b) ==
  /\ call[b].pc = "sent"
  /\ <<user[b], call[b].of>> \in visible
  /\ call' = [call EXCEPT ![b].pc = "gated"]
  /\ UNCHANGED <<reactions, visible, user, bar, crossed, stale, clicked, done>>

(* create_reaction and its two likes, ON CONFLICT DO NOTHING.                 *)
Added(c, u) == reactions \cup {<<u, c.of, c.add>>}

(* delete_reaction: no row is no error.                                      *)
Removed(c, u) == reactions \ {<<u, c.of, c.remove>>}

WriteReaction(b) ==
  LET c == call[b] IN
  /\ c.pc = "gated"
  /\ reactions' = IF Turn(c) = "remove" THEN Removed(c, user[b]) ELSE Added(c, user[b])
  /\ call' = [call EXCEPT ![b].pc = "written"]
  /\ UNCHANGED <<visible, user, bar, crossed, stale, clicked, done>>

(* reaction_state, first the counts, then the caller's own kinds.              *)
ReadCounts(b) ==
  /\ call[b].pc = "written"
  /\ call' = [call EXCEPT ![b].pc = "counted", ![b].answer.counts = Counts(call[b].of)]
  /\ UNCHANGED <<reactions, visible, user, bar, crossed, stale, clicked, done>>

ReadMine(b) ==
  LET mine == Mine(user[b], call[b].of) IN
  /\ call[b].pc = "counted"
  /\ \E f \in Firsts(mine) :
       call' = [call EXCEPT ![b].pc = "answered", ![b].answer.kinds = mine, ![b].answer.first = f]
  /\ UNCHANGED <<reactions, visible, user, bar, crossed, stale, clicked, done>>

(* The answer: the second request goes out, or the bar shows the last answer,  *)
(* whatever item it has been moved to.                                       *)
Arrive(b) ==
  LET c == call[b]
      left == IF Turn(c) = "remove" THEN [c EXCEPT !.remove = Nil] ELSE [c EXCEPT !.add = Nil]
      last == left.remove = Nil /\ left.add = Nil IN
  /\ c.pc = "answered"
  /\ call' = [call EXCEPT ![b] = IF last THEN Idle ELSE [left EXCEPT !.pc = "sent"]]
  /\ bar' = IF last THEN [bar EXCEPT ![b].shown = c.answer] ELSE bar
  /\ stale' = IF last THEN stale \ {b} ELSE stale
  /\ UNCHANGED <<reactions, visible, user, crossed, clicked, done>>

(* A refusal, a lost request or a lost answer: the props of the click return.  *)
CallFails(b) ==
  /\ call[b].pc # "idle"
  /\ IF call[b].pc = "sent" /\ <<user[b], call[b].of>> \notin visible THEN done' = done
     ELSE Spend("event", MaxEvents)
  /\ call' = [call EXCEPT ![b] = Idle]
  /\ bar' = [bar EXCEPT ![b].shown = call[b].props]
  /\ crossed' = crossed \cup {b}
  /\ UNCHANGED <<reactions, visible, user, stale, clicked>>

-----------------------------------------------------------------------------
(* The panel of a lightbox (MediaEngagementPanel).                            *)

(* The next picture: the bar shows the last one's state until the load is back. *)
Move(b, i) ==
  /\ b \in Lightbox /\ i # bar[b].item
  /\ Spend("event", MaxEvents)
  /\ bar' = [bar EXCEPT ![b] = Loading(bar[b], i)]
  /\ crossed' = IF call[b].pc = "idle" THEN crossed ELSE crossed \cup {b}
  /\ UNCHANGED <<reactions, visible, user, call, stale, clicked>>

(* get_media_engagement's two statements.                                    *)
LoadCounts(b) ==
  /\ bar[b].load = "sent" /\ <<user[b], bar[b].item>> \in visible
  /\ bar' = [bar EXCEPT ![b].load = "counted", ![b].read.counts = Counts(bar[b].item)]
  /\ UNCHANGED <<reactions, visible, user, call, crossed, stale, clicked, done>>

LoadMine(b) ==
  LET mine == Mine(user[b], bar[b].item) IN
  /\ bar[b].load = "counted"
  /\ \E f \in Firsts(mine) :
       bar' = [bar EXCEPT ![b].load = "answered", ![b].read.kinds = mine, ![b].read.first = f]
  /\ UNCHANGED <<reactions, visible, user, call, crossed, stale, clicked, done>>

(* Mutant: the bar does not follow its props.                                 *)
KeepShown(b, v) == [bar[b] EXCEPT !.props = v, !.load = "none"]

(* setState, and the bar's layout effect.                                    *)
Sync(b, v) == Loaded(v, bar[b].item)

LoadArrives(b) ==
  /\ bar[b].load = "answered"
  /\ bar' = [bar EXCEPT ![b] = Sync(b, bar[b].read)]
  /\ UNCHANGED <<reactions, visible, user, call, crossed, stale, clicked, done>>

(* Not found, or no answer: an empty bar.                                    *)
LoadFails(b) ==
  /\ bar[b].load \in {"sent", "counted", "answered"}
  /\ IF bar[b].load = "sent" /\ <<user[b], bar[b].item>> \notin visible THEN done' = done
     ELSE Spend("event", MaxEvents)
  /\ bar' = [bar EXCEPT ![b] = Sync(b, Blank)]
  /\ crossed' = crossed \cup {b}
  /\ UNCHANGED <<reactions, visible, user, call, stale, clicked>>

-----------------------------------------------------------------------------
(* A bar that goes and comes back.                                           *)

(* startEdit puts a form where a comment and its bar were; another tab takes    *)
(* away the posts of a profile.  A click under way goes on unseen.             *)
Leave(b) ==
  /\ b \in Returning /\ bar[b].load = "none"
  /\ Spend("event", MaxEvents)
  /\ bar' = [bar EXCEPT ![b].load = "away"]
  /\ crossed' = IF call[b].pc = "idle" THEN crossed ELSE crossed \cup {b}
  /\ UNCHANGED <<reactions, visible, user, call, stale, clicked>>

(* cancelEdit, saveEdit or the first tab: a new bar starts from the entry of the *)
(* list, which no click has changed; edit_comment's answer has put one without   *)
(* counts or kinds there.  (The new bar need not wait for the old one's click:    *)
(* here it does, and the bar counts as crossed.)                               *)
Return(b) ==
  /\ bar[b].load = "away" /\ call[b].pc = "idle"
  /\ \E v \in {bar[b].props} \cup (IF b \in Editable THEN {Blank} ELSE {}) :
       /\ bar' = [bar EXCEPT ![b] = Loaded(v, bar[b].item)]
       /\ stale' = IF v.kinds = Mine(user[b], bar[b].item) THEN stale \ {b} ELSE stale \cup {b}
  /\ UNCHANGED <<reactions, visible, user, call, crossed, clicked, done>>

(* The post is hidden from someone or deleted.                               *)
Hide(u, i) ==
  /\ <<u, i>> \in visible
  /\ Spend("event", MaxEvents)
  /\ visible' = visible \ {<<u, i>>}
  /\ UNCHANGED <<reactions, user, bar, call, crossed, stale, clicked>>

-----------------------------------------------------------------------------
Next ==
  \/ \E b \in Bar : \/ \E k \in React : Click(b, k)
                    \/ Gate(b) \/ WriteReaction(b) \/ ReadCounts(b) \/ ReadMine(b) \/ Arrive(b) \/ CallFails(b)
                    \/ \E i \in Item : Move(b, i)
                    \/ LoadCounts(b) \/ LoadMine(b) \/ LoadArrives(b) \/ LoadFails(b)
                    \/ Leave(b) \/ Return(b)
  \/ \E u \in Reactor, i \in Item : Hide(u, i)

Spec == Init /\ [][Next]_reactionVars

-----------------------------------------------------------------------------
(* Somebody with one bar, none of whose loads or requests failed or crossed.   *)
Undisturbed(b) == b \notin crossed /\ \A a \in Bar : user[a] = user[b] => a = b

(* ReactionBar, "server response is authoritative on success": a bar at rest    *)
(* shows its user's kinds on its item as the server has them, each counted,    *)
(* whatever others click and however the panel has moved - until it goes and     *)
(* comes back with the state it first had, or with none, after its user's kinds  *)
(* have changed; the next click's answer makes up for that.                    *)
RestingBarIsRight ==
  \A b \in Bar :
    Undisturbed(b) /\ call[b].pc = "idle" /\ bar[b].load = "none" /\ b \notin stale =>
      /\ bar[b].shown.kinds = Mine(user[b], bar[b].item)
      /\ \A k \in bar[b].shown.kinds : bar[b].shown.counts[k] > 0

(* "A user only ever has one kind per target", which the unique index does not  *)
(* ask for: it takes the order of the bar's two requests.  A bar clicked after   *)
(* it came back with other kinds than the server's leaves the old one there.     *)
OneKindUnlessDisturbed ==
  \A b \in Bar, i \in Item :
    Undisturbed(b) /\ b \notin clicked => Cardinality(Mine(user[b], i)) <= 1
=============================================================================
