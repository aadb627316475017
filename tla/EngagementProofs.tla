-------------------------- MODULE EngagementProofs --------------------------
(***************************************************************************)
(* Reactions.tla for any number of users, bars, items and kinds, and             *)
(* Comments.tla for any number of threads, calls and comments.                  *)
(*                                                                          *)
(* Only its one bar writes the rows of a user, so while nothing fails or       *)
(* crosses, what the bar is about to do follows from the rows of its user on    *)
(* the item it shows: the kind there is, if any, is the one to be removed       *)
(* first, and a kind is added where there is none.  A bar that came back with     *)
(* other kinds knows nothing of those rows until a click's answer tells it.        *)
(*                                                                          *)
(* A thread follows the comments of its user: one that lives is on the list, or   *)
(* its creation's answer is still to come; one that died is not, or a deletion's  *)
(* answer is still to come.                                                   *)
(***************************************************************************)
EXTENDS MCEngagement, FiniteSetTheorems, SequenceTheorems, TLAPS

Kind == React \cup {Nil}

BarState == [item : Item, props : View, shown : View, load : {"none", "sent", "counted", "answered", "away"},
             read : View]

CallState == [pc : {"idle", "sent", "gated", "written", "counted", "answered"}, of : Item \cup {Nil},
              remove : Kind, add : Kind, props : View, answer : View]

Shapes ==
  /\ reactions \subseteq Reactor \X Item \X React /\ visible \subseteq Reactor \X Item
  /\ user \in [Bar -> Reactor] /\ crossed \subseteq Bar /\ stale \subseteq Bar /\ clicked \subseteq Bar
  /\ bar \in [Bar -> BarState] /\ call \in [Bar -> CallState]
  /\ \A b \in Bar : call[b].pc # "idle" =>
                      call[b].of \in Item /\ (call[b].remove # Nil \/ call[b].add # Nil)

(* A state with one of its kinds first and each of them counted.                  *)
Sound(v) == v.first \in Firsts(v.kinds) /\ \A k \in v.kinds : v.counts[k] > 0

(* A state of the bar's item as the server has it for the bar's user.            *)
Counted(v, u, i) == \A k \in Mine(u, i) : v.counts[k] > 0
Right(v, u, i) == v.kinds = Mine(u, i) /\ v.first \in Firsts(v.kinds) /\ Counted(v, u, i)

(* Between two clicks: the bar is right or stale, or a load that will make it right is    *)
(* under way.                                                                     *)
Resting(b) ==
  /\ bar[b].load = "none" /\ b \notin stale => Right(bar[b].shown, user[b], bar[b].item)
  /\ bar[b].load = "counted" => Counted(bar[b].read, user[b], bar[b].item)
  /\ bar[b].load = "answered" => Right(bar[b].read, user[b], bar[b].item)

(* During a click: what is there before and after each of its requests, and what its  *)
(* answer says.                                                                    *)
Clicking(b) ==
  LET c == call[b]  mine == Mine(user[b], bar[b].item) IN
  /\ bar[b].load = "none" /\ c.of = bar[b].item
  /\ c.pc \in {"sent", "gated"} /\ b \notin clicked => mine \subseteq {c.remove}
  /\ c.pc \in {"written", "counted", "answered"} /\ b \notin clicked =>
       mine = (IF c.remove # Nil THEN {} ELSE {c.add})
  /\ c.pc = "counted" => Counted(c.answer, user[b], bar[b].item)
  /\ c.pc = "answered" => Right(c.answer, user[b], bar[b].item)

OneKind(b) == \A i \in Item : \A k, l \in Mine(user[b], i) : k = l

Settled(b) ==
  /\ b \notin clicked => OneKind(b)
  /\ Sound(bar[b].props)
  /\ IF call[b].pc = "idle" THEN Resting(b) ELSE Clicking(b)

BarInv == \A b \in Bar : Undisturbed(b) => Settled(b)

IInv == Shapes /\ BarInv

-----------------------------------------------------------------------------
(* Pieces of the state.                                                         *)

LEMMA Replaced ==
  ASSUME Shapes, NEW b \in Bar, NEW x \in BarState, bar' = [bar EXCEPT ![b] = x]
  PROVE  bar' \in [Bar -> BarState] /\ bar'[b] = x /\ \A a \in Bar \ {b} : bar'[a] = bar[a]
BY DEF Shapes

LEMMA Called ==
  ASSUME Shapes, NEW b \in Bar, NEW c \in CallState, call' = [call EXCEPT ![b] = c]
  PROVE  call' \in [Bar -> CallState] /\ call'[b] = c /\ \A a \in Bar \ {b} : call'[a] = call[a]
BY DEF Shapes

LEMMA CountsType ==
  ASSUME NEW i
  PROVE  /\ Counts(i) \in [React -> Nat]
         /\ \A k \in React, u \in Reactor : <<u, i, k>> \in reactions => Counts(i)[k] > 0
<1> DEFINE S(k) == {u \in Reactor : <<u, i, k>> \in reactions}
<1>1. \A k \in React : IsFiniteSet(S(k)) /\ Cardinality(S(k)) \in Nat
  <2> TAKE k \in React
  <2>1. S(k) \subseteq Reactor
    OBVIOUS
  <2> QED BY <2>1, FewUsers, FS_Subset, FS_CardinalityType
<1>2. \A k \in React : S(k) # {} => Cardinality(S(k)) > 0
  <2> TAKE k \in React
  <2>1. Cardinality(S(k)) = 0 <=> S(k) = {}
    BY <1>1, FS_EmptySet
  <2>2. Cardinality(S(k)) \in Nat
    BY <1>1
  <2> HIDE DEF S
  <2> QED BY <2>1, <2>2
<1>3. Counts(i) = [k \in React |-> Cardinality(S(k))]
  BY DEF Counts
<1>4. \A k \in React, u \in Reactor : <<u, i, k>> \in reactions => S(k) # {}
  OBVIOUS
<1> HIDE DEF S
<1> QED BY <1>1, <1>2, <1>3, <1>4

LEMMA MineType ==
  ASSUME NEW u, NEW i
  PROVE  Mine(u, i) \subseteq React /\ Nil \notin Mine(u, i)
BY NilIsNoKind DEF Mine

LEMMA BlankView ==
  Blank \in View /\ Idle \in CallState /\ Idle.pc = "idle"
BY DEF Blank, View, Idle, CallState, Kind

LEMMA BlankIsSound ==
  Sound(Blank)
BY DEF Sound, Blank, Firsts

LEMMA GuessType ==
  ASSUME NEW v \in View, NEW k \in Kind
  PROVE  Without(v, k) \in View /\ With(v, k) \in View
<1>1. CASE k = Nil
  BY <1>1 DEF Without, With
<1>2. CASE k # Nil
  <2>1. k \in React /\ v.counts \in [React -> Nat] /\ v.counts[k] \in Nat
    BY <1>2 DEF Kind, View
  <2> DEFINE less == IF v.counts[k] = 0 THEN 0 ELSE v.counts[k] - 1
  <2>2. less \in Nat /\ v.counts[k] + 1 \in Nat
    BY <2>1
  <2>3. /\ Without(v, k) = [v EXCEPT !.counts = [v.counts EXCEPT ![k] = less], !.kinds = v.kinds \ {k}]
        /\ With(v, k) = [v EXCEPT !.counts = [v.counts EXCEPT ![k] = v.counts[k] + 1],
                                  !.kinds = v.kinds \cup {k}, !.first = k]
    BY <1>2, <2>1 DEF Without, With, View
  <2> HIDE DEF less
  <2>4. /\ [v.counts EXCEPT ![k] = less] \in [React -> Nat]
        /\ [v.counts EXCEPT ![k] = v.counts[k] + 1] \in [React -> Nat]
    BY <2>1, <2>2
  <2> QED BY <2>1, <2>3, <2>4 DEF View
<1> QED BY <1>1, <1>2

(* An undisturbed bar is the only one of its user, and what others do leaves it alone. *)
LEMMA StepOfBar ==
  ASSUME IInv, NEW b \in Bar, UNCHANGED user, crossed \subseteq crossed',
         \A a \in Bar \ {b} : /\ bar'[a] = bar[a] /\ call'[a] = call[a]
                             /\ (a \in stale' <=> a \in stale) /\ (a \in clicked' <=> a \in clicked),
         \A u \in Reactor, i \in Item : u # user[b] => Mine(u, i)' = Mine(u, i),
         Undisturbed(b)' => Settled(b)'
  PROVE  BarInv'
<1> SUFFICES ASSUME NEW a \in Bar, Undisturbed(a)', a # b
             PROVE  Settled(a)'
  BY DEF BarInv
<1>1. Undisturbed(a) /\ user[a] # user[b] /\ user[a] \in Reactor /\ bar[a].item \in Item
  BY DEF Undisturbed, IInv, Shapes, BarState
<1>2. /\ bar'[a] = bar[a] /\ call'[a] = call[a] /\ user'[a] = user[a]
      /\ (a \in stale' <=> a \in stale) /\ (a \in clicked' <=> a \in clicked)
      /\ \A i \in Item : Mine(user[a], i)' = Mine(user[a], i)
  BY <1>1
<1>3. Settled(a)
  BY <1>1 DEF IInv, BarInv
<1>4. OneKind(a) => OneKind(a)'
  BY <1>2 DEF OneKind
<1>5. Resting(a) => Resting(a)'
  BY <1>1, <1>2 DEF Resting, Right, Counted
<1>6. Clicking(a) => Clicking(a)'
  BY <1>1, <1>2 DEF Clicking, Right, Counted
<1>7. Sound(bar[a].props) => Sound(bar[a].props)'
  BY <1>2 DEF Sound
<1> QED BY <1>2, <1>3, <1>4, <1>5, <1>6, <1>7 DEF Settled

(* A step that writes no row.                                                       *)
LEMMA QuietStep ==
  ASSUME IInv, NEW b \in Bar, UNCHANGED <<reactions, user>>, crossed \subseteq crossed',
         clicked \subseteq clicked',
         \A a \in Bar \ {b} : /\ bar'[a] = bar[a] /\ call'[a] = call[a]
                             /\ (a \in stale' <=> a \in stale) /\ (a \in clicked' <=> a \in clicked),
         Undisturbed(b) /\ b \notin crossed' =>
           /\ Sound(bar'[b].props)
           /\ IF call'[b].pc = "idle" THEN Resting(b)' ELSE Clicking(b)'
  PROVE  BarInv'
<1>1. \A u \in Reactor, i \in Item : Mine(u, i)' = Mine(u, i)
  BY DEF Mine
<1>2. ASSUME Undisturbed(b)' PROVE Settled(b)'
  <2>1. Undisturbed(b) /\ b \notin crossed'
    BY <1>2 DEF Undisturbed
  <2>2. b \notin clicked => OneKind(b)
    BY <2>1 DEF IInv, BarInv, Settled
  <2>3. user[b] \in Reactor
    BY DEF IInv, Shapes
  <2>4. OneKind(b) => OneKind(b)'
    BY <1>1, <2>3 DEF OneKind
  <2>5. b \notin clicked' => b \notin clicked
    OBVIOUS
  <2>6. Sound(bar'[b].props) /\ (IF call'[b].pc = "idle" THEN Resting(b)' ELSE Clicking(b)')
    BY <2>1
  <2> QED BY <2>2, <2>4, <2>5, <2>6 DEF Settled
<1> QED BY <1>1, <1>2, StepOfBar

-----------------------------------------------------------------------------
(* The click.                                                                     *)

LEMMA ClickStep ==
  ASSUME IInv, NEW b \in Bar, NEW k \in React, Click(b, k)
  PROVE  IInv'
<1> DEFINE was == bar[b].shown.first
           add == IF k = was THEN Nil ELSE k
           guess == With(Without(bar[b].shown, was), add)
           c == [Idle EXCEPT !.pc = "sent", !.of = bar[b].item, !.remove = was, !.add = add,
                             !.props = bar[b].props]
<1>1. /\ call[b].pc = "idle" /\ call' = [call EXCEPT ![b] = c]
      /\ crossed' = IF bar[b].load = "none" THEN crossed ELSE crossed \cup {b}
      /\ clicked' = clicked \cup ({b} \cap stale)
      /\ UNCHANGED <<reactions, visible, user, stale>>
  BY DEF Click
<1>2. PICK f \in Firsts(guess.kinds) :
        bar' = [bar EXCEPT ![b].shown = [guess EXCEPT !.first = IF add = Nil THEN f ELSE add]]
  BY DEF Click
<1>3. /\ bar[b] \in BarState /\ bar[b].item \in Item /\ bar[b].props \in View /\ bar[b].shown \in View
      /\ was \in Kind /\ add \in Kind
  BY DEF IInv, Shapes, BarState, View, Kind
<1>4. guess \in View
  BY <1>3, GuessType
<1>5. c \in CallState /\ c.pc = "sent" /\ c.of = bar[b].item /\ c.remove = was /\ c.add = add
  BY <1>3, BlankView DEF CallState
<1>6. add = Nil => was # Nil
  BY NilIsNoKind
<1> HIDE DEF c, add, was
<1>7. f \in Kind
  BY <1>4 DEF Firsts, View, Kind
<1> DEFINE view == [guess EXCEPT !.first = IF add = Nil THEN f ELSE add]
           x == [bar[b] EXCEPT !.shown = view]
<1>8. view \in View
  BY <1>3, <1>4, <1>7 DEF View, Kind
<1>9. bar' = [bar EXCEPT ![b] = x]
  BY <1>2
<1> HIDE DEF view, guess
<1>10. x \in BarState /\ x.item = bar[b].item /\ x.load = bar[b].load /\ x.props = bar[b].props
  BY <1>3, <1>8 DEF BarState
<1> HIDE DEF x
<1>11. /\ bar' \in [Bar -> BarState] /\ bar'[b] = x /\ \A a \in Bar \ {b} : bar'[a] = bar[a]
       /\ call' \in [Bar -> CallState] /\ call'[b] = c /\ \A a \in Bar \ {b} : call'[a] = call[a]
  BY <1>1, <1>5, <1>9, <1>10, Replaced, Called DEF IInv
<1>12. Shapes'
  BY <1>1, <1>3, <1>5, <1>6, <1>11 DEF IInv, Shapes
<1>13. ASSUME Undisturbed(b), b \notin crossed' PROVE Clicking(b)' /\ Sound(bar'[b].props)
  <2>1. /\ bar[b].load = "none" /\ Sound(bar[b].props)
        /\ b \notin clicked' => Right(bar[b].shown, user[b], bar[b].item) /\ OneKind(b)
    BY <1>1, <1>13 DEF IInv, BarInv, Settled, Resting
  <2>2. b \notin clicked' => Mine(user[b], bar[b].item) \subseteq {was}
    BY <1>3, <2>1 DEF Right, Firsts, OneKind, was
  <2>3. Mine(user[b], bar[b].item)' = Mine(user[b], bar[b].item)
    BY <1>1, <1>10, <1>11 DEF Mine
  <2> QED BY <1>5, <1>6, <1>10, <1>11, <2>1, <2>2, <2>3 DEF Clicking
<1>14. BarInv'
  BY <1>1, <1>5, <1>11, <1>13, QuietStep
<1> QED BY <1>12, <1>14 DEF IInv

-----------------------------------------------------------------------------
(* The requests of a click.                                                        *)

(* The call of one bar goes on, the bar as it is.                                   *)
LEMMA CallStep ==
  ASSUME IInv, NEW b \in Bar, NEW c \in CallState, call' = [call EXCEPT ![b] = c], call[b].pc # "idle",
         c.pc # "idle", c.of = call[b].of, c.remove # Nil \/ c.add # Nil,
         UNCHANGED <<reactions, visible, user, bar, crossed, stale, clicked>>,
         Undisturbed(b) /\ Clicking(b) => Clicking(b)'
  PROVE  IInv'
<1>1. call' \in [Bar -> CallState] /\ call'[b] = c /\ \A a \in Bar \ {b} : call'[a] = call[a]
  BY Called DEF IInv
<1>2. Shapes'
  BY <1>1 DEF IInv, Shapes
<1>3. Undisturbed(b) => Clicking(b) /\ Sound(bar[b].props)
  BY DEF IInv, BarInv, Settled
<1>4. BarInv'
  BY <1>1, <1>3, QuietStep
<1> QED BY <1>2, <1>4 DEF IInv

LEMMA GateStep ==
  ASSUME IInv, NEW b \in Bar, Gate(b)
  PROVE  IInv'
<1> DEFINE c == [call[b] EXCEPT !.pc = "gated"]
<1>1. /\ call[b] \in CallState /\ call[b].pc = "sent"
      /\ call[b].remove # Nil \/ call[b].add # Nil
  BY DEF Gate, IInv, Shapes
<1>2. call' = [call EXCEPT ![b] = c] /\ UNCHANGED <<reactions, visible, user, bar, crossed, stale, clicked>>
  BY DEF Gate
<1>3. /\ c \in CallState /\ c.pc = "gated" /\ c.of = call[b].of /\ c.remove = call[b].remove
      /\ c.add = call[b].add
  BY <1>1 DEF CallState
<1> HIDE DEF c
<1>4. call'[b] = c
  BY <1>2, <1>3, Called DEF IInv
<1>5. Mine(user[b], bar[b].item)' = Mine(user[b], bar[b].item)
  BY <1>2 DEF Mine
<1>6. Clicking(b) => Clicking(b)'
  BY <1>1, <1>2, <1>3, <1>4, <1>5 DEF Clicking
<1> QED BY <1>1, <1>2, <1>3, <1>6, CallStep

LEMMA ReadCountsStep ==
  ASSUME IInv, NEW b \in Bar, ReadCounts(b)
  PROVE  IInv'
<1> DEFINE ans == [call[b].answer EXCEPT !.counts = Counts(call[b].of)]
           c == [call[b] EXCEPT !.pc = "counted", !.answer = ans]
<1>1. /\ call[b] \in CallState /\ call[b].pc = "written" /\ call[b].answer \in View
      /\ call[b].remove # Nil \/ call[b].add # Nil
  BY DEF ReadCounts, IInv, Shapes, CallState
<1>2. call' = [call EXCEPT ![b] = c] /\ UNCHANGED <<reactions, visible, user, bar, crossed, stale, clicked>>
  BY DEF ReadCounts
<1>3. ans \in View /\ ans.counts = Counts(call[b].of)
  BY <1>1, CountsType DEF View
<1> HIDE DEF ans
<1>4. /\ c \in CallState /\ c.pc = "counted" /\ c.of = call[b].of /\ c.remove = call[b].remove
      /\ c.add = call[b].add /\ c.answer = ans
  BY <1>1, <1>3 DEF CallState
<1> HIDE DEF c
<1>5. call'[b] = c
  BY <1>2, <1>4, Called DEF IInv
<1>6. Mine(user[b], bar[b].item)' = Mine(user[b], bar[b].item)
  BY <1>2 DEF Mine
<1>7. ASSUME Clicking(b) PROVE Counted(ans, user[b], bar[b].item)
  <2>1. call[b].of = bar[b].item /\ user[b] \in Reactor
    BY <1>7 DEF Clicking, IInv, Shapes
  <2> QED BY <1>3, <2>1, CountsType DEF Counted, Mine
<1>8. Clicking(b) => Clicking(b)'
  BY <1>1, <1>2, <1>4, <1>5, <1>6, <1>7 DEF Clicking, Counted
<1> QED BY <1>1, <1>2, <1>4, <1>8, CallStep

LEMMA ReadMineStep ==
  ASSUME IInv, NEW b \in Bar, ReadMine(b)
  PROVE  IInv'
<1> DEFINE mine == Mine(user[b], call[b].of)
<1>1. /\ call[b] \in CallState /\ call[b].pc = "counted" /\ call[b].answer \in View
      /\ call[b].remove # Nil \/ call[b].add # Nil
      /\ UNCHANGED <<reactions, visible, user, bar, crossed, stale, clicked>>
  BY DEF ReadMine, IInv, Shapes, CallState
<1>2. PICK f \in Firsts(mine) :
        call' = [call EXCEPT ![b].pc = "answered", ![b].answer.kinds = mine, ![b].answer.first = f]
  BY DEF ReadMine
<1> DEFINE ans == [call[b].answer EXCEPT !.kinds = mine, !.first = f]
           c == [call[b] EXCEPT !.pc = "answered", !.answer = ans]
<1>3. call' = [call EXCEPT ![b] = c]
  BY <1>2
<1>4. mine \subseteq React /\ f \in Kind
  BY MineType DEF Firsts, Kind
<1> HIDE DEF mine
<1>5. ans \in View /\ ans.kinds = mine /\ ans.first = f /\ ans.counts = call[b].answer.counts
  BY <1>1, <1>4 DEF View, Kind
<1> HIDE DEF ans
<1>6. /\ c \in CallState /\ c.pc = "answered" /\ c.of = call[b].of /\ c.remove = call[b].remove
      /\ c.add = call[b].add /\ c.answer = ans
  BY <1>1, <1>5 DEF CallState
<1> HIDE DEF c
<1>7. call'[b] = c
  BY <1>3, <1>6, Called DEF IInv
<1>8. Mine(user[b], bar[b].item)' = Mine(user[b], bar[b].item)
  BY <1>1 DEF Mine
<1>9. ASSUME Clicking(b) PROVE Right(ans, user[b], bar[b].item)
  <2>1. call[b].of = bar[b].item /\ Counted(call[b].answer, user[b], bar[b].item)
    BY <1>1, <1>9 DEF Clicking
  <2> QED BY <1>2, <1>5, <2>1 DEF Right, Counted, mine
<1>10. Clicking(b) => Clicking(b)'
  BY <1>1, <1>6, <1>7, <1>8, <1>9 DEF Clicking, Right, Counted
<1> QED BY <1>1, <1>3, <1>6, <1>10, CallStep

(* Each request changes the rows of its own user on the item it is about.              *)
LEMMA WriteStep ==
  ASSUME IInv, NEW b \in Bar, WriteReaction(b)
  PROVE  IInv'
<1> DEFINE c == [call[b] EXCEPT !.pc = "written"]
           kind == IF call[b].remove # Nil THEN call[b].remove ELSE call[b].add
           row == <<user[b], call[b].of, kind>>
<1>1. /\ call[b] \in CallState /\ call[b].pc = "gated" /\ user[b] \in Reactor /\ call[b].of \in Item
      /\ call' = [call EXCEPT ![b] = c] /\ UNCHANGED <<visible, user, bar, crossed, stale, clicked>>
  BY DEF WriteReaction, IInv, Shapes
<1>2. reactions' = IF call[b].remove # Nil THEN reactions \ {row} ELSE reactions \cup {row}
  BY DEF WriteReaction, Turn, Removed, Added
<1>3. /\ c \in CallState /\ c.pc = "written" /\ c.of = call[b].of /\ c.remove = call[b].remove
      /\ c.add = call[b].add
  BY <1>1 DEF CallState
<1>4. call[b].remove = Nil => call[b].add \in React
  BY <1>1 DEF IInv, Shapes, CallState, Kind
<1> HIDE DEF c
<1>5. call' \in [Bar -> CallState] /\ call'[b] = c /\ \A a \in Bar \ {b} : call'[a] = call[a]
  BY <1>1, <1>3, Called DEF IInv
<1>6. Shapes'
  <2>1. reactions' \subseteq Reactor \X Item \X React
    BY <1>1, <1>2, <1>4 DEF IInv, Shapes
  <2> QED BY <1>1, <1>3, <1>5, <2>1 DEF IInv, Shapes
<1>7. \A u \in Reactor, i \in Item : u # user[b] \/ i # call[b].of => Mine(u, i)' = Mine(u, i)
  <2> SUFFICES ASSUME NEW u \in Reactor, NEW i \in Item, u # user[b] \/ i # call[b].of
               PROVE  \A k \in React : <<u, i, k>> \in reactions' <=> <<u, i, k>> \in reactions
    BY DEF Mine
  <2>1. \A k \in React : <<u, i, k>> # row
    OBVIOUS
  <2> QED BY <1>2, <2>1
<1>8. PICK u \in Reactor, i \in Item : u = user[b] /\ i = call[b].of
  BY <1>1
<1>9. Mine(u, i)' = (IF call[b].remove # Nil THEN Mine(u, i) \ {call[b].remove}
                                            ELSE Mine(u, i) \cup {call[b].add})
  <2>1. \A k \in React : <<u, i, k>> = row <=> k = kind
    BY <1>8
  <2> HIDE DEF row
  <2>2. CASE call[b].remove # Nil
    <3>1. \A k \in React : <<u, i, k>> \in reactions' <=> <<u, i, k>> \in reactions /\ k # call[b].remove
      BY <1>2, <2>1, <2>2
    <3> QED BY <1>1, <2>2, <3>1 DEF Mine
  <2>3. CASE call[b].remove = Nil
    <3>1. \A k \in React : <<u, i, k>> \in reactions' <=> <<u, i, k>> \in reactions \/ k = call[b].add
      BY <1>2, <2>1, <2>3
    <3> QED BY <1>1, <1>4, <2>3, <3>1 DEF Mine
  <2> QED BY <2>2, <2>3
<1>10. ASSUME Undisturbed(b)' PROVE Settled(b)'
  <2>1. Undisturbed(b) /\ (b \notin clicked => OneKind(b)) /\ Clicking(b) /\ Sound(bar[b].props)
    BY <1>1, <1>10 DEF Undisturbed, IInv, BarInv, Settled
  <2>2. /\ call[b].of = bar[b].item /\ bar[b].load = "none"
        /\ b \notin clicked => Mine(u, i) \subseteq {call[b].remove}
    BY <1>1, <1>8, <2>1 DEF Clicking
  <2>3. b \notin clicked => Mine(u, i)' = (IF call[b].remove # Nil THEN {} ELSE {call[b].add})
    BY <1>9, <2>2, MineType
  <2>4. b \notin clicked => OneKind(b)'
    <3> SUFFICES ASSUME NEW j \in Item, b \notin clicked PROVE \A k, l \in Mine(u, j)' : k = l
      BY <1>1, <1>8 DEF OneKind
    <3>1. CASE j = i
      BY <2>3, <3>1
    <3>2. CASE j # i
      BY <1>7, <1>8, <2>1, <3>2 DEF OneKind
    <3> QED BY <3>1, <3>2
  <2>5. Clicking(b)'
    <3>1. Mine(user[b], bar[b].item)' = Mine(u, i)'
      BY <1>1, <1>8, <2>2
    <3> QED BY <1>1, <1>3, <1>5, <2>2, <2>3, <3>1 DEF Clicking
  <2> QED BY <1>1, <1>3, <1>5, <2>1, <2>4, <2>5 DEF Settled
<1>11. BarInv'
  <2>1. \A v \in Reactor, j \in Item : v # user[b] => Mine(v, j)' = Mine(v, j)
    BY <1>7
  <2> QED BY <1>1, <1>3, <1>5, <1>10, <2>1, StepOfBar
<1> QED BY <1>6, <1>11 DEF IInv

(* The answer: the next request, or the bar at rest with what the last one said.         *)
LEMMA ArriveStep ==
  ASSUME IInv, NEW b \in Bar, Arrive(b)
  PROVE  IInv'
<1> DEFINE left == IF call[b].remove # Nil THEN [call[b] EXCEPT !.remove = Nil]
                                           ELSE [call[b] EXCEPT !.add = Nil]
           last == left.remove = Nil /\ left.add = Nil
           c == IF last THEN Idle ELSE [left EXCEPT !.pc = "sent"]
           x == IF last THEN [bar[b] EXCEPT !.shown = call[b].answer] ELSE bar[b]
<1>1. /\ call[b] \in CallState /\ call[b].pc = "answered" /\ bar[b] \in BarState
      /\ call[b].of \in Item /\ UNCHANGED <<reactions, visible, user, crossed, clicked>>
  BY DEF Arrive, IInv, Shapes
<1>2. call' = [call EXCEPT ![b] = c]
  BY DEF Arrive, Turn
<1>3. bar' = [bar EXCEPT ![b] = x]
  <2>1. bar' = IF last THEN [bar EXCEPT ![b].shown = call[b].answer] ELSE bar
    BY DEF Arrive, Turn
  <2>2. bar = [bar EXCEPT ![b] = bar[b]]
    BY DEF IInv, Shapes
  <2> QED BY <2>1, <2>2
<1>4. /\ left \in CallState /\ left.of = call[b].of
      /\ left.remove = Nil /\ left.add = (IF call[b].remove # Nil THEN call[b].add ELSE Nil)
  BY <1>1 DEF CallState, Kind
<1> HIDE DEF left
<1>5. CASE last
  <2>1. /\ c = Idle /\ x \in BarState /\ x.item = bar[b].item /\ x.load = bar[b].load
        /\ x.shown = call[b].answer /\ x.props = bar[b].props
    BY <1>1, <1>5 DEF BarState, CallState
  <2>6. stale' = stale \ {b}
    BY <1>5 DEF Arrive, Turn, left
  <2> HIDE DEF c, x
  <2>2. /\ bar' \in [Bar -> BarState] /\ bar'[b] = x /\ \A a \in Bar \ {b} : bar'[a] = bar[a]
        /\ call' \in [Bar -> CallState] /\ call'[b] = Idle /\ \A a \in Bar \ {b} : call'[a] = call[a]
    BY <1>2, <1>3, <2>1, BlankView, Replaced, Called DEF IInv
  <2>3. Shapes'
    BY <1>1, <2>2, <2>6, BlankView DEF IInv, Shapes
  <2>4. ASSUME Undisturbed(b) PROVE Resting(b)' /\ Sound(bar'[b].props)
    <3>1. Clicking(b) /\ Sound(bar[b].props)
      BY <1>1, <2>4 DEF IInv, BarInv, Settled
    <3>2. bar[b].load = "none" /\ Right(x.shown, user[b], bar[b].item)
      BY <1>1, <2>1, <3>1 DEF Clicking
    <3>3. Mine(user[b], bar[b].item)' = Mine(user[b], bar[b].item)
      BY <1>1, <2>1, <2>2 DEF Mine
    <3> QED BY <1>1, <2>1, <2>2, <3>1, <3>2, <3>3 DEF Resting, Right, Counted
  <2>5. BarInv'
    BY <1>1, <2>2, <2>4, <2>6, BlankView, QuietStep
  <2> QED BY <2>3, <2>5 DEF IInv
<1>6. CASE ~last
  <2>1. /\ x = bar[b] /\ c \in CallState /\ c.pc = "sent" /\ c.of = call[b].of /\ c.remove = Nil
        /\ c.add = call[b].add /\ c.add # Nil /\ call[b].remove # Nil
    BY <1>1, <1>4, <1>6 DEF CallState
  <2>2. bar' = bar /\ stale' = stale
    <3>1. bar' = bar
      BY <1>3, <2>1 DEF IInv, Shapes
    <3>2. stale' = stale
      BY <1>6 DEF Arrive, Turn, left
    <3> QED BY <3>1, <3>2
  <2> HIDE DEF c, x, last
  <2>3. call'[b] = c
    BY <1>2, <2>1, Called DEF IInv
  <2>4. Mine(user[b], bar[b].item)' = Mine(user[b], bar[b].item)
    BY <1>1, <2>2 DEF Mine
  <2>5. Clicking(b) => Clicking(b)'
    BY <1>1, <2>1, <2>2, <2>3, <2>4 DEF Clicking
  <2> QED BY <1>1, <1>2, <2>1, <2>2, <2>5, CallStep
<1> QED BY <1>5, <1>6

LEMMA CallFailsStep ==
  ASSUME IInv, NEW b \in Bar, CallFails(b)
  PROVE  IInv'
<1> DEFINE x == [bar[b] EXCEPT !.shown = call[b].props]
<1>1. /\ call' = [call EXCEPT ![b] = Idle] /\ bar' = [bar EXCEPT ![b] = x]
      /\ crossed' = crossed \cup {b} /\ UNCHANGED <<reactions, visible, user, stale, clicked>>
  BY DEF CallFails
<1>2. x \in BarState
  BY DEF IInv, Shapes, BarState, CallState
<1> HIDE DEF x
<1>3. /\ bar' \in [Bar -> BarState] /\ \A a \in Bar \ {b} : bar'[a] = bar[a]
      /\ call' \in [Bar -> CallState] /\ call'[b] = Idle /\ \A a \in Bar \ {b} : call'[a] = call[a]
  BY <1>1, <1>2, BlankView, Replaced, Called DEF IInv
<1>4. Shapes'
  BY <1>1, <1>3, BlankView DEF IInv, Shapes
<1>5. BarInv'
  BY <1>1, <1>3, QuietStep
<1> QED BY <1>4, <1>5 DEF IInv

-----------------------------------------------------------------------------
(* The loads of a lightbox's panel.                                                   *)

(* A bar loads, its call as it is; a bar that loads and clicks has crossed.               *)
LEMMA LoadStep ==
  ASSUME IInv, NEW b \in Bar, NEW x \in BarState, bar' = [bar EXCEPT ![b] = x],
         crossed' \in SUBSET Bar, crossed \subseteq crossed', stale' \in SUBSET Bar,
         stale' \ {b} = stale \ {b}, UNCHANGED <<reactions, visible, user, call, clicked>>,
         b \notin crossed' /\ Undisturbed(b) => call[b].pc = "idle",
         b \notin crossed' /\ Undisturbed(b) /\ Resting(b) /\ Sound(bar[b].props) =>
           Resting(b)' /\ Sound(x.props)
  PROVE  IInv'
<1>1. bar' \in [Bar -> BarState] /\ bar'[b] = x /\ \A a \in Bar \ {b} : bar'[a] = bar[a]
  BY Replaced DEF IInv
<1>2. Shapes'
  BY <1>1 DEF IInv, Shapes
<1>3. b \notin crossed' /\ Undisturbed(b) => call'[b].pc = "idle" /\ Resting(b)' /\ Sound(bar'[b].props)
  BY <1>1 DEF IInv, BarInv, Settled
<1>4. \A a \in Bar \ {b} : a \in stale' <=> a \in stale
  OBVIOUS
<1>5. BarInv'
  BY <1>1, <1>3, <1>4, QuietStep
<1> QED BY <1>2, <1>5 DEF IInv

LEMMA LoadingIsIdle ==
  ASSUME IInv, NEW b \in Bar, Undisturbed(b), bar[b].load # "none"
  PROVE  call[b].pc = "idle"
BY DEF IInv, BarInv, Settled, Clicking

LEMMA MoveStep ==
  ASSUME IInv, NEW b \in Bar, NEW i \in Item, Move(b, i)
  PROVE  IInv'
<1> DEFINE x == Loading(bar[b], i)
<1>1. /\ bar' = [bar EXCEPT ![b] = x]
      /\ crossed' = IF call[b].pc = "idle" THEN crossed ELSE crossed \cup {b}
      /\ UNCHANGED <<reactions, visible, user, call, stale, clicked>>
      /\ crossed \subseteq Bar /\ stale \subseteq Bar
  BY DEF Move, IInv, Shapes
<1>2. x \in BarState /\ x.load = "sent" /\ x.props = bar[b].props
  BY BlankView DEF IInv, Shapes, BarState, Loading
<1> HIDE DEF x
<1>3. bar'[b] = x
  BY <1>1, <1>2, Replaced DEF IInv
<1>4. Resting(b)'
  BY <1>2, <1>3 DEF Resting
<1> QED BY <1>1, <1>2, <1>3, <1>4, LoadStep

LEMMA LoadCountsStep ==
  ASSUME IInv, NEW b \in Bar, LoadCounts(b)
  PROVE  IInv'
<1> DEFINE v == [bar[b].read EXCEPT !.counts = Counts(bar[b].item)]
           x == [bar[b] EXCEPT !.load = "counted", !.read = v]
<1>1. /\ bar[b].load = "sent" /\ bar' = [bar EXCEPT ![b] = x] /\ bar[b] \in BarState /\ bar[b].read \in View
      /\ UNCHANGED <<reactions, visible, user, call, crossed, stale, clicked>>
      /\ crossed \subseteq Bar /\ stale \subseteq Bar /\ user[b] \in Reactor
  BY DEF LoadCounts, IInv, Shapes, BarState
<1>2. v \in View /\ v.counts = Counts(bar[b].item)
  BY <1>1, CountsType DEF View
<1> HIDE DEF v
<1>3. /\ x \in BarState /\ x.load = "counted" /\ x.item = bar[b].item /\ x.read = v
      /\ x.props = bar[b].props
  BY <1>1, <1>2 DEF BarState
<1> HIDE DEF x
<1>4. bar'[b] = x
  BY <1>1, <1>3, Replaced DEF IInv
<1>5. Counted(v, user[b], bar[b].item)
  BY <1>1, <1>2, CountsType DEF Counted, Mine
<1>6. Mine(user[b], bar[b].item)' = Mine(user[b], bar[b].item)
  BY <1>1, <1>3, <1>4 DEF Mine
<1>7. Resting(b)'
  BY <1>1, <1>3, <1>4, <1>5, <1>6 DEF Resting, Counted
<1> QED BY <1>1, <1>3, <1>7, LoadingIsIdle, LoadStep

LEMMA LoadMineStep ==
  ASSUME IInv, NEW b \in Bar, LoadMine(b)
  PROVE  IInv'
<1> DEFINE mine == Mine(user[b], bar[b].item)
<1>1. /\ bar[b].load = "counted" /\ bar[b] \in BarState /\ bar[b].read \in View
      /\ UNCHANGED <<reactions, visible, user, call, crossed, stale, clicked>>
      /\ crossed \subseteq Bar /\ stale \subseteq Bar
  BY DEF LoadMine, IInv, Shapes, BarState
<1>2. PICK f \in Firsts(mine) :
        bar' = [bar EXCEPT ![b].load = "answered", ![b].read.kinds = mine, ![b].read.first = f]
  BY DEF LoadMine
<1> DEFINE v == [bar[b].read EXCEPT !.kinds = mine, !.first = f]
           x == [bar[b] EXCEPT !.load = "answered", !.read = v]
<1>3. bar' = [bar EXCEPT ![b] = x]
  BY <1>2
<1>4. mine \subseteq React /\ f \in Kind
  BY MineType DEF Firsts, Kind
<1> HIDE DEF mine
<1>5. v \in View /\ v.kinds = mine /\ v.first = f /\ v.counts = bar[b].read.counts
  BY <1>1, <1>4 DEF View, Kind
<1> HIDE DEF v
<1>6. /\ x \in BarState /\ x.load = "answered" /\ x.item = bar[b].item /\ x.read = v
      /\ x.props = bar[b].props
  BY <1>1, <1>5 DEF BarState
<1> HIDE DEF x
<1>7. bar'[b] = x
  BY <1>3, <1>6, Replaced DEF IInv
<1>8. Mine(user[b], bar[b].item)' = Mine(user[b], bar[b].item)
  BY <1>1, <1>6, <1>7 DEF Mine
<1>9. Resting(b) => Right(v, user[b], bar[b].item)
  BY <1>1, <1>2, <1>5 DEF Resting, Right, Counted, mine
<1>10. Resting(b) => Resting(b)'
  BY <1>1, <1>6, <1>7, <1>8, <1>9 DEF Resting, Right, Counted
<1> QED BY <1>1, <1>3, <1>6, <1>10, LoadingIsIdle, LoadStep

LEMMA LoadedShape ==
  ASSUME NEW v \in View, NEW i \in Item
  PROVE  /\ Loaded(v, i) \in BarState /\ Loaded(v, i).item = i /\ Loaded(v, i).load = "none"
         /\ Loaded(v, i).shown = v /\ Loaded(v, i).props = v
BY BlankView DEF Loaded, BarState

LEMMA LoadArrivesStep ==
  ASSUME IInv, NEW b \in Bar, LoadArrives(b)
  PROVE  IInv'
<1> DEFINE x == Loaded(bar[b].read, bar[b].item)
<1>1. /\ bar[b].load = "answered" /\ bar' = [bar EXCEPT ![b] = x]
      /\ bar[b].read \in View /\ bar[b].item \in Item /\ crossed \subseteq Bar /\ stale \subseteq Bar
      /\ UNCHANGED <<reactions, visible, user, call, crossed, stale, clicked>>
  BY DEF LoadArrives, Sync, IInv, Shapes, BarState
<1>2. /\ x \in BarState /\ x.item = bar[b].item /\ x.load = "none" /\ x.shown = bar[b].read
      /\ x.props = bar[b].read
  BY <1>1, LoadedShape
<1> HIDE DEF x
<1>3. bar'[b] = x
  BY <1>1, <1>2, Replaced DEF IInv
<1>4. Mine(user[b], bar[b].item)' = Mine(user[b], bar[b].item)
  BY <1>1, <1>2, <1>3 DEF Mine
<1>5. Resting(b) => Resting(b)' /\ Sound(x.props)
  BY <1>1, <1>2, <1>3, <1>4 DEF Resting, Right, Counted, Sound
<1> QED BY <1>1, <1>2, <1>5, LoadingIsIdle, LoadStep

LEMMA LoadFailsStep ==
  ASSUME IInv, NEW b \in Bar, LoadFails(b)
  PROVE  IInv'
<1> DEFINE x == Loaded(Blank, bar[b].item)
<1>1. /\ bar' = [bar EXCEPT ![b] = x] /\ crossed' = crossed \cup {b} /\ crossed \subseteq Bar
      /\ bar[b].item \in Item /\ UNCHANGED <<reactions, visible, user, call, stale, clicked>>
      /\ stale \subseteq Bar
  BY DEF LoadFails, Sync, IInv, Shapes, BarState
<1>2. x \in BarState
  BY <1>1, BlankView, LoadedShape
<1> HIDE DEF x
<1> QED BY <1>1, <1>2, LoadStep

(* A bar goes.                                                                       *)
LEMMA LeaveStep ==
  ASSUME IInv, NEW b \in Bar, Leave(b)
  PROVE  IInv'
<1> DEFINE x == [bar[b] EXCEPT !.load = "away"]
<1>1. /\ bar' = [bar EXCEPT ![b] = x]
      /\ crossed' = IF call[b].pc = "idle" THEN crossed ELSE crossed \cup {b}
      /\ UNCHANGED <<reactions, visible, user, call, stale, clicked>>
      /\ crossed \subseteq Bar /\ stale \subseteq Bar
  BY DEF Leave, IInv, Shapes
<1>2. x \in BarState /\ x.load = "away" /\ x.props = bar[b].props
  BY DEF IInv, Shapes, BarState
<1> HIDE DEF x
<1>3. bar'[b] = x
  BY <1>1, <1>2, Replaced DEF IInv
<1>4. Resting(b)'
  BY <1>2, <1>3 DEF Resting
<1> QED BY <1>1, <1>2, <1>3, <1>4, LoadStep

(* It comes back: sound, and right unless it has become stale.                        *)
LEMMA ReturnStep ==
  ASSUME IInv, NEW b \in Bar, Return(b)
  PROVE  IInv'
<1>1. PICK v \in {bar[b].props} \cup (IF b \in Editable THEN {Blank} ELSE {}) :
        /\ bar' = [bar EXCEPT ![b] = Loaded(v, bar[b].item)]
        /\ stale' = IF v.kinds = Mine(user[b], bar[b].item) THEN stale \ {b} ELSE stale \cup {b}
  BY DEF Return
<1>2. /\ call[b].pc = "idle" /\ UNCHANGED <<reactions, visible, user, call, crossed, clicked>>
      /\ crossed \subseteq Bar /\ stale \subseteq Bar /\ bar[b].item \in Item /\ bar[b].props \in View
  BY DEF Return, IInv, Shapes, BarState
<1>3. v \in View /\ (Sound(bar[b].props) => Sound(v))
  BY <1>2, BlankView, BlankIsSound
<1> DEFINE x == Loaded(v, bar[b].item)
<1>4. /\ x \in BarState /\ x.item = bar[b].item /\ x.load = "none" /\ x.shown = v /\ x.props = v
  BY <1>2, <1>3, LoadedShape
<1> HIDE DEF x
<1>5. bar' = [bar EXCEPT ![b] = x]
  BY <1>1 DEF x
<1>6. bar'[b] = x
  BY <1>4, <1>5, Replaced DEF IInv
<1>7. Mine(user[b], bar[b].item)' = Mine(user[b], bar[b].item)
  BY <1>2, <1>4, <1>6 DEF Mine
<1>8. b \notin stale' => v.kinds = Mine(user[b], bar[b].item)
  BY <1>1
<1>9. stale' \in SUBSET Bar /\ stale' \ {b} = stale \ {b}
  BY <1>1, <1>2
<1>10. Sound(bar[b].props) => Resting(b)' /\ Sound(x.props)
  BY <1>2, <1>3, <1>4, <1>6, <1>7, <1>8 DEF Resting, Right, Counted, Sound
<1> QED BY <1>2, <1>4, <1>5, <1>9, <1>10, LoadStep

LEMMA HideStep ==
  ASSUME IInv, \/ \E u \in Reactor, i \in Item : Hide(u, i)
               \/ UNCHANGED reactionVars
  PROVE  IInv'
<1>1. UNCHANGED <<reactions, user, bar, call, crossed, stale, clicked>> /\ visible' \subseteq visible
  BY DEF Hide, reactionVars
<1>2. Shapes'
  BY <1>1 DEF IInv, Shapes
<1>3. BarInv'
  <2> SUFFICES ASSUME NEW b \in Bar, Undisturbed(b)'
               PROVE  Settled(b)'
    BY DEF BarInv
  <2>1. Settled(b)
    BY <1>1 DEF IInv, BarInv, Undisturbed
  <2>2. \A i : Mine(user[b], i)' = Mine(user[b], i)
    BY <1>1 DEF Mine
  <2>3. OneKind(b) => OneKind(b)'
    BY <1>1, <2>2 DEF OneKind
  <2>4. Resting(b) => Resting(b)'
    BY <1>1, <2>2 DEF Resting, Right, Counted
  <2>5. Clicking(b) => Clicking(b)'
    BY <1>1, <2>2 DEF Clicking, Right, Counted
  <2>6. Sound(bar[b].props) => Sound(bar[b].props)'
    BY <1>1 DEF Sound
  <2> QED BY <1>1, <2>1, <2>3, <2>4, <2>5, <2>6 DEF Settled
<1> QED BY <1>2, <1>3 DEF IInv

-----------------------------------------------------------------------------
(* The steps together.                                                                *)

LEMMA AtMostOne ==
  ASSUME NEW u, NEW i
  PROVE  Cardinality(Mine(u, i)) <= 1 <=> \A k, l \in Mine(u, i) : k = l
<1> DEFINE M == Mine(u, i)
<1>1. IsFiniteSet(M) /\ Cardinality(M) \in Nat
  BY FewUsers, MineType, FS_Subset, FS_CardinalityType
<1>2. Cardinality(M) = 0 <=> M = {}
  BY <1>1, FS_EmptySet
<1>3. Cardinality(M) = 1 <=> \E x : M = {x}
  BY <1>1, FS_Singleton
<1> HIDE DEF M
<1>4. Cardinality(M) <= 1 <=> M = {} \/ \E x : M = {x}
  <2>1. \A n \in Nat : n <= 1 <=> n = 0 \/ n = 1
    OBVIOUS
  <2>2. Cardinality(M) <= 1 <=> Cardinality(M) = 0 \/ Cardinality(M) = 1
    BY <1>1, <2>1
  <2> QED BY <1>2, <1>3, <2>2, Zenon
<1>5. (M = {} \/ \E x : M = {x}) <=> \A k, l \in M : k = l
  OBVIOUS
<1> QED BY <1>4, <1>5 DEF M

LEMMA InitHolds ==
  ASSUME Init
  PROVE  IInv
<1>1. PICK i \in Item :
        bar = [b \in Bar |->
                 IF b \in Lightbox THEN Loading(Loaded(Blank, i), i)
                 ELSE Loaded([counts |-> Counts(i), kinds |-> Mine(user[b], i),
                              first |-> CHOOSE k \in Firsts(Mine(user[b], i)) : TRUE], i)]
  BY DEF Init
<1>2. /\ reactions \subseteq Reactor \X Item \X React /\ visible = Reactor \X Item
      /\ user \in [Bar -> Reactor] /\ crossed = {} /\ call = [b \in Bar |-> Idle]
      /\ stale = {} /\ clicked = {}
      /\ \A u \in Reactor, j \in Item : Cardinality(Mine(u, j)) <= 1
  BY DEF Init
<1>3. ASSUME NEW b \in Bar, b \in Lightbox
      PROVE  bar[b] \in BarState /\ bar[b].load = "sent" /\ Sound(bar[b].props)
  <2> DEFINE l == Loaded(Blank, i)
  <2>1. l \in BarState /\ l.props = Blank
    BY BlankView, LoadedShape
  <2>2. bar[b] = Loading(l, i)
    BY <1>1, <1>3
  <2> HIDE DEF l
  <2> QED BY <2>1, <2>2, BlankView, BlankIsSound DEF Loading, BarState
<1>4. ASSUME NEW b \in Bar, b \notin Lightbox
      PROVE  /\ bar[b] \in BarState /\ bar[b].item = i /\ bar[b].load = "none"
             /\ Right(bar[b].shown, user[b], i) /\ Sound(bar[b].props)
  <2> DEFINE f == CHOOSE k \in Firsts(Mine(user[b], i)) : TRUE
             v == [counts |-> Counts(i), kinds |-> Mine(user[b], i), first |-> f]
  <2>1. Mine(user[b], i) \subseteq React
    BY MineType
  <2>2. f \in Firsts(Mine(user[b], i)) /\ f \in React \cup {Nil}
    BY <2>1 DEF Firsts
  <2> HIDE DEF f
  <2>3. v \in View /\ v.kinds = Mine(user[b], i) /\ v.first = f /\ v.counts = Counts(i)
    BY <2>1, <2>2, CountsType DEF View
  <2>4. bar[b] = Loaded(v, i)
    BY <1>1, <1>4 DEF f
  <2> HIDE DEF v
  <2>5. Counted(v, user[b], i)
    BY <1>2, <2>3, CountsType DEF Counted, Mine
  <2>6. bar[b].shown = v /\ bar[b].props = v
    BY <2>3, <2>4, LoadedShape
  <2>7. Sound(v)
    BY <2>2, <2>3, <2>5 DEF Sound, Counted
  <2> QED BY <2>2, <2>3, <2>4, <2>5, <2>6, <2>7, LoadedShape DEF Right
<1>5. \A b \in Bar : call[b] = Idle /\ bar[b] \in BarState
  BY <1>2, <1>3, <1>4
<1>6. Shapes
  <2>1. bar \in [Bar -> BarState]
    BY <1>1, <1>5
  <2>2. call \in [Bar -> CallState] /\ \A b \in Bar : call[b].pc = "idle"
    BY <1>2, BlankView
  <2> QED BY <1>2, <2>1, <2>2 DEF Shapes
<1>7. \A b \in Bar : OneKind(b)
  BY <1>2, AtMostOne DEF OneKind
<1>8. ASSUME NEW b \in Bar PROVE Resting(b) /\ Sound(bar[b].props)
  BY <1>3, <1>4 DEF Resting
<1>9. BarInv
  BY <1>5, <1>7, <1>8, BlankView DEF BarInv, Settled
<1> QED BY <1>6, <1>9 DEF IInv

(* The inductive invariant of bars and rows holds in every reachable state.             *)
THEOREM BarInvHolds == Spec => []IInv
<1>1. Init => IInv
  BY InitHolds
<1>2. IInv /\ [Next]_reactionVars => IInv'
  <2> SUFFICES ASSUME IInv, [Next]_reactionVars PROVE IInv'
    OBVIOUS
  <2>1. ASSUME NEW b \in Bar, NEW k \in React, Click(b, k) PROVE IInv'
    BY <2>1, ClickStep
  <2>2. ASSUME NEW b \in Bar,
               \/ Gate(b) \/ WriteReaction(b) \/ ReadCounts(b) \/ ReadMine(b) \/ Arrive(b) \/ CallFails(b)
        PROVE  IInv'
    BY <2>2, GateStep, WriteStep, ReadCountsStep, ReadMineStep, ArriveStep, CallFailsStep
  <2>3. ASSUME NEW b \in Bar, NEW i \in Item, Move(b, i) PROVE IInv'
    BY <2>3, MoveStep
  <2>4. ASSUME NEW b \in Bar, LoadCounts(b) \/ LoadMine(b) \/ LoadArrives(b) \/ LoadFails(b) PROVE IInv'
    BY <2>4, LoadCountsStep, LoadMineStep, LoadArrivesStep, LoadFailsStep
  <2>6. ASSUME NEW b \in Bar, Leave(b) \/ Return(b) PROVE IInv'
    BY <2>6, LeaveStep, ReturnStep
  <2>5. ASSUME (\E u \in Reactor, i \in Item : Hide(u, i)) \/ UNCHANGED reactionVars PROVE IInv'
    BY <2>5, HideStep
  <2> QED BY <2>1, <2>2, <2>3, <2>4, <2>5, <2>6 DEF Next
<1> QED BY <1>1, <1>2, PTL DEF Spec

(* Every variable keeps its type.                                                     *)
THEOREM Typed == Spec => []TypeOK
<1>1. IInv => TypeOK
  BY DEF IInv, Shapes, TypeOK, BarState, CallState
<1> QED BY <1>1, BarInvHolds, PTL

(* A bar nothing failed or crossed for shows, at rest, the kinds of its user on its      *)
(* item, each of them counted, whatever others clicked between the two statements of      *)
(* its answers - unless it came back, from an edit of its comment or to the tab of a       *)
(* profile, with other kinds than the server has and has had no answer since.            *)
THEOREM BarsSettle == Spec => []RestingBarIsRight
<1>1. IInv => RestingBarIsRight
  BY DEF IInv, BarInv, Settled, Resting, Right, Counted, RestingBarIsRight
<1> QED BY <1>1, BarInvHolds, PTL

(* The order of the bar's two requests keeps a user to one kind on every item, which no   *)
(* constraint of the database asks for, as long as the bar is not clicked when it has      *)
(* come back with other kinds than the server's.                                        *)
THEOREM KindsStaySingle == Spec => []OneKindUnlessDisturbed
<1>1. IInv => OneKindUnlessDisturbed
  BY AtMostOne DEF IInv, BarInv, Settled, OneKind, OneKindUnlessDisturbed
<1> QED BY <1>1, BarInvHolds, PTL

-----------------------------------------------------------------------------

Asked == [pc : {"sent", "found", "answered"}, by : Thread, what : {"create", "edit", "delete"},
          id : 0 .. MaxComments, body : Commenting!Body]

CommentTypes ==
  /\ comments \in Seq([by : Thread, body : Commenting!Body, live : BOOLEAN]) /\ Len(comments) =< MaxComments
  /\ thread \in [Thread -> [load : {"sent", "read", "done"}, read : Seq(Commenting!Entry),
                         list : Seq(Commenting!Entry)]]
  /\ calls \in [Call -> Asked \cup {Commenting!None}]
  /\ touched \subseteq DOMAIN comments /\ upset \subseteq Thread

Where(list, i) == {n \in DOMAIN list : list[n].id = i}

Has(list, i, e) == \E n \in Where(list, i) : Where(list, i) = {n} /\ list[n] = e

-----------------------------------------------------------------------------
(* Sifting a list.                                                           *)

(* The places are a numbering of what is kept.                                *)
LEMMA Places ==
  ASSUME NEW kept \in SUBSET Nat, IsFiniteSet(kept)
  PROVE  [n \in kept |-> Cardinality({k \in kept : k =< n})] \in Bijection(kept, 1 .. Cardinality(kept))
<1> DEFINE Upto(n) == {k \in kept : k =< n}
           N == Cardinality(kept)
           f == [n \in kept |-> Cardinality(Upto(n))]
<1>1. N \in Nat
  BY FS_CardinalityType
<1>2. ASSUME NEW n \in kept
      PROVE  IsFiniteSet(Upto(n)) /\ Cardinality(Upto(n)) \in 1 .. N
  <2>1. Upto(n) \subseteq kept /\ n \in Upto(n)
    OBVIOUS
  <2>2. IsFiniteSet(Upto(n)) /\ Cardinality(Upto(n)) =< N /\ Cardinality(Upto(n)) \in Nat
    BY <2>1, FS_Subset, FS_CardinalityType
  <2>3. Cardinality(Upto(n)) # 0
    BY <2>1, <2>2, FS_EmptySet
  <2> QED BY <1>1, <2>2, <2>3
<1>3. ASSUME NEW m \in kept, NEW n \in kept, m < n
      PROVE  Cardinality(Upto(m)) # Cardinality(Upto(n))
  <2>0. kept \subseteq Nat /\ m \in Nat /\ n \in Nat
    OBVIOUS
  <2>1. Upto(m) \subseteq Upto(n) /\ n \in Upto(n) /\ n \notin Upto(m)
    <3>1. \A k \in Nat : k =< m => k =< n
      BY <1>3, <2>0
    <3>2. n =< n /\ ~(n =< m)
      BY <1>3, <2>0
    <3> QED BY <2>0, <3>1, <3>2
  <2>2. IsFiniteSet(Upto(n)) /\ Upto(m) \in SUBSET Upto(n) /\ Upto(m) # Upto(n)
    BY <1>2, <2>1
  <2> HIDE DEF Upto
  <2> QED BY <2>2, FS_Subset
<1>4. f \in [kept -> 1 .. N]
  BY <1>2
<1>5. ASSUME NEW m \in kept, NEW n \in kept, f[m] = f[n] PROVE m = n
  BY <1>3, <1>5
<1> HIDE DEF f
<1>6. f \in Injection(kept, 1 .. N)
  BY <1>4, <1>5 DEF Injection, IsInjective
<1>7. IsFiniteSet(1 .. N) /\ Cardinality(1 .. N) = N
  BY <1>1, FS_Interval
<1>8. f \in Surjection(kept, 1 .. N)
  BY <1>6, <1>7, FS_Injection
<1> QED BY <1>6, <1>8 DEF Bijection, f

LEMMA SameCardinality == \A S : Commenting!Cardinality(S) = Cardinality(S)
BY DEF Commenting!Cardinality, Cardinality

LEMMA Sifting ==
  ASSUME NEW X, NEW list \in Seq(X), NEW S
  PROVE  /\ Commenting!Sifted(list, S) \in Seq(X)
         /\ \A m \in DOMAIN Commenting!Sifted(list, S) : Commenting!Sifted(list, S)[m] \in S
         /\ \A i : (\A n \in Where(list, i) : list[n] \notin S) => Where(Commenting!Sifted(list, S), i) = {}
         /\ \A i, e : e \in S /\ Has(list, i, e) => Has(Commenting!Sifted(list, S), i, e)
<1> DEFINE kept == {n \in DOMAIN list : list[n] \in S}
           f == [n \in kept |-> Cardinality({k \in kept : k =< n})]
           N == Cardinality(kept)
           Upto(n) == {k \in kept : k =< n}
           r == [m \in 1 .. Commenting!Cardinality(kept) |->
                   list[CHOOSE n \in kept : Commenting!Cardinality(Upto(n)) = m]]
<1>1. DOMAIN list = 1 .. Len(list) /\ Len(list) \in Nat
  OBVIOUS
<1>2. kept \in SUBSET Nat /\ IsFiniteSet(kept) /\ N \in Nat
  <2>1. kept \subseteq 1 .. Len(list)
    BY <1>1
  <2>2. IsFiniteSet(1 .. Len(list)) /\ 1 .. Len(list) \subseteq Nat
    BY <1>1, FS_Interval
  <2> HIDE DEF kept
  <2> QED BY <2>1, <2>2, FS_Subset, FS_CardinalityType
<1>3. f \in Bijection(kept, 1 .. N)
  BY <1>2, Places
<1>4. Commenting!Sifted(list, S) = r
  BY DEF Commenting!Sifted
<1>0. DOMAIN r = 1 .. N
  BY SameCardinality
<1>5. ASSUME NEW m \in 1 .. N PROVE \E n \in kept : f[n] = m /\ r[m] = list[n]
  <2>1. \E n \in kept : f[n] = m
    BY <1>3 DEF Bijection, Surjection
  <2>2. \E n \in kept : Commenting!Cardinality(Upto(n)) = m
    BY <2>1, SameCardinality
  <2> DEFINE x == CHOOSE n \in kept : Commenting!Cardinality(Upto(n)) = m
  <2>3. x \in kept /\ Commenting!Cardinality(Upto(x)) = m
    BY <2>2
  <2>4. r[m] = list[x]
    BY <1>0
  <2>5. f[x] = m
    BY <2>3, SameCardinality
  <2> QED BY <2>3, <2>4, <2>5
<1>6. ASSUME NEW n \in kept PROVE f[n] \in 1 .. N /\ r[f[n]] = list[n]
  <2>1. f[n] \in 1 .. N
    BY <1>3 DEF Bijection, Injection
  <2>2. PICK k \in kept : f[k] = f[n] /\ r[f[n]] = list[k]
    BY <1>5, <2>1
  <2>3. k = n
    BY <1>3, <2>2 DEF Bijection, Injection, IsInjective
  <2> QED BY <2>1, <2>2, <2>3
<1>7. \A n \in kept : n \in DOMAIN list /\ list[n] \in S
  OBVIOUS
<1>8. DOMAIN r = 1 .. N
  BY <1>0
<1>9. \A n \in DOMAIN list : list[n] \in S => n \in kept
  OBVIOUS
<1>10. f \in [kept -> 1 .. N]
  BY <1>3 DEF Bijection, Injection
<1>11. r \in Seq(X)
  <2>1. \A n \in DOMAIN list : list[n] \in X
    BY <1>1
  <2>2. \A n \in kept : list[n] \in X
    BY <1>7, <2>1
  <2>3. r = [m \in 1 .. N |-> r[m]]
    BY <1>0
  <2> HIDE DEF N, r, kept, f
  <2>4. \A m \in 1 .. N : r[m] \in X
    BY <1>5, <2>2
  <2>5. r \in [1 .. N -> X]
    BY <2>3, <2>4
  <2> QED BY <1>2, <2>5, SeqDef
<1> HIDE DEF r, f, kept, N
<1>12. \A m \in 1 .. N : r[m] \in S
  BY <1>5, <1>7
<1>13. ASSUME NEW i, \A n \in Where(list, i) : list[n] \notin S PROVE Where(r, i) = {}
  <2> SUFFICES ASSUME NEW m \in 1 .. N, r[m].id = i PROVE FALSE
    BY <1>8 DEF Where
  <2>1. PICK n \in kept : r[m] = list[n]
    BY <1>5
  <2> QED BY <1>7, <1>13, <2>1 DEF Where
<1>14. ASSUME NEW i, NEW e, e \in S, Has(list, i, e) PROVE Has(r, i, e)
  <2>1. PICK n \in Where(list, i) : Where(list, i) = {n} /\ list[n] = e
    BY <1>14 DEF Has
  <2>2. n \in kept /\ list[n].id = i
    BY <1>9, <1>14, <2>1 DEF Where
  <2>3. f[n] \in 1 .. N /\ r[f[n]] = e
    BY <1>6, <2>1, <2>2
  <2>4. f[n] \in Where(r, i)
    BY <1>8, <2>1, <2>2, <2>3 DEF Where
  <2>5. ASSUME NEW m \in Where(r, i) PROVE m = f[n]
    <3>1. m \in 1 .. N /\ r[m].id = i
      BY <1>8 DEF Where
    <3>2. PICK k \in kept : f[k] = m /\ r[m] = list[k]
      BY <1>5, <3>1
    <3>3. k \in Where(list, i)
      BY <1>7, <3>1, <3>2 DEF Where
    <3> QED BY <2>1, <3>2, <3>3
  <2>6. Where(r, i) = {f[n]}
    BY <2>4, <2>5
  <2> QED BY <2>3, <2>4, <2>6 DEF Has
<1> QED BY <1>4, <1>8, <1>11, <1>12, <1>13, <1>14

LEMMA Appending ==
  ASSUME NEW X, NEW list \in Seq(X), NEW e \in X
  PROVE  /\ Append(list, e) \in Seq(X)
         /\ \A i : i # e.id => Where(Append(list, e), i) = Where(list, i)
         /\ \A i, x : i # e.id /\ Has(list, i, x) => Has(Append(list, e), i, x)
         /\ Where(list, e.id) = {} => Has(Append(list, e), e.id, e)
<1> DEFINE l == Append(list, e)
<1>1. /\ l \in Seq(X) /\ DOMAIN list = 1 .. Len(list) /\ Len(list) \in Nat
      /\ DOMAIN l = 1 .. (Len(list) + 1)
      /\ \A n \in 1 .. Len(list) : l[n] = list[n]
      /\ l[Len(list) + 1] = e
  OBVIOUS
<1> HIDE DEF l
<1>2. \A n : n \in 1 .. (Len(list) + 1) <=> n \in 1 .. Len(list) \/ n = Len(list) + 1
  BY <1>1
<1>3. \A i : i # e.id => Where(l, i) = Where(list, i)
  BY <1>1, <1>2 DEF Where
<1>4. \A i, x : i # e.id /\ Has(list, i, x) => Has(l, i, x)
  BY <1>1, <1>3 DEF Has, Where
<1>5. ASSUME Where(list, e.id) = {} PROVE Has(l, e.id, e)
  <2>1. Where(l, e.id) = {Len(list) + 1}
    BY <1>1, <1>2, <1>5 DEF Where
  <2> QED BY <1>1, <2>1 DEF Has
<1> QED BY <1>1, <1>3, <1>4, <1>5 DEF l

LEMMA Updating ==
  ASSUME NEW X, NEW list \in Seq(X), NEW e \in X
  PROVE  /\ Commenting!Updated(list, e) \in Seq(X)
         /\ \A i : Where(Commenting!Updated(list, e), i) = Where(list, i)
         /\ \A i, x : i # e.id /\ Has(list, i, x) => Has(Commenting!Updated(list, e), i, x)
         /\ \A x : Has(list, e.id, x) => Has(Commenting!Updated(list, e), e.id, e)
<1> DEFINE l == Commenting!Updated(list, e)
<1>1. /\ DOMAIN l = DOMAIN list
      /\ \A n \in DOMAIN list : l[n] = IF list[n].id = e.id THEN e ELSE list[n]
  BY DEF Commenting!Updated
<1>2. l \in Seq(X)
  BY DEF Commenting!Updated
<1> HIDE DEF l
<1>3. \A i : Where(l, i) = Where(list, i)
  BY <1>1 DEF Where
<1>4. \A i, x : i # e.id /\ Has(list, i, x) => Has(l, i, x)
  BY <1>1, <1>3 DEF Has, Where
<1>5. \A x : Has(list, e.id, x) => Has(l, e.id, e)
  BY <1>1, <1>3 DEF Has, Where
<1> QED BY <1>2, <1>3, <1>4, <1>5 DEF l

-----------------------------------------------------------------------------
(* The invariant.                                                            *)

On(c, t, i) == Commenting!Busy(c) /\ calls[c].by = t /\ calls[c].id = i

Answers(c, t, what, i) ==
  calls[c].pc = "answered" /\ calls[c].by = t /\ calls[c].what = what /\ calls[c].id = i

SoundCall(c) ==
  LET q == calls[c] IN
  /\ q.what = "create" => /\ q.body = "first"
                          /\ q.pc \in {"sent", "found"} => q.id = 0
                          /\ q.pc = "answered" => q.id \in DOMAIN comments
  /\ q.what # "create" => q.id \in DOMAIN comments
  /\ q.pc = "answered" /\ q.what = "edit" => q.body = "edited" /\ comments[q.id].body = "edited"
  /\ q.pc = "answered" /\ q.what = "delete" => ~comments[q.id].live

CallInv == \A c \in Call : Commenting!Busy(c) => SoundCall(c)

ListInv ==
  \A t \in Thread, i \in Nat \ DOMAIN comments :
    Where(thread[t].read, i) = {} /\ Where(thread[t].list, i) = {}

IdleInv ==
  \A t \in Thread \ upset : thread[t].load # "done" => \A c \in Call : Commenting!Busy(c) => calls[c].by # t

ListRight(list, i) == IF comments[i].live THEN Has(list, i, Commenting!Written(i)) ELSE Where(list, i) = {}

Arriving(t, i) ==
  /\ comments[i].body = "first" /\ Where(thread[t].list, i) = {}
  /\ \E c \in Call : Answers(c, t, "create", i) /\ \A d \in Call : On(d, t, i) => d = c

NoCreate(t, i) == \A c \in Call : ~Answers(c, t, "create", i)

Listed(t, i) ==
  /\ NoCreate(t, i)
  /\ \E e \in Commenting!Entry : /\ Has(thread[t].list, i, e)
                                 /\ e = Commenting!Written(i) \/ \E c \in Call : Answers(c, t, "edit", i)

Gone(t, i) ==
  /\ NoCreate(t, i)
  /\ Where(thread[t].list, i) = {} \/ \E c \in Call : Answers(c, t, "delete", i)

Follows(t, i) ==
  /\ thread[t].load = "read" => ListRight(thread[t].read, i)
  /\ thread[t].load = "done" => IF comments[i].live THEN Arriving(t, i) \/ Listed(t, i) ELSE Gone(t, i)

OwnInv ==
  \A t \in Thread \ upset, i \in DOMAIN comments \ touched : comments[i].by = t => Follows(t, i)

CInv == CommentTypes /\ CallInv /\ ListInv /\ IdleInv /\ OwnInv

-----------------------------------------------------------------------------
(* Calls.                                                                    *)

LEMMA CommentCalled ==
  ASSUME CommentTypes, NEW c \in Call
  PROVE  Commenting!Busy(c) <=> calls[c] \in Asked
  BY DEF CommentTypes, Commenting!Busy, Asked, Commenting!None

Serves(c, q) ==
  /\ calls'[c] = q /\ \A d \in Call \ {c} : calls'[d] = calls[d]
  /\ calls' \in [Call -> Asked \cup {Commenting!None}]

LEMMA Served ==
  ASSUME CommentTypes, NEW c \in Call, NEW q \in Asked \cup {Commenting!None}, calls' = [calls EXCEPT ![c] = q]
  PROVE  Serves(c, q)
  BY DEF CommentTypes, Serves

LEMMA Going ==
  ASSUME CommentTypes, NEW c \in Call, Commenting!Busy(c), NEW place \in {"found", "answered"},
         Commenting!Goto(c, place)
  PROVE  \E q \in Asked : /\ Serves(c, q) /\ q.pc = place /\ q.by = calls[c].by
                          /\ q.what = calls[c].what /\ q.id = calls[c].id /\ q.body = calls[c].body
<1> DEFINE q == [calls[c] EXCEPT !.pc = place]
<1>1. calls[c] \in Asked
  BY CommentCalled
<1>2. q \in Asked /\ q.pc = place /\ q.by = calls[c].by /\ q.what = calls[c].what
      /\ q.id = calls[c].id /\ q.body = calls[c].body
  BY <1>1 DEF Asked
<1>3. calls' = [calls EXCEPT ![c] = q]
  BY DEF Commenting!Goto
<1> HIDE DEF q
<1> QED BY <1>2, <1>3, Served

(* Nothing that is said of t's comment i has changed, but that t may have asked   *)
(* for something about an entry on its screen.                                *)
LEMMA Quiet ==
  ASSUME NEW t, NEW i, Follows(t, i), comments'[i] = comments[i], thread'[t] = thread[t],
         \A d \in Call, w \in {"create", "edit", "delete"} : Answers(d, t, w, i)' <=> Answers(d, t, w, i),
         \A d \in Call : On(d, t, i)' => On(d, t, i) \/ Where(thread[t].list, i) # {}
  PROVE  Follows(t, i)'
<1>1. Commenting!Written(i)' = Commenting!Written(i)
  BY DEF Commenting!Written
<1>2. NoCreate(t, i)' <=> NoCreate(t, i)
  BY DEF NoCreate
<1>3. Arriving(t, i) => Arriving(t, i)'
  BY DEF Arriving
<1>4. Listed(t, i) => Listed(t, i)'
  BY <1>1, <1>2 DEF Listed
<1>5. Gone(t, i) => Gone(t, i)'
  BY <1>2 DEF Gone
<1>6. ListRight(thread[t].read, i) => ListRight(thread[t].read, i)'
  BY <1>1 DEF ListRight
<1> QED BY <1>3, <1>4, <1>5, <1>6 DEF Follows

(* A step of one call: of the comments it is not about, before or after, nothing   *)
(* changes.                                                                  *)
LEMMA Elsewhere ==
  ASSUME NEW c \in Call, NEW q, Serves(c, q), NEW t, NEW i, Follows(t, i),
         comments'[i] = comments[i], thread'[t] = thread[t],
         ~On(c, t, i), ~(q.pc # "none" /\ q.by = t /\ q.id = i)
  PROVE  Follows(t, i)'
<1>1. \A d \in Call \ {c} : calls'[d] = calls[d]
  BY DEF Serves
<1>2. ~On(c, t, i)'
  BY DEF Serves, On, Commenting!Busy
<1>3. \A d \in Call : On(d, t, i)' <=> On(d, t, i)
  BY <1>1, <1>2 DEF On, Commenting!Busy
<1>4. \A d \in Call : \A w : Answers(d, t, w, i) => On(d, t, i)
  BY DEF Answers, On, Commenting!Busy
<1>5. \A d \in Call : \A w : Answers(d, t, w, i)' => On(d, t, i)'
  BY DEF Answers, On, Commenting!Busy
<1>6. \A d \in Call \ {c} : \A w : Answers(d, t, w, i)' <=> Answers(d, t, w, i)
  BY <1>1 DEF Answers
<1>7. \A d \in Call, w \in {"create", "edit", "delete"} : Answers(d, t, w, i)' <=> Answers(d, t, w, i)
  BY <1>2, <1>4, <1>5, <1>6
<1> QED BY <1>3, <1>7, Quiet


-----------------------------------------------------------------------------
(* The threads.                                                              *)

LEMMA Commented ==
  ASSUME CommentTypes
  PROVE  /\ DOMAIN comments = 1 .. Len(comments) /\ Len(comments) \in Nat
         /\ \A i \in DOMAIN comments : /\ comments[i] \in [by : Thread, body : Commenting!Body, live : BOOLEAN]
                                       /\ Commenting!Written(i) \in Commenting!Entry /\ i \in 1 .. MaxComments
<1> DEFINE Row == [by : Thread, body : Commenting!Body, live : BOOLEAN]
<1>1. comments \in Seq(Row) /\ Len(comments) =< MaxComments
  BY DEF CommentTypes
<1>2. /\ DOMAIN comments = 1 .. Len(comments) /\ Len(comments) \in Nat
      /\ \A i \in 1 .. Len(comments) : comments[i] \in Row
  <2> HIDE DEF Row
  <2> QED BY <1>1
<1>3. \A i \in 1 .. Len(comments) : i \in 1 .. MaxComments
  BY <1>1, <1>2, RoomForComments
<1>4. \A i \in 1 .. Len(comments) : comments[i].body \in Commenting!Body
  BY <1>2
<1> QED BY <1>1, <1>2, <1>3, <1>4 DEF Commenting!Written, Commenting!Entry

(* What a load reads is right: each living comment once.                       *)
LEMMA LiveIsRight ==
  ASSUME CommentTypes
  PROVE  /\ Commenting!Live \in Seq(Commenting!Entry)
         /\ \A i \in DOMAIN comments : ListRight(Commenting!Live, i)
         /\ \A i \in Nat \ DOMAIN comments : Where(Commenting!Live, i) = {}
<1> DEFINE all == [i \in DOMAIN comments |-> Commenting!Written(i)]
           S == {Commenting!Written(i) : i \in {j \in DOMAIN comments : comments[j].live}}
<1>1. all \in Seq(Commenting!Entry) /\ DOMAIN all = DOMAIN comments
  BY Commented, SeqDef
<1>2. \A i : Commenting!Written(i).id = i
  BY DEF Commenting!Written
<1>3. \A i : Where(all, i) = IF i \in DOMAIN comments THEN {i} ELSE {}
  BY <1>2 DEF Where
<1>4. Commenting!Live = Commenting!Sifted(all, S)
  BY DEF Commenting!Live
<1>5. \A i \in DOMAIN comments : Has(all, i, Commenting!Written(i))
  BY <1>3 DEF Has
<1>6. \A i \in DOMAIN comments : Commenting!Written(i) \in S <=> comments[i].live
  BY <1>2
<1>7. \A i \in DOMAIN comments : all[i] = Commenting!Written(i)
  OBVIOUS
<1> HIDE DEF all, S
<1>8. ASSUME NEW i \in DOMAIN comments PROVE ListRight(Commenting!Live, i)
  BY <1>1, <1>3, <1>4, <1>5, <1>6, <1>7, Sifting DEF ListRight
<1>9. ASSUME NEW i \in Nat \ DOMAIN comments PROVE Where(Commenting!Live, i) = {}
  <2>1. Where(all, i) = {}
    BY <1>3
  <2> QED BY <1>1, <1>4, <2>1, Sifting
<1> QED BY <1>1, <1>4, <1>8, <1>9, Sifting

LEMMA InitC == Commenting!Init => CInv
<1> SUFFICES ASSUME Commenting!Init PROVE CInv
  OBVIOUS
<1>1. CommentTypes
  <2>1. comments = <<>> \/ \E t \in Thread, l \in BOOLEAN : comments = <<[by |-> t, body |-> "first", live |-> l]>>
    BY DEF Commenting!Init
  <2> DEFINE Row == [by : Thread, body : Commenting!Body, live : BOOLEAN]
  <2>2. comments \in Seq(Row) /\ Len(comments) =< MaxComments
    <3>1. CASE comments = <<>>
      <4>1. <<>> \in Seq(Row) /\ Len(<<>>) = 0
        OBVIOUS
      <4> QED BY <3>1, <4>1, RoomForComments
    <3>2. ASSUME NEW t \in Thread, NEW l \in BOOLEAN, comments = <<[by |-> t, body |-> "first", live |-> l]>>
          PROVE  comments \in Seq(Row) /\ Len(comments) =< MaxComments
      <4> DEFINE row == [by |-> t, body |-> "first", live |-> l]
      <4>1. row \in Row
        BY Zenon DEF Commenting!Body
      <4> HIDE DEF row, Row
      <4>2. <<row>> \in Seq(Row) /\ Len(<<row>>) = 1
        BY <4>1
      <4> QED BY <3>2, <4>2, RoomForComments DEF row
    <3> QED BY <2>1, <3>1, <3>2
  <2>3. thread \in [Thread -> [load : {"sent", "read", "done"}, read : Seq(Commenting!Entry), list : Seq(Commenting!Entry)]]
    BY DEF Commenting!Init
  <2> QED BY <2>2, <2>3 DEF Commenting!Init, CommentTypes
<1>2. \A c \in Call : ~Commenting!Busy(c)
  BY DEF Commenting!Init, Commenting!Busy, Commenting!None
<1>3. \A t \in Thread : thread[t].load = "sent" /\ thread[t].read = <<>> /\ thread[t].list = <<>>
  BY DEF Commenting!Init
<1>4. ListInv
  BY <1>3 DEF ListInv, Where
<1>5. OwnInv
  BY <1>3 DEF OwnInv, Follows
<1> QED BY <1>1, <1>2, <1>4, <1>5 DEF CInv, CallInv, IdleInv

Loads == {"sent", "read", "done"}

(* One thread changes, nothing else but who is upset.                          *)
LEMMA ThreadMoves ==
  ASSUME CInv, NEW t \in Thread, NEW th \in [load : Loads, read : Seq(Commenting!Entry),
                                             list : Seq(Commenting!Entry)],
         thread' = [thread EXCEPT ![t] = th], UNCHANGED <<comments, calls, touched>>,
         upset \subseteq upset', upset' \subseteq Thread,
         \A i \in Nat \ DOMAIN comments : Where(th.read, i) = {} /\ Where(th.list, i) = {},
         t \notin upset' =>
           /\ th.load # "done" => thread[t].load # "done"
           /\ \A i \in DOMAIN comments \ touched : comments[i].by = t =>
                /\ th.load = "read" => ListRight(th.read, i)
                /\ th.load = "done" => ListRight(th.list, i) /\ thread[t].load # "done"
  PROVE  CInv'
<1>1. thread'[t] = th /\ \A s \in Thread \ {t} : thread'[s] = thread[s]
  BY DEF CInv, CommentTypes
<1>2. CommentTypes'
  <2>1. thread' \in [Thread -> [load : Loads, read : Seq(Commenting!Entry), list : Seq(Commenting!Entry)]]
    BY DEF CInv, CommentTypes, Loads
  <2> QED BY <2>1 DEF CInv, CommentTypes, Loads
<1>3. CallInv'
  BY DEF CInv, CallInv, SoundCall, Commenting!Busy
<1>4. ListInv'
  BY <1>1 DEF CInv, ListInv
<1>5. IdleInv'
  BY <1>1 DEF CInv, IdleInv, Commenting!Busy
<1>6. OwnInv'
  <2> SUFFICES ASSUME NEW s \in Thread \ upset', NEW i \in DOMAIN comments \ touched, comments[i].by = s
               PROVE  Follows(s, i)'
    BY DEF OwnInv
  <2>1. \A d \in Call : \A w : Answers(d, s, w, i)' <=> Answers(d, s, w, i)
    BY DEF Answers
  <2>2. CASE s # t
    <3>1. Follows(s, i)
      BY DEF CInv, OwnInv
    <3>2. \A d \in Call : On(d, s, i)' <=> On(d, s, i)
      BY DEF On, Commenting!Busy
    <3> QED BY <1>1, <2>1, <2>2, <3>1, <3>2, Quiet
  <2>3. CASE s = t
    <3>1. Commenting!Written(i)' = Commenting!Written(i)
      BY DEF Commenting!Written
    <3>2. \A l : ListRight(l, i)' <=> ListRight(l, i)
      BY <3>1 DEF ListRight
    <3>3. th.load = "read" => ListRight(thread[s].read, i)'
      <4>1. th.load = "read" => ListRight(th.read, i)
        BY <2>3
      <4> QED BY <1>1, <2>3, <3>1, <4>1 DEF ListRight
    <3>4. ASSUME th.load = "done" PROVE IF comments[i].live THEN Listed(s, i)' ELSE Gone(s, i)'
      <4>1. \A c \in Call : ~On(c, s, i)
        BY <2>3, <3>4 DEF CInv, IdleInv, On
      <4>2. NoCreate(s, i)'
        BY <4>1, <2>1 DEF NoCreate, Answers, On, Commenting!Busy
      <4>3. ListRight(th.list, i)
        BY <2>3, <3>4
      <4>4. Commenting!Written(i) \in Commenting!Entry
        BY Commented DEF CInv
      <4> QED BY <1>1, <2>3, <3>1, <4>2, <4>3, <4>4 DEF Listed, Gone, ListRight
    <3> QED BY <1>1, <2>3, <3>3, <3>4 DEF Follows
  <2> QED BY <2>2, <2>3
<1> QED BY <1>2, <1>3, <1>4, <1>5, <1>6 DEF CInv

LEMMA StepLoads ==
  ASSUME CInv, NEW t \in Thread,
         Commenting!LoadReads(t) \/ Commenting!LoadArrives(t) \/ Commenting!LoadFails(t)
  PROVE  CInv'
<1> DEFINE R == [load : Loads, read : Seq(Commenting!Entry), list : Seq(Commenting!Entry)]
<1>0. thread[t] \in R /\ upset \subseteq Thread
  BY DEF CInv, CommentTypes, Loads
<1>00. /\ <<>> \in Seq(Commenting!Entry)
       /\ thread[t].read \in Seq(Commenting!Entry) /\ thread[t].list \in Seq(Commenting!Entry)
  <2> HIDE DEF R
  <2>1. <<>> \in Seq(Commenting!Entry)
    OBVIOUS
  <2> QED BY <1>0, <2>1 DEF R
<1>1. CASE Commenting!LoadReads(t)
  <2> DEFINE l == IF t \in readers THEN Commenting!Live ELSE <<>>
             th == [thread[t] EXCEPT !.load = "read", !.read = l]
  <2>1. /\ l \in Seq(Commenting!Entry)
        /\ t \in readers => \A i \in DOMAIN comments : ListRight(l, i)
        /\ \A i \in Nat \ DOMAIN comments : Where(l, i) = {}
    BY LiveIsRight DEF CInv, Where
  <2> HIDE DEF l
  <2>2. th \in R /\ th.load = "read" /\ th.read = l /\ th.list = thread[t].list
    BY <1>0, <2>1 DEF Loads
  <2>3. thread' = [thread EXCEPT ![t] = th] /\ thread[t].load = "sent"
    BY <1>1 DEF Commenting!LoadReads, l
  <2>4. /\ UNCHANGED <<comments, calls, touched>>
        /\ upset' = IF t \in readers THEN upset ELSE upset \cup {t}
    BY <1>1 DEF Commenting!LoadReads
  <2>5. \A i \in Nat \ DOMAIN comments : Where(th.list, i) = {}
    BY <2>2 DEF CInv, ListInv
  <2> HIDE DEF th
  <2> QED BY <1>0, <2>1, <2>2, <2>3, <2>4, <2>5, ThreadMoves
<1>2. CASE Commenting!LoadArrives(t)
  <2> DEFINE th == [thread[t] EXCEPT !.load = "done", !.list = thread[t].read, !.read = <<>>]
  <2>2. th \in R /\ th.load = "done" /\ th.read = <<>> /\ th.list = thread[t].read
    BY <1>0, <1>00 DEF Loads
  <2>3. thread' = [thread EXCEPT ![t] = th] /\ thread[t].load = "read"
    BY <1>2 DEF Commenting!LoadArrives
  <2>4. UNCHANGED <<comments, calls, touched, upset>>
    BY <1>2 DEF Commenting!LoadArrives
  <2>5. \A i \in Nat \ DOMAIN comments : Where(th.list, i) = {} /\ Where(th.read, i) = {}
    BY <2>2 DEF CInv, ListInv, Where
  <2>6. t \notin upset => \A i \in DOMAIN comments \ touched : comments[i].by = t => ListRight(th.list, i)
    BY <2>2, <2>3 DEF CInv, OwnInv, Follows
  <2> HIDE DEF th
  <2> QED BY <1>0, <2>2, <2>3, <2>4, <2>5, <2>6, ThreadMoves
<1>3. CASE Commenting!LoadFails(t)
  <2> DEFINE th == [thread[t] EXCEPT !.load = "done", !.read = <<>>]
  <2>2. th \in R /\ th.load = "done" /\ th.read = <<>> /\ th.list = thread[t].list
    BY <1>0, <1>00 DEF Loads
  <2>3. thread' = [thread EXCEPT ![t] = th]
    BY <1>3 DEF Commenting!LoadFails
  <2>4. UNCHANGED <<comments, calls, touched>> /\ upset' = upset \cup {t}
    BY <1>3 DEF Commenting!LoadFails
  <2>5. \A i \in Nat \ DOMAIN comments : Where(th.list, i) = {} /\ Where(th.read, i) = {}
    BY <2>2 DEF CInv, ListInv, Where
  <2> HIDE DEF th
  <2> QED BY <1>0, <2>2, <2>3, <2>4, <2>5, ThreadMoves
<1> QED BY <1>1, <1>2, <1>3

-----------------------------------------------------------------------------
(* The calls.                                                                *)

LEMMA Kinds == CommentTypes => \A c \in Call : Commenting!Busy(c) => calls[c] \in Asked /\ calls[c].pc # "none"
  BY CommentCalled DEF Commenting!Busy

(* A call begins, goes on to what it has found, or fails.                      *)
LEMMA CallMoves ==
  ASSUME CInv, NEW c \in Call, NEW q \in Asked \cup {Commenting!None}, Serves(c, q),
         UNCHANGED <<comments, thread, touched>>, upset \subseteq upset', upset' \subseteq Thread,
         q.pc # "none" => SoundCall(c)', q.pc # "answered",
         calls[c].pc = "answered" => calls[c].by \in upset',
         q.pc # "none" /\ q.by \notin upset' =>
           /\ thread[q.by].load = "done"
           /\ q.id = 0 \/ Where(thread[q.by].list, q.id) # {} \/ On(c, q.by, q.id)
  PROVE  CInv'
<1>1. CommentTypes'
  BY DEF CInv, CommentTypes, Serves
<1>2. CallInv'
  <2> SUFFICES ASSUME NEW d \in Call, Commenting!Busy(d)' PROVE SoundCall(d)'
    BY DEF CallInv
  <2>1. CASE d = c
    BY <2>1 DEF Serves, Commenting!Busy
  <2>2. CASE d # c
    <3>1. calls'[d] = calls[d]
      BY <2>2 DEF Serves
    <3>2. SoundCall(d)
      BY <3>1 DEF CInv, CallInv, Commenting!Busy
    <3> QED BY <3>1, <3>2 DEF SoundCall
  <2> QED BY <2>1, <2>2
<1>3. ListInv'
  BY DEF CInv, ListInv
<1>4. IdleInv'
  BY DEF CInv, IdleInv, Serves, Commenting!Busy
<1>5. OwnInv'
  <2> SUFFICES ASSUME NEW t \in Thread \ upset', NEW i \in DOMAIN comments \ touched, comments[i].by = t
               PROVE  Follows(t, i)'
    BY DEF OwnInv
  <2>1. Follows(t, i)
    BY DEF CInv, OwnInv
  <2>2. \A d \in Call, w \in {"create", "edit", "delete"} : Answers(d, t, w, i)' <=> Answers(d, t, w, i)
    BY DEF Answers, Serves
  <2>3. i # 0
    BY Commented DEF CInv
  <2>4. \A d \in Call : On(d, t, i)' => On(d, t, i) \/ Where(thread[t].list, i) # {}
    BY <2>3 DEF On, Commenting!Busy, Serves
  <2> QED BY <2>1, <2>2, <2>4, Quiet
<1> QED BY <1>1, <1>2, <1>3, <1>4, <1>5 DEF CInv

LEMMA Sending ==
  ASSUME CInv, NEW c \in Call, NEW t \in Thread, NEW what \in {"create", "edit", "delete"},
         NEW i \in 0 .. MaxComments, Commenting!Send(c, t, what, i), upset \subseteq upset', upset' \subseteq Thread,
         what = "create" => i = 0, what # "create" => i \in DOMAIN comments,
         t \notin upset' => thread[t].load = "done" /\ (i = 0 \/ Where(thread[t].list, i) # {})
  PROVE  CInv'
<1> DEFINE q == [pc |-> "sent", by |-> t, what |-> what, id |-> i, body |-> "first"]
<1>1. q \in Asked /\ q.pc = "sent" /\ q.by = t /\ q.what = what /\ q.id = i /\ q.body = "first"
  BY DEF Asked, Commenting!Body
<1>2. calls' = [calls EXCEPT ![c] = q] /\ ~Commenting!Busy(c) /\ UNCHANGED <<comments, thread, touched>>
  BY DEF Commenting!Send
<1> HIDE DEF q
<1>3. Serves(c, q)
  BY <1>1, <1>2, Served DEF CInv
<1>4. SoundCall(c)'
  BY <1>1, <1>2, <1>3 DEF SoundCall, Serves
<1> QED BY <1>1, <1>2, <1>3, <1>4, CallMoves DEF Commenting!Busy

LEMMA StepSends ==
  ASSUME CInv, NEW c \in Call, NEW t \in Thread,
         Commenting!Submit(c, t) \/ \E i \in DOMAIN comments : Commenting!Delete(c, t, i) \/ Commenting!Edit(c, t, i)
  PROVE  CInv'
<1>0. upset \subseteq Thread
  BY DEF CInv, CommentTypes
<1>1. CASE Commenting!Submit(c, t)
  <2>1. /\ Commenting!Send(c, t, "create", 0) /\ upset \subseteq upset' /\ upset' \subseteq Thread
        /\ t \notin upset' => thread[t].load = "done"
    BY <1>0, <1>1 DEF Commenting!Submit
  <2>2. 0 \in 0 .. MaxComments
    BY RoomForComments
  <2> QED BY <2>1, <2>2, Sending
<1>2. ASSUME NEW i \in DOMAIN comments, Commenting!Delete(c, t, i) \/ Commenting!Edit(c, t, i) PROVE CInv'
  <2>1. /\ Commenting!Send(c, t, "delete", i) \/ Commenting!Send(c, t, "edit", i)
        /\ Commenting!OnScreen(t, i) /\ upset' = upset
    BY <1>2 DEF Commenting!Delete, Commenting!Edit
  <2>2. i \in 0 .. MaxComments
    BY Commented, RoomForComments DEF CInv
  <2>3. thread[t].load = "done" /\ Where(thread[t].list, i) # {}
    BY <2>1 DEF Commenting!OnScreen, Commenting!Ids, Where
  <2> QED BY <1>0, <2>1, <2>2, <2>3, Sending
<1> QED BY <1>1, <1>2

LEMMA StepFinds ==
  ASSUME CInv, NEW c \in Call, Commenting!GateCreate(c) \/ Commenting!FindComment(c)
  PROVE  CInv'
<1>1. /\ calls[c].pc = "sent" /\ Commenting!Goto(c, "found") /\ UNCHANGED <<comments, thread, touched, upset>>
  BY DEF Commenting!GateCreate, Commenting!FindComment
<1>2. Commenting!Busy(c)
  BY <1>1 DEF Commenting!Busy
<1>3. PICK q \in Asked : /\ Serves(c, q) /\ q.pc = "found" /\ q.by = calls[c].by
                         /\ q.what = calls[c].what /\ q.id = calls[c].id /\ q.body = calls[c].body
  BY <1>1, <1>2, Going DEF CInv
<1>4. SoundCall(c)
  BY <1>2 DEF CInv, CallInv
<1>5. SoundCall(c)'
  BY <1>1, <1>3, <1>4 DEF SoundCall, Serves
<1>6. q.by \in Thread /\ On(c, q.by, q.id)
  BY <1>2, <1>3 DEF On, Asked
<1>7. q.by \notin upset => thread[q.by].load = "done"
  BY <1>2, <1>3, <1>6 DEF CInv, IdleInv
<1>8. upset \subseteq Thread
  BY DEF CInv, CommentTypes
<1> QED BY <1>1, <1>3, <1>5, <1>6, <1>7, <1>8, CallMoves

LEMMA StepFails ==
  ASSUME CInv, NEW c \in Call, Commenting!CallFails(c)
  PROVE  CInv'
<1>1. /\ Commenting!Busy(c) /\ calls' = [calls EXCEPT ![c] = Commenting!None] /\ upset' = upset \cup {calls[c].by}
      /\ UNCHANGED <<comments, thread, touched>>
  BY DEF Commenting!CallFails
<1>2. Commenting!None \in Asked \cup {Commenting!None} /\ Commenting!None.pc = "none"
  BY DEF Commenting!None
<1>3. Serves(c, Commenting!None)
  BY <1>1, <1>2, Served DEF CInv
<1>4. calls[c].by \in Thread
  BY <1>1, Kinds DEF CInv, Asked
<1>5. upset \subseteq upset' /\ upset' \subseteq Thread
  BY <1>1, <1>4 DEF CInv, CommentTypes
<1> QED BY <1>1, <1>2, <1>3, <1>5, CallMoves

(* Rows die, and nothing else happens.                                        *)
LEMMA RowsDie ==
  ASSUME CInv, CommentTypes', UNCHANGED <<thread, calls, upset>>,
         DOMAIN comments' = DOMAIN comments, touched \subseteq touched',
         \A i \in DOMAIN comments : /\ comments'[i].body = comments[i].body /\ comments'[i].by = comments[i].by
                                    /\ comments'[i].live => comments[i].live
                                    /\ i \notin touched' => comments'[i] = comments[i]
  PROVE  CInv'
<1>1. CallInv'
  <2> SUFFICES ASSUME NEW d \in Call, Commenting!Busy(d) PROVE SoundCall(d)'
    BY DEF CallInv, Commenting!Busy
  <2>1. SoundCall(d)
    BY DEF CInv, CallInv
  <2> QED BY <2>1 DEF SoundCall
<1>2. ListInv'
  BY DEF CInv, ListInv
<1>3. IdleInv'
  BY DEF CInv, IdleInv, Commenting!Busy
<1>4. OwnInv'
  <2> SUFFICES ASSUME NEW t \in Thread \ upset, NEW i \in DOMAIN comments \ touched', comments[i].by = t
               PROVE  Follows(t, i)'
    BY DEF OwnInv
  <2>1. Follows(t, i)
    BY DEF CInv, OwnInv
  <2>2. \A d \in Call : /\ On(d, t, i)' <=> On(d, t, i)
                        /\ \A w \in {"create", "edit", "delete"} : Answers(d, t, w, i)' <=> Answers(d, t, w, i)
    BY DEF On, Commenting!Busy, Answers
  <2> QED BY <2>1, <2>2, Quiet
<1> QED BY <1>1, <1>2, <1>3, <1>4 DEF CInv

LEMMA StepHides ==
  ASSUME CInv, NEW t \in Thread, Commenting!Hide(t)
  PROVE  CInv'
<1>1. UNCHANGED <<comments, thread, calls, touched, upset>>
  BY DEF Commenting!Hide
<1>2. CommentTypes'
  BY <1>1 DEF CInv, CommentTypes
<1> QED BY <1>1, <1>2, RowsDie

LEMMA StepBulk ==
  ASSUME CInv, NEW t \in Thread, NEW ids \in SUBSET DOMAIN comments, Commenting!BulkDelete(t, ids)
  PROVE  CInv'
<1> DEFINE Row == [by : Thread, body : Commenting!Body, live : BOOLEAN]
           died == [i \in DOMAIN comments |-> IF i \in ids THEN [comments[i] EXCEPT !.live = FALSE] ELSE comments[i]]
<1>1. /\ comments' = died /\ touched' = touched \cup {i \in ids : comments[i].live}
      /\ UNCHANGED <<thread, calls, upset>>
  BY DEF Commenting!BulkDelete
<1>2. /\ comments \in Seq(Row) /\ Len(comments) =< MaxComments
      /\ DOMAIN comments = 1 .. Len(comments) /\ Len(comments) \in Nat
      /\ \A i \in DOMAIN comments : comments[i] \in Row
  BY Commented DEF CInv, CommentTypes
<1>3. \A r \in Row : /\ [r EXCEPT !.live = FALSE] \in Row
                     /\ [r EXCEPT !.live = FALSE].body = r.body /\ [r EXCEPT !.live = FALSE].by = r.by
                     /\ [r EXCEPT !.live = FALSE].live = FALSE
  OBVIOUS
<1>4. \A r \in Row : r.live \/ [r EXCEPT !.live = FALSE] = r
  OBVIOUS
<1> HIDE DEF Row
<1>5. DOMAIN died = DOMAIN comments /\ \A i \in DOMAIN comments : died[i] \in Row
  BY <1>2, <1>3
<1>6. died \in Seq(Row) /\ Len(died) = Len(comments)
  BY <1>2, <1>5
<1>7. \A i \in DOMAIN comments :
        /\ died[i].body = comments[i].body /\ died[i].by = comments[i].by
        /\ died[i].live => comments[i].live
        /\ i \notin touched' => died[i] = comments[i]
  BY <1>1, <1>2, <1>3, <1>4
<1> HIDE DEF died
<1>8. CommentTypes'
  BY <1>1, <1>2, <1>5, <1>6 DEF CInv, CommentTypes, Row
<1> QED BY <1>1, <1>5, <1>7, <1>8, RowsDie

-----------------------------------------------------------------------------
(* What is written.                                                          *)

(* What a call has to be about before its write, and what the write leaves.     *)
LEMMA Writing ==
  ASSUME CInv, CommentTypes', NEW c \in Call, NEW q \in Asked, Serves(c, q), Commenting!Busy(c),
         q.pc = "answered", q.by = calls[c].by, UNCHANGED <<thread, upset>>,
         DOMAIN comments \subseteq DOMAIN comments', touched \subseteq touched',
         \A i \in DOMAIN comments : /\ i # q.id => comments'[i] = comments[i]
                                    /\ comments[i].body = "edited" => comments'[i].body = "edited"
                                    /\ comments'[i].live => comments[i].live
                                    /\ comments'[i].by = comments[i].by,
         \A i \in DOMAIN comments' \ DOMAIN comments : i = q.id,
         SoundCall(c)', calls[c].id = q.id \/ calls[c].id \notin DOMAIN comments,
         \A t \in Thread \ upset :
           /\ t = q.by /\ q.id \notin touched' /\ comments'[q.id].by = t => Follows(t, q.id)'
           /\ t # q.by /\ comments'[q.id].by = t => q.id \in touched'
  PROVE  CInv'
<1>1. CallInv'
  <2> SUFFICES ASSUME NEW d \in Call, Commenting!Busy(d)' PROVE SoundCall(d)'
    BY DEF CallInv
  <2>1. CASE d = c
    BY <2>1
  <2>2. CASE d # c
    <3>1. calls'[d] = calls[d]
      BY <2>2 DEF Serves
    <3>2. SoundCall(d)
      BY <3>1 DEF CInv, CallInv, Commenting!Busy
    <3>3. calls[d].what # "create" => calls[d].id \in DOMAIN comments
      BY <3>2 DEF SoundCall
    <3>4. calls[d].what \in {"create", "edit", "delete"}
      BY <3>1, Kinds DEF CInv, Commenting!Busy, Asked
    <3> QED BY <3>1, <3>2, <3>3, <3>4 DEF SoundCall
  <2> QED BY <2>1, <2>2
<1>2. ListInv'
  BY DEF CInv, ListInv
<1>3. IdleInv'
  BY DEF CInv, IdleInv, Serves, Commenting!Busy
<1>4. OwnInv'
  <2> SUFFICES ASSUME NEW t \in Thread \ upset, NEW i \in DOMAIN comments' \ touched', comments'[i].by = t
               PROVE  Follows(t, i)'
    BY DEF OwnInv
  <2>1. CASE i = q.id
    BY <2>1
  <2>2. CASE i # q.id
    <3>1. i \in DOMAIN comments \ touched /\ comments'[i] = comments[i]
      BY <2>2
    <3>2. Follows(t, i)
      BY <3>1 DEF CInv, OwnInv
    <3>3. ~On(c, t, i) /\ ~(q.by = t /\ q.id = i)
      BY <2>2, <3>1 DEF On
    <3> QED BY <3>1, <3>2, <3>3, Elsewhere
  <2> QED BY <2>1, <2>2
<1> QED BY <1>1, <1>2, <1>3, <1>4 DEF CInv

LEMMA StepInserts ==
  ASSUME CInv, NEW c \in Call, Commenting!InsertComment(c)
  PROVE  CInv'
<1>0. PICK i : i = Len(comments) + 1
  OBVIOUS
<1> DEFINE row == [by |-> calls[c].by, body |-> "first", live |-> TRUE]
           q == [calls[c] EXCEPT !.pc = "answered", !.id = i]
           Row == [by : Thread, body : Commenting!Body, live : BOOLEAN]
<1>1. /\ calls[c].pc = "found" /\ calls[c].what = "create" /\ Len(comments) < MaxComments
      /\ comments' = Append(comments, row)
      /\ calls' = [calls EXCEPT ![c] = q] /\ UNCHANGED <<thread, touched, upset>>
  BY <1>0 DEF Commenting!InsertComment
<1>2. Commenting!Busy(c)
  BY <1>1 DEF Commenting!Busy
<1>3. calls[c] \in Asked /\ SoundCall(c)
  BY <1>2, Kinds DEF CInv, CallInv
<1>4. calls[c].by \in Thread /\ calls[c].body = "first" /\ calls[c].id = 0
  BY <1>1, <1>3 DEF SoundCall, Asked
<1>5. /\ Len(comments) \in Nat /\ DOMAIN comments = 1 .. Len(comments) /\ comments \in Seq(Row)
  BY Commented DEF CInv, CommentTypes
<1>6. i \in 1 .. MaxComments /\ i \in 0 .. MaxComments /\ i \in Nat \ DOMAIN comments /\ i # 0
  BY <1>0, <1>1, <1>5, RoomForComments
<1>7. /\ q \in Asked /\ q.pc = "answered" /\ q.by = calls[c].by /\ q.what = "create" /\ q.id = i
      /\ q.body = "first"
  BY <1>1, <1>3, <1>4, <1>6 DEF Asked
<1>8. row \in Row /\ row.by = calls[c].by /\ row.body = "first" /\ row.live
  BY <1>4, Zenon DEF Commenting!Body
<1> HIDE DEF Row, row
<1>9. /\ comments' \in Seq(Row) /\ Len(comments') = i /\ DOMAIN comments' = 1 .. i
      /\ comments'[i] = row /\ \A j \in DOMAIN comments : comments'[j] = comments[j]
  BY <1>0, <1>1, <1>5, <1>8
<1>10. DOMAIN comments' = DOMAIN comments \cup {i}
  BY <1>0, <1>5, <1>9
<1> HIDE DEF q
<1>11. Serves(c, q)
  BY <1>1, <1>7, Served DEF CInv
<1>12. CommentTypes'
  BY <1>1, <1>6, <1>9, <1>10, <1>11 DEF CInv, CommentTypes, Serves, Row
<1>13. SoundCall(c)'
  BY <1>7, <1>10, <1>11 DEF SoundCall, Serves
<1>14. ASSUME NEW t \in Thread \ upset, t = q.by PROVE Follows(t, i)'
  <2>1. thread[t].load = "done"
    BY <1>2, <1>7, <1>14 DEF CInv, IdleInv
  <2>2. Where(thread[t].list, i) = {}
    BY <1>6 DEF CInv, ListInv
  <2>3. Answers(c, t, "create", i)'
    BY <1>7, <1>11, <1>14 DEF Answers, Serves
  <2>4. ASSUME NEW d \in Call, On(d, t, i)' PROVE d = c
    <3> SUFFICES ASSUME d # c PROVE FALSE
      OBVIOUS
    <3>1. calls'[d] = calls[d]
      BY <1>11 DEF Serves
    <3>2. Commenting!Busy(d) /\ calls[d].id = i
      BY <2>4, <3>1 DEF On, Commenting!Busy
    <3>3. SoundCall(d) /\ calls[d] \in Asked
      BY <3>2, Kinds DEF CInv, CallInv
    <3>4. calls[d].id = 0 \/ calls[d].id \in DOMAIN comments
      BY <3>3 DEF SoundCall, Asked
    <3> QED BY <1>6, <3>2, <3>4
  <2>5. Arriving(t, i)'
    BY <1>1, <1>8, <1>9, <2>2, <2>3, <2>4 DEF Arriving
  <2> QED BY <1>1, <1>8, <1>9, <2>1, <2>5 DEF Follows
<1> QED BY <1>1, <1>2, <1>4, <1>6, <1>7, <1>8, <1>9, <1>10, <1>11, <1>12, <1>13, <1>14, Writing

(* A write to a comment that is there.                                        *)
LEMMA Rewriting ==
  ASSUME CInv, NEW c \in Call, NEW row \in [by : Thread, body : Commenting!Body, live : BOOLEAN],
         NEW q \in Asked, Serves(c, q), calls[c].pc = "found", calls[c].what # "create",
         q.pc = "answered", q.by = calls[c].by, q.what = calls[c].what, q.id = calls[c].id,
         comments' = [comments EXCEPT ![q.id] = row], UNCHANGED <<thread, upset>>, Commenting!Touch(c),
         row.by = comments[q.id].by, row.live => comments[q.id].live,
         comments[q.id].body = "edited" => row.body = "edited",
         q.what = "edit" => q.body = "edited" /\ row.body = "edited" /\ row.live = comments[q.id].live,
         q.what = "delete" => ~row.live
  PROVE  CInv'
<1> DEFINE Row == [by : Thread, body : Commenting!Body, live : BOOLEAN]
           i == q.id
<1>1. Commenting!Busy(c)
  BY DEF Commenting!Busy
<1>2. SoundCall(c) /\ calls[c] \in Asked
  BY <1>1, Kinds DEF CInv, CallInv
<1>3. i \in DOMAIN comments /\ q.what \in {"edit", "delete"}
  BY <1>2 DEF SoundCall, Asked
<1>4. comments \in Seq(Row) /\ Len(comments) =< MaxComments /\ row \in Row
  BY DEF CInv, CommentTypes
<1> HIDE DEF Row
<1>5. /\ comments' \in Seq(Row) /\ Len(comments') = Len(comments) /\ DOMAIN comments' = DOMAIN comments
      /\ comments'[i] = row /\ \A j \in DOMAIN comments \ {i} : comments'[j] = comments[j]
  BY <1>3, <1>4
<1>6. touched' = IF comments[i].by = q.by THEN touched ELSE touched \cup {i}
  BY DEF Commenting!Touch
<1>7. CommentTypes'
  BY <1>3, <1>4, <1>5, <1>6 DEF CInv, CommentTypes, Serves, Row
<1>8. SoundCall(c)'
  BY <1>3, <1>5 DEF SoundCall, Serves
<1>9. ASSUME NEW t \in Thread \ upset, t = q.by, i \notin touched', comments'[i].by = t
      PROVE  Follows(t, i)'
  <2>1. thread[t].load = "done"
    BY <1>1, <1>9 DEF CInv, IdleInv
  <2>2. Follows(t, i)
    BY <1>3, <1>5, <1>6, <1>9 DEF CInv, OwnInv
  <2>3. On(c, t, i) /\ ~Answers(c, t, "create", i)
    BY <1>1, <1>9 DEF On, Answers
  <2>4. ~Arriving(t, i)
    BY <2>3 DEF Arriving
  <2>5. NoCreate(t, i)
    BY <2>1, <2>2, <2>4 DEF Follows, Listed, Gone
  <2>6. \A d \in Call \ {c} : calls'[d] = calls[d]
    BY DEF Serves
  <2>7. Answers(c, t, q.what, i)'
    BY <1>9 DEF Answers, Serves
  <2>8. NoCreate(t, i)'
    BY <1>3, <2>5, <2>6, <2>7 DEF NoCreate, Answers
  <2>9. CASE row.live
    <3>1. q.what = "edit" /\ comments[i].live
      BY <1>3, <2>9
    <3>2. Listed(t, i)
      BY <2>1, <2>2, <2>4, <3>1 DEF Follows
    <3>3. Listed(t, i)'
      BY <2>7, <2>8, <3>1, <3>2 DEF Listed
    <3> QED BY <1>5, <2>1, <2>9, <3>3 DEF Follows
  <2>10. CASE ~row.live
    <3>1. Gone(t, i)'
      <4>1. CASE q.what = "delete"
        BY <2>7, <2>8, <4>1 DEF Gone
      <4>2. CASE q.what = "edit"
        <5>1. Gone(t, i)
          BY <2>1, <2>2, <2>10, <4>2 DEF Follows
        <5>2. \A d \in Call : Answers(d, t, "delete", i) => Answers(d, t, "delete", i)'
          BY <2>6 DEF Answers
        <5> QED BY <2>8, <5>1, <5>2 DEF Gone
      <4> QED BY <1>3, <4>1, <4>2
    <3> QED BY <1>5, <2>1, <2>10, <3>1 DEF Follows
  <2> QED BY <2>9, <2>10
<1>10. \A t \in Thread : t # q.by /\ comments'[i].by = t => i \in touched'
  BY <1>5, <1>6
<1>11. touched \subseteq touched'
  BY <1>6
<1> HIDE DEF i
<1>12. \A j \in DOMAIN comments : /\ j # q.id => comments'[j] = comments[j]
                                  /\ comments[j].body = "edited" => comments'[j].body = "edited"
                                  /\ comments'[j].live => comments[j].live
                                  /\ comments'[j].by = comments[j].by
  BY <1>5 DEF i
<1> QED BY <1>1, <1>5, <1>7, <1>8, <1>9, <1>10, <1>11, <1>12, Writing DEF i

LEMMA StepWrites ==
  ASSUME CInv, NEW c \in Call, Commenting!SaveEdit(c) \/ Commenting!SoftDelete(c)
  PROVE  CInv'
<1> DEFINE Row == [by : Thread, body : Commenting!Body, live : BOOLEAN]
           i == calls[c].id
<1>1. calls[c].pc = "found" /\ calls[c].what \in {"edit", "delete"} /\ Commenting!Touch(c)
      /\ UNCHANGED <<thread, upset>>
  BY DEF Commenting!SaveEdit, Commenting!SoftDelete
<1>2. Commenting!Busy(c)
  BY <1>1 DEF Commenting!Busy
<1>3. SoundCall(c) /\ calls[c] \in Asked
  BY <1>2, Kinds DEF CInv, CallInv
<1>4. i \in DOMAIN comments
  BY <1>1, <1>3 DEF SoundCall
<1>5. comments[i] \in Row
  BY <1>4, Commented DEF CInv
<1>6. CASE Commenting!SaveEdit(c)
  <2> DEFINE row == Commenting!EditedRow(comments[i])
             q == [calls[c] EXCEPT !.pc = "answered", !.body = "edited"]
  <2>1. /\ row \in Row /\ row.by = comments[i].by /\ row.body = "edited" /\ row.live = comments[i].live
    BY <1>5 DEF Commenting!EditedRow, Commenting!Body
  <2>2. /\ q \in Asked /\ q.pc = "answered" /\ q.by = calls[c].by /\ q.what = calls[c].what /\ q.id = i
        /\ q.body = "edited"
    BY <1>3 DEF Asked, Commenting!Body
  <2>3. comments' = [comments EXCEPT ![i] = row] /\ calls' = [calls EXCEPT ![c] = q] /\ calls[c].what = "edit"
    BY <1>6 DEF Commenting!SaveEdit
  <2> HIDE DEF row, q
  <2>4. Serves(c, q)
    BY <2>2, <2>3, Served DEF CInv
  <2> QED BY <1>1, <2>1, <2>2, <2>3, <2>4, Rewriting
<1>7. CASE Commenting!SoftDelete(c)
  <2> DEFINE row == [comments[i] EXCEPT !.live = FALSE]
  <2>1. /\ row \in Row /\ row.by = comments[i].by /\ row.body = comments[i].body /\ ~row.live
    BY <1>5
  <2>2. comments' = [comments EXCEPT ![i] = row] /\ Commenting!Goto(c, "answered") /\ calls[c].what = "delete"
    BY <1>7 DEF Commenting!SoftDelete
  <2>3. PICK q \in Asked : /\ Serves(c, q) /\ q.pc = "answered" /\ q.by = calls[c].by
                           /\ q.what = calls[c].what /\ q.id = i /\ q.body = calls[c].body
    BY <1>2, <2>2, Going DEF CInv
  <2> HIDE DEF row
  <2> QED BY <1>1, <2>1, <2>2, <2>3, Rewriting
<1> QED BY <1>6, <1>7

-----------------------------------------------------------------------------
(* The answers.                                                              *)

Survives(new, list, i) ==
  /\ Where(list, i) = {} => Where(new, i) = {}
  /\ \A x : Has(list, i, x) => Has(new, i, x)

(* What an answer shows: nothing else on the list is touched.                   *)
LEMMA Showing ==
  ASSUME NEW list \in Seq(Commenting!Entry), NEW q \in Asked, q.id \in 1 .. MaxComments
  PROVE  /\ Commenting!Shown(list, q) \in Seq(Commenting!Entry)
         /\ \A i : i # q.id => Survives(Commenting!Shown(list, q), list, i)
         /\ q.what = "create" /\ Where(list, q.id) = {}
              => Has(Commenting!Shown(list, q), q.id, [id |-> q.id, body |-> q.body])
         /\ q.what = "edit" =>
              /\ Where(Commenting!Shown(list, q), q.id) = Where(list, q.id)
              /\ \A x : Has(list, q.id, x) => Has(Commenting!Shown(list, q), q.id, [id |-> q.id, body |-> q.body])
         /\ q.what = "delete" => Where(Commenting!Shown(list, q), q.id) = {}
<1> DEFINE e == [id |-> q.id, body |-> q.body]
           S == {x \in Commenting!Entry : x.id # q.id}
<1>1. e \in Commenting!Entry /\ e.id = q.id
  BY DEF Asked, Commenting!Entry
<1>2. q.what \in {"create", "edit", "delete"}
  BY DEF Asked
<1>3. Commenting!Shown(list, q) = CASE q.what = "create" -> Append(list, e)
                         [] q.what = "edit"   -> Commenting!Updated(list, e)
                         [] OTHER             -> Commenting!Sifted(list, S)
  BY DEF Commenting!Shown
<1>4. \A x : x \in S <=> x \in Commenting!Entry /\ x.id # q.id
  OBVIOUS
<1> HIDE DEF e, S
<1>5. CASE q.what = "create"
  <2>1. Commenting!Shown(list, q) = Append(list, e)
    BY <1>3, <1>5
  <2> QED BY <1>1, <1>5, <2>1, Appending DEF Survives, e
<1>6. CASE q.what = "edit"
  <2>1. Commenting!Shown(list, q) = Commenting!Updated(list, e)
    BY <1>3, <1>6
  <2>2. /\ Commenting!Updated(list, e) \in Seq(Commenting!Entry)
        /\ Where(Commenting!Updated(list, e), q.id) = Where(list, q.id)
    BY <1>1, Updating
  <2>3. \A x : Has(list, q.id, x) => Has(Commenting!Updated(list, e), q.id, e)
    BY <1>1, Updating
  <2>4. \A i : i # q.id => Survives(Commenting!Updated(list, e), list, i)
    BY <1>1, Updating DEF Survives
  <2> QED BY <1>6, <2>1, <2>2, <2>3, <2>4 DEF e
<1>7. CASE q.what = "delete"
  <2>1. Commenting!Shown(list, q) = Commenting!Sifted(list, S)
    BY <1>3, <1>7
  <2>2. \A i, x : i # q.id /\ Has(list, i, x) => x \in S
    <3>1. \A n \in DOMAIN list : list[n] \in Commenting!Entry
      OBVIOUS
    <3> QED BY <1>4, <3>1 DEF Has, Where
  <2>3. \A i : i # q.id => Survives(Commenting!Sifted(list, S), list, i)
    <3>1. \A i : Where(list, i) = {} => Where(Commenting!Sifted(list, S), i) = {}
      BY Sifting
    <3> QED BY <2>2, <3>1, Sifting DEF Survives
  <2>4. \A n \in Where(list, q.id) : list[n] \notin S
    BY <1>4 DEF Where
  <2>5. Where(Commenting!Sifted(list, S), q.id) = {} /\ Commenting!Sifted(list, S) \in Seq(Commenting!Entry)
    BY <2>4, Sifting
  <2> QED BY <1>7, <2>1, <2>3, <2>5
<1> QED BY <1>2, <1>5, <1>6, <1>7

LEMMA StepArrives ==
  ASSUME CInv, NEW c \in Call, Commenting!Arrive(c)
  PROVE  CInv'
<1>0. calls[c].pc = "answered" /\ UNCHANGED <<comments, touched, upset>>
  BY DEF Commenting!Arrive
<1>1. PICK q : q = calls[c]
  OBVIOUS
<1>2. Commenting!Busy(c) /\ q \in Asked /\ SoundCall(c) /\ q.pc = "answered"
  BY <1>0, <1>1, Kinds DEF CInv, CallInv, Commenting!Busy
<1>3. q.id \in DOMAIN comments /\ q.what \in {"create", "edit", "delete"} /\ q.by \in Thread
  BY <1>1, <1>2 DEF SoundCall, Asked
<1>4. PICK new : new = Commenting!Shown(thread[q.by].list, q)
  OBVIOUS
<1>5. thread[q.by] \in [load : Loads, read : Seq(Commenting!Entry), list : Seq(Commenting!Entry)]
  BY <1>3 DEF CInv, CommentTypes, Loads
<1>6. q.id \in 1 .. MaxComments
  BY <1>3, Commented DEF CInv
<1>7. /\ new \in Seq(Commenting!Entry)
      /\ \A i : i # q.id => Survives(new, thread[q.by].list, i)
      /\ q.what = "create" /\ Where(thread[q.by].list, q.id) = {}
           => Has(new, q.id, [id |-> q.id, body |-> q.body])
      /\ q.what = "edit" =>
           /\ Where(new, q.id) = Where(thread[q.by].list, q.id)
           /\ \A x : Has(thread[q.by].list, q.id, x) => Has(new, q.id, [id |-> q.id, body |-> q.body])
      /\ q.what = "delete" => Where(new, q.id) = {}
  BY <1>2, <1>4, <1>5, <1>6, Showing
<1>8. /\ thread' = [thread EXCEPT ![q.by].list = new]
      /\ calls' = [calls EXCEPT ![c] = Commenting!None]
  BY <1>1, <1>4 DEF Commenting!Arrive
<1>9. Commenting!None \in Asked \cup {Commenting!None} /\ Commenting!None.pc = "none"
  BY DEF Commenting!None
<1>10. Serves(c, Commenting!None)
  BY <1>8, <1>9, Served DEF CInv
<1>11. /\ thread' \in [Thread -> [load : Loads, read : Seq(Commenting!Entry), list : Seq(Commenting!Entry)]]
       /\ thread'[q.by].load = thread[q.by].load /\ thread'[q.by].read = thread[q.by].read
       /\ thread'[q.by].list = new
       /\ \A t \in Thread \ {q.by} : thread'[t] = thread[t]
  BY <1>3, <1>5, <1>7, <1>8 DEF CInv, CommentTypes, Loads
<1>12. \A d \in Call \ {c} : calls'[d] = calls[d]
  BY <1>10 DEF Serves
<1>13. calls'[c].pc = "none"
  BY <1>9, <1>10 DEF Serves
<1>14. CommentTypes'
  BY <1>0, <1>10, <1>11 DEF CInv, CommentTypes, Serves, Loads
<1>15. CallInv'
  <2> SUFFICES ASSUME NEW d \in Call, Commenting!Busy(d)' PROVE SoundCall(d)'
    BY DEF CallInv
  <2>1. calls'[d] = calls[d]
    BY <1>12, <1>13 DEF Commenting!Busy
  <2>2. SoundCall(d)
    BY <2>1 DEF CInv, CallInv, Commenting!Busy
  <2> QED BY <1>0, <2>1, <2>2 DEF SoundCall
<1>16. ListInv'
  <2> SUFFICES ASSUME NEW t \in Thread, NEW i \in Nat \ DOMAIN comments
               PROVE  Where(thread'[t].read, i) = {} /\ Where(thread'[t].list, i) = {}
    BY <1>0 DEF ListInv
  <2>1. Where(thread[t].read, i) = {} /\ Where(thread[t].list, i) = {}
    BY DEF CInv, ListInv
  <2>2. i # q.id
    BY <1>3
  <2> QED BY <1>7, <1>11, <2>1, <2>2 DEF Survives
<1>17. IdleInv'
  <2> SUFFICES ASSUME NEW t \in Thread \ upset, thread'[t].load # "done", NEW d \in Call, Commenting!Busy(d)'
               PROVE  calls'[d].by # t
    BY <1>0 DEF IdleInv
  <2>1. thread[t].load # "done"
    BY <1>11
  <2>2. d # c /\ calls'[d] = calls[d]
    BY <1>12, <1>13 DEF Commenting!Busy
  <2> QED BY <2>1, <2>2 DEF CInv, IdleInv, Commenting!Busy
<1>18. ASSUME NEW t \in Thread \ upset, NEW i \in DOMAIN comments \ touched, comments[i].by = t
       PROVE  Follows(t, i)'
  <2>1. Follows(t, i) /\ Commenting!Written(i)' = Commenting!Written(i)
    BY <1>0, <1>18 DEF CInv, OwnInv, Commenting!Written
  <2>2. CASE ~On(c, t, i)
    <3>1. \A d \in Call : On(d, t, i)' => On(d, t, i)
      BY <1>12, <1>13 DEF On, Commenting!Busy
    <3>2. \A d \in Call : \A w : Answers(d, t, w, i)' <=> Answers(d, t, w, i)
      <4>1. \A w : ~Answers(c, t, w, i)' /\ ~Answers(c, t, w, i)
        BY <1>0, <1>13, <2>2 DEF Answers, On, Commenting!Busy
      <4> QED BY <1>12, <4>1 DEF Answers
    <3>3. Survives(thread'[t].list, thread[t].list, i)
      <4>1. CASE t = q.by
        <5>1. i # q.id
          BY <1>1, <1>2, <2>2, <4>1 DEF On
        <5> QED BY <1>7, <1>11, <4>1, <5>1
      <4>2. CASE t # q.by
        BY <1>11, <4>2 DEF Survives
      <4> QED BY <4>1, <4>2
    <3>4. thread'[t].load = thread[t].load /\ thread'[t].read = thread[t].read
      BY <1>11
    <3>5. NoCreate(t, i)' <=> NoCreate(t, i)
      BY <3>2 DEF NoCreate
    <3>6. Arriving(t, i) => Arriving(t, i)'
      BY <1>0, <3>1, <3>2, <3>3 DEF Arriving, Survives
    <3>7. Listed(t, i) => Listed(t, i)'
      BY <2>1, <3>2, <3>3, <3>5 DEF Listed, Survives
    <3>8. Gone(t, i) => Gone(t, i)'
      BY <3>2, <3>3, <3>5 DEF Gone, Survives
    <3>9. ListRight(thread[t].read, i) => ListRight(thread[t].read, i)'
      BY <1>0, <2>1, <3>4 DEF ListRight
    <3> QED BY <1>0, <2>1, <3>4, <3>6, <3>7, <3>8, <3>9 DEF Follows
  <2>3. CASE On(c, t, i)
    <3>1. q.by = t /\ q.id = i
      BY <1>1, <2>3 DEF On
    <3>2. thread[t].load = "done" /\ thread'[t].load = "done" /\ thread'[t].list = new
      BY <1>1, <1>2, <1>11, <3>1 DEF CInv, IdleInv
    <3>3. ~Answers(c, t, "create", i)'
      BY <1>13 DEF Answers
    <3>4. CASE q.what = "create"
      <4>1. Answers(c, t, "create", i)
        BY <1>0, <1>1, <3>1, <3>4 DEF Answers
      <4>2. Arriving(t, i) /\ comments[i].live
        BY <2>1, <3>2, <4>1 DEF Follows, Listed, Gone, NoCreate
      <4>3. \A d \in Call : On(d, t, i) => d = c
        BY <2>3, <4>2 DEF Arriving
      <4>4. NoCreate(t, i)'
        BY <1>12, <3>3, <4>3 DEF NoCreate, Answers, On, Commenting!Busy
      <4>5. Commenting!Written(i) = [id |-> i, body |-> "first"] /\ Commenting!Written(i) \in Commenting!Entry
        BY <4>2, Commented DEF Arriving, Commenting!Written, CInv
      <4>6. q.body = "first" /\ Where(thread[t].list, i) = {}
        BY <1>1, <1>2, <3>4, <4>2 DEF SoundCall, Arriving
      <4>7. Has(new, i, Commenting!Written(i))
        BY <1>7, <3>1, <3>4, <4>5, <4>6
      <4>8. Listed(t, i)'
        BY <2>1, <3>2, <4>4, <4>5, <4>7 DEF Listed
      <4> QED BY <1>0, <3>2, <4>2, <4>8 DEF Follows
    <3>5. CASE q.what # "create"
      <4>1. ~Arriving(t, i)
        BY <1>1, <2>3, <3>5 DEF Arriving, Answers
      <4>2. NoCreate(t, i)
        BY <2>1, <3>2, <4>1 DEF Follows, Listed, Gone
      <4>3. NoCreate(t, i)'
        BY <1>12, <3>3, <4>2 DEF NoCreate, Answers
      <4>4. \A d \in Call \ {c} : \A w : Answers(d, t, w, i)' <=> Answers(d, t, w, i)
        BY <1>12 DEF Answers
      <4>5. CASE q.what = "edit"
        <5>1. q.body = "edited" /\ comments[i].body = "edited"
          BY <1>1, <1>2, <3>1, <4>5 DEF SoundCall
        <5>2. /\ Commenting!Written(i) = [id |-> i, body |-> q.body]
              /\ Commenting!Written(i) \in Commenting!Entry
          BY <1>3, <3>1, <5>1, Commented DEF Commenting!Written, CInv
        <5>3. CASE comments[i].live
          <6>1. Listed(t, i)
            BY <2>1, <3>2, <4>1, <5>3 DEF Follows
          <6>2. Has(new, i, Commenting!Written(i))
            BY <1>7, <3>1, <4>5, <5>2, <6>1 DEF Listed
          <6>3. Listed(t, i)'
            BY <2>1, <3>2, <4>3, <5>2, <6>2 DEF Listed
          <6> QED BY <1>0, <3>2, <5>3, <6>3 DEF Follows
        <5>4. CASE ~comments[i].live
          <6>1. Gone(t, i)
            BY <2>1, <3>2, <5>4 DEF Follows
          <6>2. ~Answers(c, t, "delete", i)
            BY <1>1, <4>5 DEF Answers
          <6>3. Gone(t, i)'
            BY <1>7, <3>1, <3>2, <4>3, <4>4, <4>5, <6>1, <6>2 DEF Gone
          <6> QED BY <1>0, <3>2, <5>4, <6>3 DEF Follows
        <5> QED BY <5>3, <5>4
      <4>6. CASE q.what = "delete"
        <5>1. ~comments[i].live
          BY <1>1, <1>2, <3>1, <4>6 DEF SoundCall
        <5>2. Gone(t, i)'
          BY <1>7, <3>1, <3>2, <4>3, <4>6 DEF Gone
        <5> QED BY <1>0, <3>2, <5>1, <5>2 DEF Follows
      <4> QED BY <1>3, <3>5, <4>5, <4>6
    <3> QED BY <3>4, <3>5
  <2> QED BY <2>2, <2>3
<1>19. OwnInv'
  BY <1>0, <1>18 DEF OwnInv
<1> QED BY <1>14, <1>15, <1>16, <1>17, <1>19 DEF CInv

LEMMA StepC == CInv /\ [Commenting!Next]_(Commenting!commentVars) => CInv'
<1> SUFFICES ASSUME CInv, [Commenting!Next]_(Commenting!commentVars) PROVE CInv'
  OBVIOUS
<1>1. CASE UNCHANGED Commenting!commentVars
  <2>1. CommentTypes' /\ UNCHANGED <<comments, thread, calls, upset, touched>>
    BY <1>1 DEF Commenting!commentVars, CInv, CommentTypes
  <2> QED BY <2>1, RowsDie
<1>2. ASSUME NEW t \in Thread, \/ Commenting!LoadReads(t) \/ Commenting!LoadArrives(t)
                               \/ Commenting!LoadFails(t) \/ Commenting!Hide(t)
                               \/ \E ids \in SUBSET DOMAIN comments : Commenting!BulkDelete(t, ids)
      PROVE  CInv'
  BY <1>2, StepLoads, StepHides, StepBulk
<1>3. ASSUME NEW c \in Call,
             \/ \E t \in Thread : \/ Commenting!Submit(c, t)
                                 \/ \E i \in DOMAIN comments : Commenting!Delete(c, t, i) \/ Commenting!Edit(c, t, i)
             \/ Commenting!GateCreate(c) \/ Commenting!InsertComment(c) \/ Commenting!FindComment(c)
             \/ Commenting!SaveEdit(c) \/ Commenting!SoftDelete(c)
             \/ Commenting!Arrive(c) \/ Commenting!CallFails(c)
      PROVE  CInv'
  BY <1>3, StepSends, StepFinds, StepInserts, StepWrites, StepArrives, StepFails
<1> QED BY <1>1, <1>2, <1>3 DEF Commenting!Next

LEMMA AtRest == CInv => Commenting!OwnCommentsRight
<1> SUFFICES ASSUME CInv, NEW t \in Thread, t \notin upset, thread[t].load = "done",
                    \A c \in Call : Commenting!Busy(c) => calls[c].by # t,
                    NEW i \in DOMAIN comments \ touched, comments[i].by = t
             PROVE  LET at == {n \in DOMAIN thread[t].list : thread[t].list[n].id = i} IN
                    IF comments[i].live THEN \E n \in at : at = {n} /\ thread[t].list[n] = Commenting!Written(i)
                    ELSE at = {}
  BY DEF Commenting!OwnCommentsRight
<1>1. Follows(t, i)
  BY DEF CInv, OwnInv
<1>2. \A c \in Call : \A w : ~Answers(c, t, w, i)
  BY DEF Answers, Commenting!Busy
<1>3. IF comments[i].live THEN Has(thread[t].list, i, Commenting!Written(i)) ELSE Where(thread[t].list, i) = {}
  BY <1>1, <1>2 DEF Follows, Arriving, Listed, Gone
<1> QED BY <1>3 DEF Has, Where

(* The inductive invariant of threads and comments holds in every reachable state. *)
THEOREM CommentInvHolds == Commenting!Spec => []CInv
<1>1. CInv /\ [Commenting!Next]_(Commenting!commentVars) => CInv'
  BY StepC
<1> QED BY InitC, <1>1, PTL DEF Commenting!Spec

(* A thread at rest that nothing failed for has each living comment of its user     *)
(* once, as the server has it, and none of the dead ones, in whatever order answers  *)
(* came and however an edit, a deletion and a moderation of it overlapped.           *)
THEOREM OwnCommentsFollow == Commenting!Spec => []OwnCommentsRight
<1>1. CInv => OwnCommentsRight
  BY AtRest DEF OwnCommentsRight
<1> QED BY CommentInvHolds, <1>1, PTL

-----------------------------------------------------------------------------
(* The run's specification is that of its two parts, so each theorem above is      *)
(* about the run's behaviours, too.                                          *)
THEOREM EngagementComposes == MCSpec => Spec /\ Commenting!Spec
<1>1. Scenes => Init /\ Commenting!Init
  BY DEF Scenes
<1>2. [Steps]_<<scene, reactionVars, commentVars>> =>
        [Next]_reactionVars /\ [Commenting!Next]_(Commenting!commentVars)
  BY DEF Steps, commentVars, Commenting!commentVars
<1> QED BY <1>1, <1>2, PTL DEF MCSpec, Spec, Commenting!Spec

=============================================================================
