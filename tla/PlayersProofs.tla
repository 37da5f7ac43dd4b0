--------------------------- MODULE PlayersProofs ----------------------------
(***************************************************************************)
(* Proofs about players and their pokémon: the balls of a player, skulls   *)
(* and frags, the ailments of a creature, private channels, the reports of *)
(* rule violations, one house and its rent, and parties, for any players,  *)
(* pokémon, gamemasters, tenants, editors, beds, ids, periods, durations,  *)
(* limits and addresses.                                                   *)
(***************************************************************************)
EXTENDS Pvp, Ailments, Balls, Chat, Reports, House, Rent, Party, TLAPS

-----------------------------------------------------------------------------
(* Balls.                                                                  *)

BallSlots == {"right", "left", "feet", "ammo"}
BallPlaces == BallSlots \union {"bag"}

\* The type of a team, some of whose balls may be taken out for a moment.
TeamType ==
  [vacant : SUBSET BallSlots, place : [Pokemon -> BallPlaces \union {"nowhere"}],
   ball : [Pokemon -> {"alive", "inuse", "dead"}], fit : [Pokemon -> BOOLEAN],
   out : Seq(Pokemon),
   later : Seq([what : {"return", "change"}, of : Pokemon, first : BOOLEAN]),
   tidy : BOOLEAN]

OneEach(t) ==
  \A p, q \in Pokemon : p # q /\ t.place[p] = t.place[q] => t.place[p] = "bag"
AtFeet(t) == InUse(t) \subseteq Held(t, "feet")

\* What balls and pokémon tell, wherever the balls are.
OneStory(t) == Len(t.out) <= 1 /\ InUse(t) = ToSet(t.out) /\ HealthShown(t)

Whole(t) == t \in TeamType /\ t.place \in [Pokemon -> BallPlaces] /\ OneEach(t)

\* A handler may leave a ball in use elsewhere, but the story must be true when
\* it did not.
Told(t) == Whole(t) /\ (t.tidy => OneStory(t))
NearlyTold(t) == Whole(t) /\ (t.tidy /\ AtFeet(t) => OneStory(t))
TeamInv(t) == Told(t) /\ (t.tidy => AtFeet(t))

\* The slots by name.
LEMMA SlotNames == ToSet(Slots) = BallSlots /\ DOMAIN Slots = 1..4
BY DEF ToSet, Slots, BallSlots

\* A ball goes to a free slot, or to the bag.
LEMMA Firsts ==
  ASSUME NEW t \in TeamType
  PROVE  FirstFree(t) \in Free(t) \union {"bag"}
<1> DEFINE I == {i \in DOMAIN Slots : Slots[i] \in Free(t)}
<1>1. CASE Free(t) = {}
  BY <1>1 DEF FirstFree
<1>2. CASE Free(t) # {}
  <2>1. I # {} /\ I \subseteq 1..4
    <3>1. Free(t) \subseteq BallSlots
      BY DEF Free, TeamType
    <3>2. QED
      BY <1>2, <3>1, SlotNames DEF ToSet
  <2>2. \E i \in I : \A j \in I : i =< j
    <3>1. CASE 1 \in I
      BY <2>1, <3>1
    <3>2. CASE 1 \notin I /\ 2 \in I
      BY <2>1, <3>2
    <3>3. CASE 1 \notin I /\ 2 \notin I /\ 3 \in I
      BY <2>1, <3>3
    <3>4. CASE 1 \notin I /\ 2 \notin I /\ 3 \notin I
      BY <2>1, <3>4
    <3>5. QED
      BY <3>1, <3>2, <3>3, <3>4
  <2>3. Min(I) \in I
    BY <2>2 DEF Min
  <2>4. FirstFree(t) = Slots[Min(I)]
    BY <1>2 DEF FirstFree
  <2> HIDE DEF I
  <2>5. QED
    BY <2>3, <2>4 DEF I
<1>3. QED
  BY <1>1, <1>2

\* Sequences of no more than one.
LEMMA Single ==
  ASSUME NEW s \in Seq(Pokemon), Len(s) <= 1
  PROVE  /\ s = <<>> => ToSet(s) = {}
         /\ s # <<>> => /\ Len(s) = 1 /\ s[1] \in Pokemon /\ Head(s) = s[1]
                        /\ ToSet(s) = {s[1]} /\ Tail(s) = <<>>
<1>1. Len(s) \in Nat /\ DOMAIN s = 1..Len(s)
  OBVIOUS
<1>2. CASE s = <<>>
  BY <1>2 DEF ToSet
<1>3. CASE s # <<>>
  <2>1. Len(s) # 0
    BY <1>3
  <2>2. Len(s) = 1
    BY <1>1, <2>1
  <2>3. DOMAIN s = {1} /\ s[1] \in Pokemon /\ Head(s) = s[1]
    BY <1>1, <1>3, <2>2
  <2>4. Tail(s) = <<>>
    <3>1. Tail(s) \in Seq(Pokemon) /\ Len(Tail(s)) = Len(s) - 1
      BY <1>3
    <3>2. Len(Tail(s)) = 0
      BY <2>2, <3>1
    <3>3. QED
      BY <3>1, <3>2
  <2>5. ToSet(s) = {s[1]}
    BY <2>3 DEF ToSet
  <2>6. QED
    BY <1>3, <2>2, <2>3, <2>4, <2>5
<1>4. QED
  BY <1>2, <1>3

\* What is left when one is taken out.
LEMMA TakenOut ==
  ASSUME NEW s \in Seq(Pokemon), NEW i \in DOMAIN s
  PROVE  RemoveAt(s, i) \in Seq(Pokemon) /\ (Len(s) = 1 => RemoveAt(s, i) = <<>>)
<1>1. Len(s) \in Nat /\ DOMAIN s = 1..Len(s) /\ i \in Nat /\ 1 <= i /\ i <= Len(s)
  OBVIOUS
<1> DEFINE l == SubSeq(s, 1, i - 1)
           r == SubSeq(s, i + 1, Len(s))
<1>2. l \in Seq(Pokemon)
  BY <1>1
<1>3. r \in Seq(Pokemon)
  BY <1>1
<1>4. ASSUME Len(s) = 1 PROVE l = <<>> /\ r = <<>>
  BY <1>1, <1>4
<1> HIDE DEF l, r
<1>5. l \o r \in Seq(Pokemon)
  BY <1>2, <1>3
<1>6. l = <<>> /\ r = <<>> => l \o r = <<>>
  OBVIOUS
<1>7. QED
  BY <1>4, <1>5, <1>6 DEF RemoveAt, l, r

\* Turns: who is tidy afterwards has the ball in use at the feet, and tells the
\* truth, if he did so before or all are back.
LEMMA Tidying ==
  ASSUME NEW t, NearlyTold(t)
  PROVE  TeamInv(Tidied(t))
<1> DEFINE b == AtFeet(t) /\ (t.tidy \/ AllBack(t))
           u == Tidied(t)
<1>1. t \in TeamType
  BY DEF NearlyTold, Whole
<1>2. /\ u \in TeamType /\ u.vacant = t.vacant /\ u.place = t.place /\ u.ball = t.ball
      /\ u.fit = t.fit /\ u.out = t.out /\ u.tidy = b
  BY <1>1 DEF Tidied, TeamType, AtFeet
<1> HIDE DEF u
<1>3. /\ InUse(u) = InUse(t) /\ Held(u, "feet") = Held(t, "feet")
      /\ (HealthShown(u) <=> HealthShown(t))
  BY <1>2 DEF InUse, Held, HealthShown
<1>4. Whole(u)
  BY <1>2 DEF NearlyTold, Whole, OneEach
<1>5. ASSUME b PROVE OneStory(u) /\ AtFeet(u)
  <2>1. CASE t.tidy
    BY <1>2, <1>3, <1>5, <2>1 DEF NearlyTold, OneStory, AtFeet
  <2>2. CASE AllBack(t)
    <3>1. ToSet(<<>>) = {}
      BY DEF ToSet
    <3>2. QED
      BY <1>2, <1>3, <1>5, <2>2, <3>1 DEF AllBack, OneStory, AtFeet
  <2>3. QED
    BY <1>5, <2>1, <2>2
<1>6. QED
  BY <1>2, <1>4, <1>5 DEF TeamInv, Told, u

\* A ball shows that its pokémon fainted, or is well.
LEMMA Fainting ==
  ASSUME NEW t, Whole(t), NEW p \in Pokemon
  PROVE  /\ Whole(Faint(t, p)) /\ Faint(t, p).place = t.place /\ Faint(t, p).tidy = t.tidy
         /\ Faint(t, p).out = t.out
         /\ InUse(Faint(t, p)) = InUse(t) \ {p}
         /\ HealthShown(t) => HealthShown(Faint(t, p))
<1> DEFINE u == Faint(t, p)
<1>1. t \in TeamType /\ u = [t EXCEPT !.ball[p] = "dead", !.fit[p] = FALSE]
  BY DEF Whole, Faint
<1> HIDE DEF u
<1>2. /\ u \in TeamType /\ u.place = t.place /\ u.out = t.out /\ u.tidy = t.tidy
      /\ \A q \in Pokemon : /\ u.ball[q] = IF q = p THEN "dead" ELSE t.ball[q]
                            /\ u.fit[q] = IF q = p THEN FALSE ELSE t.fit[q]
  BY <1>1 DEF TeamType
<1>3. Whole(u)
  BY <1>2 DEF Whole, OneEach
<1>4. InUse(u) = InUse(t) \ {p}
  BY <1>2 DEF InUse
<1>5. HealthShown(t) => HealthShown(u)
  BY <1>2 DEF HealthShown
<1>6. QED
  BY <1>2, <1>3, <1>4, <1>5 DEF u

\* A ball shows that its pokémon is well.
LEMMA Healing ==
  ASSUME NEW t, Whole(t), NEW p \in Pokemon
  PROVE  /\ Whole(Heal(t, p)) /\ Heal(t, p).place = t.place /\ Heal(t, p).tidy = t.tidy
         /\ Heal(t, p).out = t.out
         /\ InUse(Heal(t, p)) = InUse(t) \ {p}
         /\ HealthShown(t) => HealthShown(Heal(t, p))
<1> DEFINE u == Heal(t, p)
<1>1. t \in TeamType /\ u = [t EXCEPT !.ball[p] = "alive", !.fit[p] = TRUE]
  BY DEF Whole, Heal
<1> HIDE DEF u
<1>2. /\ u \in TeamType /\ u.place = t.place /\ u.out = t.out /\ u.tidy = t.tidy
      /\ \A q \in Pokemon : /\ u.ball[q] = IF q = p THEN "alive" ELSE t.ball[q]
                            /\ u.fit[q] = IF q = p THEN TRUE ELSE t.fit[q]
  BY <1>1 DEF TeamType
<1>3. Whole(u)
  BY <1>2 DEF Whole, OneEach
<1>4. InUse(u) = InUse(t) \ {p}
  BY <1>2 DEF InUse
<1>5. HealthShown(t) => HealthShown(u)
  BY <1>2 DEF HealthShown
<1>6. QED
  BY <1>2, <1>3, <1>4, <1>5 DEF u

\* The pokémon out change, or the events to come.
LEMMA Sending ==
  ASSUME NEW t, Whole(t), NEW u, u \in TeamType,
         u.vacant = t.vacant, u.place = t.place, u.ball = t.ball, u.fit = t.fit
  PROVE  /\ Whole(u) /\ InUse(u) = InUse(t) /\ (HealthShown(t) => HealthShown(u))
         /\ \A s : Held(u, s) = Held(t, s)
BY DEF Whole, OneEach, InUse, HealthShown, Held

\* doReturnPokemon: the pokémon is back, and none is out any more.
LEMMA Recalling ==
  ASSUME NEW t, Whole(t), NEW p \in Pokemon, t.out # <<>>
  PROVE  /\ Whole(Recall(t, p)) /\ Recall(t, p).place = t.place
         /\ Recall(t, p).tidy = t.tidy
         /\ OneStory(t) /\ p \in InUse(t) => OneStory(Recall(t, p)) /\ InUse(Recall(t, p)) = {}
<1> DEFINE v == Heal(t, p)
           u == Recall(t, p)
<1>1. /\ Whole(v) /\ v.place = t.place /\ v.tidy = t.tidy /\ v.out = t.out
      /\ InUse(v) = InUse(t) \ {p} /\ (HealthShown(t) => HealthShown(v))
  BY Healing
<1>2. u = [v EXCEPT !.out = Tail(v.out)]
  BY DEF Recall
<1> HIDE DEF u, v
<1>3. v \in TeamType /\ v.out \in Seq(Pokemon) /\ v.out # <<>>
  BY <1>1 DEF Whole, TeamType
<1>4. Tail(v.out) \in Seq(Pokemon)
  BY <1>3
<1>5. /\ u \in TeamType /\ u.vacant = v.vacant /\ u.place = v.place /\ u.ball = v.ball
      /\ u.fit = v.fit /\ u.tidy = v.tidy /\ u.out = Tail(v.out)
  BY <1>2, <1>3, <1>4 DEF TeamType
<1>6. Whole(u) /\ InUse(u) = InUse(v) /\ (HealthShown(v) => HealthShown(u))
  BY <1>1, <1>5, Sending
<1>7. ASSUME OneStory(t), p \in InUse(t) PROVE OneStory(u) /\ InUse(u) = {}
  <2>1. t.out \in Seq(Pokemon) /\ Len(t.out) <= 1 /\ InUse(t) = ToSet(t.out) /\ HealthShown(t)
    BY <1>1, <1>3, <1>7 DEF OneStory
  <2>2. ToSet(t.out) = {t.out[1]} /\ Tail(t.out) = <<>>
    BY <1>1, <1>3, <2>1, Single
  <2>3. u.out = <<>> /\ InUse(u) = {}
    BY <1>1, <1>5, <1>6, <1>7, <2>1, <2>2
  <2>4. ToSet(<<>>) = {} /\ Len(<<>>) = 0
    BY DEF ToSet
  <2>5. QED
    BY <1>1, <1>6, <2>1, <2>3, <2>4 DEF OneStory
<1>8. QED
  BY <1>1, <1>5, <1>6, <1>7 DEF u

\* A pokémon goes out of the ball at the feet.
LEMMA Going ==
  ASSUME NEW t, Whole(t), NEW p \in Pokemon, t.place[p] = "feet", NEW placed \in BOOLEAN,
         t.tidy => OneStory(t) /\ p \notin InUse(t)
  PROVE  /\ Whole(Go(t, p, placed)) /\ Go(t, p, placed).place = t.place
         /\ Go(t, p, placed).tidy = t.tidy
         /\ t.tidy /\ AtFeet(Go(t, p, placed)) => OneStory(Go(t, p, placed))
         /\ t.tidy /\ AtFeet(t) => AtFeet(Go(t, p, placed))
<1> DEFINE g == Go(t, p, placed)
<1>1. t \in TeamType /\ t.out \in Seq(Pokemon)
  BY DEF Whole, TeamType
<1>2. CASE ~t.fit[p]
  <2> DEFINE v == Faint(t, p)
  <2>1. g = v
    BY <1>2 DEF Go
  <2>2. Whole(v) /\ v.place = t.place /\ v.tidy = t.tidy /\ v.out = t.out
        /\ InUse(v) = InUse(t) \ {p} /\ (HealthShown(t) => HealthShown(v))
    BY Fainting
  <2> HIDE DEF g, v
  <2>3. Held(v, "feet") = Held(t, "feet")
    BY <2>2 DEF Held
  <2>4. t.tidy => OneStory(v) /\ InUse(v) = InUse(t)
    BY <2>2 DEF OneStory
  <2>5. QED
    BY <2>1, <2>2, <2>3, <2>4 DEF AtFeet, g
<1>3. CASE t.fit[p]
  <2> DEFINE o == IF placed THEN Append(t.out, p) ELSE t.out
  <2>1. g = IF o = <<>> THEN t ELSE [t EXCEPT !.out = o, !.ball[p] = "inuse"]
    BY <1>3 DEF Go, Summon
  <2>2. o \in Seq(Pokemon)
    BY <1>1
  <2>3. CASE o = <<>>
    <3>1. g = t
      BY <2>1, <2>3
    <3> HIDE DEF g
    <3>2. QED
      BY <3>1 DEF g
  <2>4. CASE o # <<>>
    <3>1. g = [t EXCEPT !.out = o, !.ball[p] = "inuse"]
      BY <2>1, <2>4
    <3>2. placed => Len(o) = Len(t.out) + 1 /\ o[Len(t.out) + 1] = p
      BY <1>1
    <3>3. ~placed => o = t.out
      OBVIOUS
    <3> HIDE DEF g, o
    <3>4. /\ g \in TeamType /\ g.place = t.place /\ g.out = o /\ g.tidy = t.tidy /\ g.fit = t.fit
          /\ \A q \in Pokemon : g.ball[q] = IF q = p THEN "inuse" ELSE t.ball[q]
      BY <1>1, <2>2, <3>1 DEF TeamType
    <3>5. Whole(g)
      BY <3>4 DEF Whole, OneEach
    <3>6. InUse(g) = InUse(t) \union {p} /\ Held(g, "feet") = Held(t, "feet")
      BY <3>4 DEF InUse, Held
    <3>7. p \in Held(t, "feet")
      BY DEF Held
    <3>8. ASSUME t.tidy, AtFeet(g) PROVE OneStory(g)
      <4>1. \A q \in Held(t, "feet") : q = p
        BY <3>7 DEF Held, Whole, OneEach
      <4>2. InUse(t) = {}
        BY <3>6, <3>8, <4>1 DEF AtFeet
      <4>3. t.out = <<>>
        <5>1. Len(t.out) <= 1 /\ ToSet(t.out) = {}
          BY <3>8, <4>2 DEF OneStory
        <5>2. QED
          BY <1>1, <5>1, Single
      <4>4. placed
        BY <2>4, <3>3, <4>3
      <4>5. Len(o) = 1 /\ o[1] = p
        BY <3>2, <4>3, <4>4
      <4>6. ToSet(o) = {p}
        <5>1. Len(o) <= 1
          BY <4>5
        <5>2. ToSet(o) = {o[1]}
          BY <2>2, <2>4, <5>1, Single
        <5>3. QED
          BY <4>5, <5>2
      <4>7. HealthShown(g)
        <5>1. t.ball[p] = "dead" <=> ~t.fit[p]
          BY <3>8 DEF OneStory, HealthShown
        <5>2. HealthShown(t)
          BY <3>8 DEF OneStory
        <5>3. QED
          BY <1>3, <3>4, <5>2 DEF HealthShown
      <4>8. QED
        BY <3>4, <3>6, <4>2, <4>5, <4>6, <4>7 DEF OneStory
    <3>9. AtFeet(t) => AtFeet(g)
      BY <3>6, <3>7 DEF AtFeet
    <3>10. QED
      BY <3>4, <3>5, <3>8, <3>9 DEF g
  <2>5. QED
    BY <2>3, <2>4
<1>4. QED
  BY <1>2, <1>3

\* The one ball in use when one is out.
LEMMA OneInUse ==
  ASSUME NEW t, Whole(t), OneStory(t), NEW p \in InUse(t)
  PROVE  t.out # <<>> /\ InUse(t) = {p} /\ t.out = <<p>>
<1>1. t.out \in Seq(Pokemon) /\ Len(t.out) <= 1 /\ InUse(t) = ToSet(t.out)
  BY DEF Whole, TeamType, OneStory
<1>2. t.out # <<>> /\ Len(t.out) = 1 /\ ToSet(t.out) = {t.out[1]}
  BY <1>1, Single
<1>3. t.out[1] = p
  BY <1>1, <1>2
<1>4. QED
  BY <1>1, <1>2, <1>3

\* volta: one back, and perhaps one out, of the ball at the feet.
LEMMA Turning ==
  ASSUME NEW t, Told(t), NEW init \in BOOLEAN, NEW returns \in BOOLEAN, NEW placed \in BOOLEAN
  PROVE  /\ Whole(Volta(t, init, returns, placed))
         /\ Volta(t, init, returns, placed).place = t.place
         /\ Volta(t, init, returns, placed).tidy = t.tidy
         /\ t.tidy /\ AtFeet(Volta(t, init, returns, placed)) =>
              OneStory(Volta(t, init, returns, placed))
         /\ t.tidy /\ AtFeet(t) => AtFeet(Volta(t, init, returns, placed))
<1> DEFINE v == Volta(t, init, returns, placed)
           p == CHOOSE x \in Pokemon : t.place[x] = "feet"
           here == placed /\ t.out = <<>>
           Fine(u) == /\ Whole(u) /\ u.place = t.place /\ u.tidy = t.tidy
                      /\ t.tidy /\ AtFeet(u) => OneStory(u)
                      /\ t.tidy /\ AtFeet(t) => AtFeet(u)
<1>1. Whole(t) /\ (t.tidy => OneStory(t))
  BY DEF Told
<1>2. Fine(t)
  BY <1>1
<1>3. CASE Exhausted \/ Held(t, "feet") = {}
  <2>1. v = t
    BY <1>3 DEF Volta
  <2>2. Fine(v)
    BY <1>2, <2>1
  <2>3. QED
    BY <2>2
<1>4. CASE ~(Exhausted \/ Held(t, "feet") = {})
  <2>1. p \in Pokemon /\ t.place[p] = "feet"
    BY <1>4 DEF Held
  <2>2. v = IF t.ball[p] = "inuse"
            THEN IF t.out = <<>> THEN Faint(t, p) ELSE IF returns THEN Recall(t, p) ELSE t
            ELSE IF t.ball[p] = "alive" /\ init THEN Go(t, p, here) ELSE t
    BY <1>4 DEF Volta
  <2> SUFFICES Fine(v)
    OBVIOUS
  <2> HIDE DEF v, p, here
  <2>3. CASE t.ball[p] = "inuse" /\ t.out = <<>>
    <3>1. p \in InUse(t)
      BY <2>1, <2>3 DEF InUse
    <3>2. ~t.tidy
      BY <1>1, <2>3, <3>1, OneInUse
    <3> DEFINE u == Faint(t, p)
    <3>3. Whole(u) /\ u.place = t.place /\ u.tidy = t.tidy
      BY <1>1, <2>1, Fainting
    <3>4. v = u
      BY <2>2, <2>3
    <3> HIDE DEF u
    <3>5. QED
      BY <3>2, <3>3, <3>4
  <2>4. CASE t.ball[p] = "inuse" /\ t.out # <<>> /\ returns
    <3>1. p \in InUse(t)
      BY <2>1, <2>4 DEF InUse
    <3> DEFINE u == Recall(t, p)
    <3>2. /\ Whole(u) /\ u.place = t.place /\ u.tidy = t.tidy
          /\ OneStory(t) => OneStory(u) /\ InUse(u) = {}
      BY <1>1, <2>1, <2>4, <3>1, Recalling
    <3>3. v = u
      BY <2>2, <2>4
    <3> HIDE DEF u
    <3>4. QED
      BY <1>1, <3>2, <3>3 DEF AtFeet
  <2>5. CASE t.ball[p] # "inuse" /\ t.ball[p] = "alive" /\ init
    <3>1. p \notin InUse(t) /\ here \in BOOLEAN
      BY <2>5 DEF InUse, here
    <3> DEFINE u == Go(t, p, here)
    <3>2. Fine(u)
      BY <1>1, <2>1, <3>1, Going
    <3>3. v = u
      BY <2>2, <2>5
    <3> HIDE DEF u
    <3>4. QED
      BY <3>2, <3>3
  <2>6. CASE v = t
    BY <1>2, <2>6
  <2>7. QED
    BY <2>2, <2>3, <2>4, <2>5, <2>6
<1>5. QED
  BY <1>3, <1>4

\* Who tells the same of other balls tells the same story.
LEMMA SameStory ==
  ASSUME NEW t, NEW u, u.ball = t.ball, u.fit = t.fit, u.out = t.out
  PROVE  OneStory(u) <=> OneStory(t)
BY DEF OneStory, InUse, HealthShown

\* No ball is where the first free slot is.
LEMMA FreeSlots ==
  ASSUME NEW t \in TeamType
  PROVE  /\ FirstFree(t) \in BallPlaces
         /\ FirstFree(t) # "bag" => \A q \in Pokemon : t.place[q] # FirstFree(t)
<1>1. FirstFree(t) \in Free(t) \union {"bag"}
  BY Firsts
<1>2. \A s \in Free(t) : s \in BallSlots /\ \A q \in Pokemon : t.place[q] # s
  BY DEF Free, Held, TeamType
<1>3. QED
  BY <1>1, <1>2 DEF BallPlaces

\* Two balls are taken out, and added one after the other.
LEMMA AddingTwo ==
  ASSUME NEW t, Whole(t), NEW p \in Pokemon, NEW q \in Pokemon, p # q,
         NEW off, off = TakenOff(TakenOff(t, p), q) \/ off = TakenOff(TakenOff(t, q), p)
  PROVE  /\ Whole(Added(Added(off, q), p))
         /\ Added(Added(off, q), p).tidy = t.tidy
         /\ OneStory(Added(Added(off, q), p)) <=> OneStory(t)
<1> DEFINE a == Added(off, q)
           b == Added(a, p)
           s == FirstFree(off)
           r == FirstFree(a)
<1>1. t \in TeamType /\ t.place \in [Pokemon -> BallPlaces] /\ OneEach(t)
  BY DEF Whole
<1>2. /\ off \in TeamType /\ off.vacant = t.vacant /\ off.ball = t.ball /\ off.fit = t.fit
      /\ off.out = t.out /\ off.tidy = t.tidy
      /\ \A x \in Pokemon : off.place[x] = IF x \in {p, q} THEN "nowhere" ELSE t.place[x]
  <2>1. ASSUME NEW x \in Pokemon, NEW y \in Pokemon, off = TakenOff(TakenOff(t, x), y)
        PROVE  /\ off \in TeamType /\ off.vacant = t.vacant /\ off.ball = t.ball
               /\ off.fit = t.fit /\ off.out = t.out /\ off.tidy = t.tidy
               /\ \A z \in Pokemon : off.place[z] = IF z \in {x, y} THEN "nowhere" ELSE t.place[z]
    <3> DEFINE m == TakenOff(t, x)
    <3>1. m = [t EXCEPT !.place[x] = "nowhere"] /\ off = [m EXCEPT !.place[y] = "nowhere"]
      BY <2>1 DEF TakenOff
    <3> HIDE DEF m
    <3>2. /\ m \in TeamType /\ m.vacant = t.vacant /\ m.ball = t.ball /\ m.fit = t.fit
          /\ m.out = t.out /\ m.tidy = t.tidy
          /\ \A z \in Pokemon : m.place[z] = IF z = x THEN "nowhere" ELSE t.place[z]
      BY <1>1, <3>1 DEF TeamType
    <3>3. /\ off \in TeamType /\ off.vacant = m.vacant /\ off.ball = m.ball /\ off.fit = m.fit
          /\ off.out = m.out /\ off.tidy = m.tidy
          /\ \A z \in Pokemon : off.place[z] = IF z = y THEN "nowhere" ELSE m.place[z]
      BY <3>1, <3>2 DEF TeamType
    <3>4. QED
      BY <3>2, <3>3
  <2>2. QED
    BY <2>1
<1>3. s \in BallPlaces /\ (s # "bag" => \A x \in Pokemon : off.place[x] # s)
  BY <1>2, FreeSlots
<1>4. a = [off EXCEPT !.place[q] = s]
  BY DEF Added
<1> HIDE DEF a, s
<1>5. /\ a \in TeamType /\ a.vacant = t.vacant /\ a.ball = t.ball /\ a.fit = t.fit
      /\ a.out = t.out /\ a.tidy = t.tidy
      /\ \A x \in Pokemon : a.place[x] = IF x = q THEN s ELSE off.place[x]
  BY <1>2, <1>3, <1>4 DEF TeamType
<1>6. r \in BallPlaces /\ (r # "bag" => \A x \in Pokemon : a.place[x] # r)
  BY <1>5, FreeSlots
<1>7. b = [a EXCEPT !.place[p] = r]
  BY DEF Added
<1> HIDE DEF b, r
<1>8. /\ b \in TeamType /\ b.ball = t.ball /\ b.fit = t.fit /\ b.out = t.out /\ b.tidy = t.tidy
      /\ \A x \in Pokemon : b.place[x] = IF x = p THEN r ELSE a.place[x]
  BY <1>5, <1>6, <1>7 DEF TeamType
<1>9. \A x \in Pokemon :
        b.place[x] = IF x = p THEN r ELSE IF x = q THEN s ELSE t.place[x]
  BY <1>2, <1>5, <1>8
<1>10. b.place \in [Pokemon -> BallPlaces]
  BY <1>1, <1>3, <1>6, <1>8, <1>9 DEF TeamType
<1>11. OneEach(b)
  <2>1. s # "bag" => \A x \in Pokemon \ {p, q} : t.place[x] # s
    BY <1>2, <1>3
  <2>2. r # "bag" => r # s /\ \A x \in Pokemon \ {p, q} : t.place[x] # r
    BY <1>2, <1>5, <1>6
  <2>3. QED
    BY <1>1, <1>9, <2>1, <2>2 DEF OneEach
<1>12. OneStory(b) <=> OneStory(t)
  BY <1>8, SameStory
<1>13. QED
  BY <1>8, <1>10, <1>11, <1>12 DEF b, a, Whole

\* Balls at two places change them.
LEMMA Changing ==
  ASSUME NEW t, Told(t), NEW f \in Held(t, "feet"), NEW q \in Pokemon, q # f,
         NEW acts \in BOOLEAN
  PROVE  Told(MoveBar(t, f, q, acts)) /\ MoveBar(t, f, q, acts).tidy = t.tidy
<1> DEFINE u == MoveBar(t, f, q, acts)
           off == TakenOff(TakenOff(t, f), q)
<1>1. /\ Whole(t) /\ t \in TeamType /\ t.place \in [Pokemon -> BallPlaces] /\ OneEach(t)
      /\ (t.tidy => OneStory(t)) /\ f \in Pokemon /\ t.place[f] = "feet"
  BY DEF Told, Whole, Held
<1>2. u = IF t.place[q] = "bag" THEN Added(Added(off, q), f)
          ELSE IF t.place[q] # "ammo" THEN t
          ELSE IF acts THEN [t EXCEPT !.place[f] = "ammo", !.place[q] = "feet"]
          ELSE Added(Added(off, f), q)
  BY DEF MoveBar
<1> HIDE DEF u
<1>3. CASE t.place[q] = "bag"
  <2>1. u = Added(Added(off, q), f)
    BY <1>2, <1>3
  <2>2. Whole(u) /\ u.tidy = t.tidy /\ (OneStory(u) <=> OneStory(t))
    BY <1>1, <2>1, AddingTwo
  <2>3. QED
    BY <1>1, <2>2 DEF Told, u
<1>4. CASE t.place[q] = "ammo" /\ acts
  <2>1. u = [t EXCEPT !.place[f] = "ammo", !.place[q] = "feet"]
    BY <1>2, <1>4
  <2>2. /\ u \in TeamType /\ u.ball = t.ball /\ u.fit = t.fit /\ u.out = t.out /\ u.tidy = t.tidy
        /\ \A x \in Pokemon : u.place[x] =
             IF x = q THEN "feet" ELSE IF x = f THEN "ammo" ELSE t.place[x]
    BY <1>1, <2>1 DEF TeamType, BallPlaces, BallSlots
  <2>3. u.place \in [Pokemon -> BallPlaces]
    BY <1>1, <2>2 DEF TeamType, BallPlaces, BallSlots
  <2>4. OneEach(u)
    BY <1>1, <1>4, <2>2 DEF OneEach
  <2>5. OneStory(u) <=> OneStory(t)
    BY <2>2, SameStory
  <2>6. QED
    BY <1>1, <2>2, <2>3, <2>4, <2>5 DEF Told, Whole, u
<1>5. CASE t.place[q] = "ammo" /\ ~acts
  <2>1. u = Added(Added(off, f), q)
    BY <1>2, <1>5
  <2>2. Whole(u) /\ u.tidy = t.tidy /\ (OneStory(u) <=> OneStory(t))
    BY <1>1, <2>1, AddingTwo
  <2>3. QED
    BY <1>1, <2>2 DEF Told, u
<1>6. CASE t.place[q] # "bag" /\ t.place[q] # "ammo"
  BY <1>2, <1>6 DEF u
<1>7. QED
  BY <1>3, <1>4, <1>5, <1>6

\* The invariant in its parts.
LEMMA NowInv ==
  ASSUME TeamInv(team)
  PROVE  /\ Whole(team) /\ Told(team) /\ team \in TeamType
         /\ team.tidy => OneStory(team) /\ AtFeet(team)
BY DEF TeamInv, Told, Whole

\* Using a ball: a pokémon returns or goes.
LEMMA UseKeeps ==
  ASSUME TeamInv(team), NEW p \in Pokemon, NEW placed \in BOOLEAN, UseBall(p, placed)
  PROVE  TeamInv(team')
<1>1. /\ Whole(team) /\ Told(team) /\ (team.tidy => OneStory(team) /\ AtFeet(team))
  BY NowInv
<1>2. CASE team.ball[p] = "inuse"
  <2>1. p \in InUse(team)
    BY <1>2 DEF InUse
  <2>2. CASE team.out = <<>>
    <3> DEFINE u == Faint(team, p)
    <3>1. team' = Tidied(u)
      BY <1>2, <2>2 DEF UseBall, Turns
    <3>2. ~team.tidy
      BY <1>1, <2>1, <2>2, OneInUse
    <3>3. Whole(u) /\ u.tidy = team.tidy
      BY <1>1, Fainting
    <3> HIDE DEF u
    <3>4. QED
      BY <3>1, <3>2, <3>3, Tidying DEF NearlyTold
  <2>3. CASE team.out # <<>>
    <3> DEFINE u == Recall(team, p)
    <3>1. team' = Tidied(u)
      BY <1>2, <2>3 DEF UseBall, Turns
    <3>2. Whole(u) /\ u.tidy = team.tidy /\ (OneStory(team) => OneStory(u))
      BY <1>1, <2>1, <2>3, Recalling
    <3> HIDE DEF u
    <3>3. QED
      BY <1>1, <3>1, <3>2, Tidying DEF NearlyTold
  <2>4. QED
    BY <2>2, <2>3
<1>3. CASE team.ball[p] # "inuse"
  <2> DEFINE u == Go(team, p, placed)
  <2>1. team.place[p] = "feet" /\ team' = Tidied(u)
    BY <1>3 DEF UseBall, Turns
  <2>2. p \notin InUse(team)
    BY <1>3 DEF InUse
  <2>3. Whole(u) /\ u.tidy = team.tidy /\ (team.tidy /\ AtFeet(u) => OneStory(u))
    BY <1>1, <2>1, <2>2, Going
  <2> HIDE DEF u
  <2>4. QED
    BY <2>1, <2>3, Tidying DEF NearlyTold
<1>4. QED
  BY <1>2, <1>3

\* The bar: one returns, the balls change places, another one goes.
LEMMA BarKeeps ==
  ASSUME TeamInv(team), NEW q \in Pokemon, NEW returns \in BOOLEAN, NEW placed \in BOOLEAN,
         NEW acts \in BOOLEAN, Bar(q, returns, placed, acts)
  PROVE  TeamInv(team')
<1> DEFINE v == Volta(team, FALSE, returns, placed)
<1>1. PICK f \in Held(team, "feet") :
        team' = Tidied(Volta(IF f = q THEN team ELSE MoveBar(v, f, q, acts),
                             TRUE, returns, placed))
  BY DEF Bar, Turns
<1> DEFINE m == IF f = q THEN team ELSE MoveBar(v, f, q, acts)
           u == Volta(m, TRUE, returns, placed)
<1>2. Told(team) /\ (team.tidy => OneStory(team) /\ AtFeet(team))
  BY NowInv
<1>3. Told(v) /\ v.tidy = team.tidy /\ v.place = team.place
  <2>1. /\ Whole(v) /\ v.place = team.place /\ v.tidy = team.tidy
        /\ team.tidy /\ AtFeet(v) => OneStory(v)
        /\ team.tidy /\ AtFeet(team) => AtFeet(v)
    BY <1>2, Turning
  <2> HIDE DEF v
  <2>2. QED
    BY <1>2, <2>1 DEF Told
<1> HIDE DEF v
<1>4. Told(m)
  <2>1. CASE f = q
    BY <1>2, <2>1
  <2>2. CASE f # q
    <3>1. f \in Held(v, "feet")
      BY <1>3 DEF Held
    <3>2. Told(MoveBar(v, f, q, acts))
      BY <1>3, <2>2, <3>1, Changing
    <3>3. QED
      BY <2>2, <3>2
  <2>3. QED
    BY <2>1, <2>2
<1>5. team' = Tidied(u)
  BY <1>1
<1> HIDE DEF m
<1>6. Whole(u) /\ u.tidy = m.tidy /\ (m.tidy /\ AtFeet(u) => OneStory(u))
  BY <1>4, Turning
<1> HIDE DEF u
<1>7. QED
  BY <1>5, <1>6, Tidying DEF NearlyTold

\* A ball is dragged to a slot or to the bag.
LEMMA MoveKeepsBalls ==
  ASSUME TeamInv(team), NEW p \in Pokemon, NEW to \in ToSet(Slots) \union {"bag"},
         MoveBall(p, to)
  PROVE  TeamInv(team')
<1> DEFINE u == [team EXCEPT !.place = [q \in Pokemon |->
                   IF q = p THEN to
                   ELSE IF @[q] = to /\ to # "bag" THEN "bag" ELSE @[q]]]
<1>1. /\ Whole(team) /\ Told(team) /\ (team.tidy => OneStory(team) /\ AtFeet(team))
  BY NowInv
<1>2. /\ team' = Tidied(u) /\ to \in BallPlaces
      /\ team.place[p] # "bag" /\ to # "bag" => Held(team, to) = {}
  BY SlotNames DEF MoveBall, Turns, BallPlaces
<1>3. /\ team \in TeamType /\ team.place \in [Pokemon -> BallPlaces] /\ OneEach(team)
  BY <1>1 DEF Whole
<1>4. /\ u \in TeamType /\ u.ball = team.ball /\ u.fit = team.fit /\ u.out = team.out
      /\ u.tidy = team.tidy
      /\ u.place = [q \in Pokemon |-> IF q = p THEN to
                      ELSE IF team.place[q] = to /\ to # "bag" THEN "bag" ELSE team.place[q]]
  BY <1>2, <1>3 DEF TeamType, BallPlaces
<1> HIDE DEF u
<1>5. u.place \in [Pokemon -> BallPlaces] /\ OneEach(u)
  BY <1>2, <1>3, <1>4 DEF OneEach, BallPlaces
<1>6. OneStory(u) <=> OneStory(team)
  BY <1>4, SameStory
<1>7. QED
  BY <1>1, <1>2, <1>4, <1>5, <1>6, Tidying DEF NearlyTold, Whole

\* An order only adds the events to come.
LEMMA OrderKeeps ==
  ASSUME TeamInv(team), NEW q \in Pokemon, GoAction(q)
  PROVE  TeamInv(team')
<1> DEFINE Event == [what : {"return", "change"}, of : Pokemon, first : BOOLEAN]
           e1 == [what |-> "change", of |-> q, first |-> TRUE]
           e2 == [what |-> "return", of |-> Head(team.out), first |-> TRUE]
           e3 == [what |-> "change", of |-> q, first |-> FALSE]
           l == IF team.out = <<>> THEN <<e1>>
                ELSE <<e2>> \o (IF team.place[q] = "feet" THEN <<>> ELSE <<e3>>)
<1>1. /\ Whole(team) /\ team \in TeamType /\ (team.tidy => OneStory(team) /\ AtFeet(team))
  BY NowInv
<1>2. team' = [team EXCEPT !.later = l]
  BY DEF GoAction
<1>3. l \in Seq(Event)
  <2>1. CASE team.out = <<>>
    <3>1. e1 \in Event
      OBVIOUS
    <3> HIDE DEF e1, Event
    <3>2. QED
      BY <2>1, <3>1
  <2>2. CASE team.out # <<>>
    <3>1. Head(team.out) \in Pokemon
      BY <1>1, <2>2 DEF TeamType
    <3>2. e2 \in Event /\ e3 \in Event
      BY <3>1
    <3> HIDE DEF e2, e3, Event
    <3>3. <<e2>> \in Seq(Event) /\ <<e3>> \in Seq(Event) /\ <<>> \in Seq(Event)
      BY <3>2
    <3>4. QED
      BY <2>2, <3>3
  <2>3. QED
    BY <2>1, <2>2
<1> HIDE DEF l
<1> DEFINE u == team'
<1>4. /\ u \in TeamType /\ u.vacant = team.vacant /\ u.place = team.place /\ u.ball = team.ball
      /\ u.fit = team.fit /\ u.out = team.out /\ u.tidy = team.tidy
  BY <1>1, <1>2, <1>3 DEF TeamType
<1> HIDE DEF u
<1>5. Whole(u) /\ InUse(u) = InUse(team) /\ (\A s : Held(u, s) = Held(team, s))
  BY <1>1, <1>4, Sending
<1>6. OneStory(u) <=> OneStory(team)
  BY <1>4, SameStory
<1>7. QED
  BY <1>1, <1>4, <1>5, <1>6 DEF TeamInv, Told, AtFeet, u

\* The ball at the feet, if there is one.
AtTheFeet(t) == CHOOSE f \in Pokemon : t.place[f] = "feet"

\* No two balls are at the feet.
LEMMA FeetHold ==
  ASSUME NEW t, Whole(t), Held(t, "feet") # {}
  PROVE  AtTheFeet(t) \in Pokemon /\ Held(t, "feet") = {AtTheFeet(t)}
<1>1. \E f \in Pokemon : t.place[f] = "feet"
  BY DEF Held
<1>2. AtTheFeet(t) \in Pokemon /\ t.place[AtTheFeet(t)] = "feet"
  BY <1>1 DEF AtTheFeet
<1>3. QED
  BY <1>2 DEF Held, Whole, OneEach

\* Where one is out and no ball in use left the feet, it is out of the ball there.
LEMMA InUseAtFeet ==
  ASSUME NEW t, Whole(t), OneStory(t), AtFeet(t), t.out # <<>>
  PROVE  /\ Held(t, "feet") # {} /\ AtTheFeet(t) \in Pokemon
         /\ t.out = <<AtTheFeet(t)>> /\ InUse(t) = {AtTheFeet(t)}
<1>1. t.out \in Seq(Pokemon) /\ Len(t.out) <= 1 /\ InUse(t) = ToSet(t.out)
  BY DEF Whole, TeamType, OneStory
<1>2. t.out[1] \in InUse(t)
  BY <1>1, Single
<1>3. t.out[1] \in Held(t, "feet")
  BY <1>2 DEF AtFeet
<1>4. t.out[1] = AtTheFeet(t) /\ AtTheFeet(t) \in Pokemon
  BY <1>3, FeetHold
<1>5. QED
  BY <1>2, <1>3, <1>4, OneInUse

\* The events to come, and the pokémon out, of a team.
LEMMA Changed ==
  ASSUME NEW t, Whole(t), NEW s \in Seq(Pokemon),
         NEW l \in Seq([what : {"return", "change"}, of : Pokemon, first : BOOLEAN]),
         NEW u, u = [t EXCEPT !.out = s, !.later = l]
  PROVE  /\ Whole(u) /\ u.place = t.place /\ u.tidy = t.tidy /\ u.out = s
         /\ u.ball = t.ball /\ u.fit = t.fit
         /\ InUse(u) = InUse(t) /\ (HealthShown(t) => HealthShown(u))
         /\ \A x : Held(u, x) = Held(t, x)
<1>1. /\ u \in TeamType /\ u.vacant = t.vacant /\ u.place = t.place /\ u.ball = t.ball
      /\ u.fit = t.fit /\ u.tidy = t.tidy /\ u.out = s
  BY DEF Whole, TeamType
<1>2. QED
  BY <1>1, Sending

\* Nobody is out.
LEMMA NoneOut == Len(<<>>) <= 1 /\ ToSet(<<>>) = {}
BY DEF ToSet

\* A pokémon that dies leaves a ball that says so.
LEMMA DeathKeeps ==
  ASSUME TeamInv(team), NEW i \in DOMAIN team.out, SummonDeath(i)
  PROVE  TeamInv(team')
<1> DEFINE rest == IF Held(team, "feet") = {} THEN RemoveAt(team.out, i)
                   ELSE IF i = 1 THEN <<>> ELSE <<Head(team.out)>>
           t == [team EXCEPT !.out = rest]
           u == IF Held(t, "feet") = {} THEN t ELSE Faint(t, AtTheFeet(t))
<1>1. /\ Whole(team) /\ team \in TeamType /\ (team.tidy => OneStory(team) /\ AtFeet(team))
      /\ team.out \in Seq(Pokemon)
  BY NowInv DEF TeamType
<1>2. team' = Tidied(u)
  BY DEF SummonDeath, Turns, AtTheFeet
<1>3. rest \in Seq(Pokemon)
  <2>1. RemoveAt(team.out, i) \in Seq(Pokemon)
    BY <1>1, TakenOut
  <2>2. team.out # <<>> /\ Head(team.out) \in Pokemon
    BY <1>1
  <2>3. <<>> \in Seq(Pokemon) /\ <<Head(team.out)>> \in Seq(Pokemon)
    BY <2>2
  <2>4. QED
    BY <2>1, <2>3
<1>4. team.tidy => rest = <<>> /\ Held(team, "feet") # {} /\ InUse(team) = {AtTheFeet(team)}
  <2>1. ASSUME team.tidy PROVE rest = <<>> /\ Held(team, "feet") # {}
                               /\ InUse(team) = {AtTheFeet(team)}
    <3>1. team.out # <<>>
      BY <1>1
    <3>2. Held(team, "feet") # {} /\ InUse(team) = {AtTheFeet(team)}
          /\ team.out = <<AtTheFeet(team)>>
      BY <1>1, <2>1, <3>1, InUseAtFeet
    <3>3. i = 1
      BY <3>2
    <3>4. QED
      BY <3>2, <3>3
  <2>2. QED
    BY <2>1
<1> HIDE DEF rest
<1>5. /\ Whole(t) /\ t.place = team.place /\ t.tidy = team.tidy /\ t.out = rest
      /\ InUse(t) = InUse(team) /\ (HealthShown(team) => HealthShown(t))
      /\ Held(t, "feet") = Held(team, "feet")
  <2>1. /\ t \in TeamType /\ t.vacant = team.vacant /\ t.place = team.place
        /\ t.ball = team.ball /\ t.fit = team.fit /\ t.tidy = team.tidy /\ t.out = rest
    BY <1>1, <1>3 DEF TeamType
  <2> HIDE DEF t
  <2>2. QED
    BY <1>1, <2>1, Sending
<1> HIDE DEF t
<1>6. CASE Held(t, "feet") = {}
  BY <1>2, <1>4, <1>5, <1>6, Tidying DEF NearlyTold
<1>7. CASE Held(t, "feet") # {}
  <2> DEFINE f == AtTheFeet(t)
             v == Faint(t, f)
  <2>1. f \in Pokemon /\ f = AtTheFeet(team)
    BY <1>5, <1>7, FeetHold DEF AtTheFeet
  <2> HIDE DEF f
  <2>2. /\ Whole(v) /\ v.tidy = t.tidy /\ v.out = t.out
        /\ InUse(v) = InUse(t) \ {f} /\ (HealthShown(t) => HealthShown(v))
    BY <1>5, <2>1, Fainting
  <2>3. team' = Tidied(v)
    BY <1>2, <1>7 DEF f
  <2> HIDE DEF v
  <2>4. ASSUME v.tidy PROVE OneStory(v)
    <3>1. v.out = <<>> /\ InUse(v) = {} /\ HealthShown(v)
      BY <1>1, <1>4, <1>5, <2>1, <2>2, <2>4 DEF OneStory
    <3>2. QED
      BY <3>1, NoneOut DEF OneStory
  <2>5. QED
    BY <2>2, <2>3, <2>4, Tidying DEF NearlyTold
<1>8. QED
  BY <1>6, <1>7

\* A player who leaves takes his pokémon back.
LEMMA LogoutKeeps ==
  ASSUME TeamInv(team), LogoutWithPokemon
  PROVE  TeamInv(team')
<1> DEFINE t == [team EXCEPT !.out = <<>>, !.later = <<>>]
           f == AtTheFeet(t)
           v == Heal(t, f)
<1>1. Whole(team) /\ (team.tidy => OneStory(team) /\ AtFeet(team))
  BY NowInv
<1>2. team' = Tidied(IF team.out = <<>> \/ Held(t, "feet") = {} THEN t ELSE v)
  BY DEF LogoutWithPokemon, Turns, AtTheFeet
<1>3. /\ Whole(t) /\ t.place = team.place /\ t.tidy = team.tidy /\ t.out = <<>>
      /\ InUse(t) = InUse(team) /\ (HealthShown(team) => HealthShown(t))
      /\ Held(t, "feet") = Held(team, "feet")
  <2>1. <<>> \in Seq(Pokemon)
        /\ <<>> \in Seq([what : {"return", "change"}, of : Pokemon, first : BOOLEAN])
    OBVIOUS
  <2>2. /\ t \in TeamType /\ t.vacant = team.vacant /\ t.place = team.place
        /\ t.ball = team.ball /\ t.fit = team.fit /\ t.tidy = team.tidy /\ t.out = <<>>
    BY <1>1, <2>1 DEF TeamType, Whole
  <2> HIDE DEF t
  <2>3. QED
    BY <1>1, <2>2, Sending
<1> HIDE DEF t
<1>4. CASE team.out = <<>>
  <2>1. team' = Tidied(t)
    BY <1>2, <1>4
  <2>2. team.tidy => OneStory(t)
    BY <1>1, <1>3, <1>4 DEF OneStory
  <2>3. QED
    BY <1>3, <2>1, <2>2, Tidying DEF NearlyTold
<1>5. CASE team.out # <<>> /\ Held(t, "feet") = {}
  <2>1. ~team.tidy
    BY <1>1, <1>3, <1>5, InUseAtFeet
  <2>2. QED
    BY <1>2, <1>3, <1>5, <2>1, Tidying DEF NearlyTold
<1>6. CASE team.out # <<>> /\ Held(t, "feet") # {}
  <2>1. f \in Pokemon /\ f = AtTheFeet(team)
    BY <1>3, <1>6, FeetHold DEF AtTheFeet
  <2>2. team' = Tidied(v)
    BY <1>2, <1>6
  <2> HIDE DEF f
  <2>3. /\ Whole(v) /\ v.tidy = t.tidy /\ v.out = t.out
        /\ InUse(v) = InUse(t) \ {f} /\ (HealthShown(t) => HealthShown(v))
    BY <1>3, <2>1, Healing
  <2> HIDE DEF v
  <2>4. ASSUME v.tidy PROVE OneStory(v)
    <3>1. InUse(team) = {f}
      BY <1>1, <1>3, <1>6, <2>1, <2>3, <2>4, InUseAtFeet
    <3>2. v.out = <<>> /\ InUse(v) = {} /\ HealthShown(v)
      BY <1>1, <1>3, <2>3, <2>4, <3>1 DEF OneStory
    <3>3. QED
      BY <3>2, NoneOut DEF OneStory
  <2>5. QED
    BY <2>2, <2>3, <2>4, Tidying DEF NearlyTold
<1>7. QED
  BY <1>4, <1>5, <1>6

\* The health of a pokémon that is out shows at its own ball.
LEMMA HealthKeeps ==
  ASSUME TeamInv(team), HealthChange
  PROVE  TeamInv(team')
<1>1. /\ Whole(team) /\ team \in TeamType /\ (team.tidy => OneStory(team) /\ AtFeet(team))
      /\ OneEach(team)
  BY NowInv DEF Whole
<1>2. PICK f \in Held(team, "feet") : team' = Tidied([team EXCEPT !.fit[f] = TRUE])
  BY DEF HealthChange, Turns
<1> DEFINE u == [team EXCEPT !.fit[f] = TRUE]
<1>3. f \in Pokemon
  BY DEF Held
<1>4. /\ u \in TeamType /\ u.place = team.place /\ u.ball = team.ball /\ u.out = team.out
      /\ u.tidy = team.tidy
      /\ \A p \in Pokemon : u.fit[p] = IF p = f THEN TRUE ELSE team.fit[p]
  BY <1>1, <1>3 DEF TeamType
<1>5. team' = Tidied(u)
  BY <1>2
<1> HIDE DEF u
<1>6. Whole(u) /\ InUse(u) = InUse(team)
  BY <1>1, <1>4 DEF Whole, OneEach, InUse
<1>7. ASSUME team.tidy PROVE OneStory(u)
  <2>1. InUse(team) = {AtTheFeet(team)} /\ f = AtTheFeet(team)
    BY <1>1, <1>7, InUseAtFeet, FeetHold DEF HealthChange
  <2>2. team.ball[f] = "inuse"
    BY <2>1 DEF InUse
  <2>3. HealthShown(u)
    BY <1>1, <1>4, <1>7, <2>2 DEF OneStory, HealthShown
  <2>4. QED
    BY <1>1, <1>4, <1>6, <1>7, <2>3 DEF OneStory
<1>8. QED
  BY <1>4, <1>5, <1>6, <1>7, Tidying DEF NearlyTold

\* A revive heals a ball that is not in use.
LEMMA ReviveKeeps ==
  ASSUME TeamInv(team), NEW p \in Pokemon, Revive(p)
  PROVE  TeamInv(team')
<1> DEFINE v == Heal(team, p)
<1>1. Whole(team) /\ (team.tidy => OneStory(team) /\ AtFeet(team))
  BY NowInv
<1>2. team' = Tidied(v) /\ p \notin InUse(team)
  BY DEF Revive, Turns, InUse
<1>3. /\ Whole(v) /\ v.tidy = team.tidy /\ v.out = team.out
      /\ InUse(v) = InUse(team) \ {p} /\ (HealthShown(team) => HealthShown(v))
  BY <1>1, Healing
<1> HIDE DEF v
<1>4. team.tidy => OneStory(v)
  BY <1>1, <1>2, <1>3 DEF OneStory
<1>5. QED
  BY <1>2, <1>3, <1>4, Tidying DEF NearlyTold

\* A nurse heals no ball of a pokémon that is out.
LEMMA NurseKeeps ==
  ASSUME TeamInv(team), NurseHealsBalls
  PROVE  TeamInv(team')
<1> DEFINE cared(p) == team.place[p] = "bag" \/ (team.place[p] = "feet" /\ team.out = <<>>)
           u == [team EXCEPT
                   !.ball = [p \in Pokemon |-> IF cared(p) THEN "alive" ELSE @[p]],
                   !.fit = [p \in Pokemon |-> cared(p) \/ @[p]]]
<1>1. /\ Whole(team) /\ team \in TeamType /\ (team.tidy => OneStory(team) /\ AtFeet(team))
  BY NowInv
<1>2. team' = Tidied(u)
  BY DEF NurseHealsBalls, Turns
<1>3. /\ u \in TeamType /\ u.place = team.place /\ u.out = team.out /\ u.tidy = team.tidy
      /\ u.ball = [p \in Pokemon |-> IF cared(p) THEN "alive" ELSE team.ball[p]]
      /\ u.fit = [p \in Pokemon |-> cared(p) \/ team.fit[p]]
  BY <1>1 DEF TeamType
<1> HIDE DEF u
<1>4. Whole(u)
  BY <1>1, <1>3 DEF Whole, OneEach
<1>5. ASSUME team.tidy PROVE OneStory(u)
  <2>1. \A p \in InUse(team) : ~cared(p)
    <3>1. ASSUME NEW p \in InUse(team) PROVE team.place[p] = "feet" /\ team.out # <<>>
      BY <1>1, <1>5, <3>1, OneInUse DEF AtFeet, Held
    <3>2. QED
      BY <3>1
  <2>2. InUse(u) = InUse(team)
    BY <1>3, <2>1 DEF InUse
  <2>3. HealthShown(u)
    <3>1. HealthShown(team)
      BY <1>1, <1>5 DEF OneStory
    <3>2. SUFFICES ASSUME NEW p \in Pokemon PROVE u.ball[p] = "dead" <=> ~u.fit[p]
      BY DEF HealthShown
    <3>3. CASE cared(p)
      <4>1. u.ball[p] = "alive"
        BY <1>3, <3>3
      <4>2. u.fit[p]
        BY <1>3, <3>3, Zenon
      <4>3. QED
        BY <4>1, <4>2
    <3>4. CASE ~cared(p)
      <4>1. u.ball[p] = team.ball[p]
        BY <1>3, <3>4
      <4>2. u.fit[p] <=> team.fit[p]
        BY <1>3, <3>4, Zenon
      <4>3. team.ball[p] = "dead" <=> ~team.fit[p]
        BY <3>1 DEF HealthShown
      <4>4. QED
        BY <4>1, <4>2, <4>3
    <3>5. QED
      BY <3>3, <3>4
  <2>4. QED
    BY <1>1, <1>3, <1>5, <2>2, <2>3 DEF OneStory
<1>6. QED
  BY <1>2, <1>3, <1>4, <1>5, Tidying DEF NearlyTold

\* An ordered return: into its own ball, since no ball in use left the feet.
LEMMA ReturnKeeps ==
  ASSUME TeamInv(team), NEW returns \in BOOLEAN, ReturnLater(returns)
  PROVE  TeamInv(team')
<1> DEFINE done == [team EXCEPT !.later = Tail(team.later)]
           p == Head(team.later).of
           at == CHOOSE i \in DOMAIN team.out : team.out[i] = p
           o == RemoveAt(team.out, at)
           gone == [done EXCEPT !.out = o]
           back == Heal(gone, AtTheFeet(team))
<1>1. /\ Whole(team) /\ team \in TeamType /\ (team.tidy => OneStory(team) /\ AtFeet(team))
      /\ team.out \in Seq(Pokemon)
  BY NowInv DEF TeamType
<1>2. /\ done \in TeamType /\ done.vacant = team.vacant /\ done.place = team.place
      /\ done.ball = team.ball /\ done.fit = team.fit /\ done.tidy = team.tidy
      /\ done.out = team.out
  <2>1. Tail(team.later) \in Seq([what : {"return", "change"}, of : Pokemon, first : BOOLEAN])
    BY <1>1 DEF ReturnLater, TeamType
  <2>2. QED
    BY <1>1, <2>1 DEF TeamType
<1>3. team' = Tidied(IF ~returns \/ p \notin ToSet(team.out) THEN done
                     ELSE IF Held(team, "feet") = {} THEN gone ELSE back)
  <2>1. done.out = team.out
    BY <1>2
  <2>2. QED
    BY <2>1 DEF ReturnLater, Turns, AtTheFeet
<1>4. Whole(done) /\ InUse(done) = InUse(team) /\ (HealthShown(team) => HealthShown(done))
  BY <1>1, <1>2, Sending
<1>5. OneStory(done) <=> OneStory(team)
  BY <1>2, SameStory
<1> HIDE DEF done, p
<1>6. CASE ~returns \/ p \notin ToSet(team.out)
  BY <1>1, <1>2, <1>3, <1>4, <1>5, <1>6, Tidying DEF NearlyTold
<1>7. CASE ~(~returns \/ p \notin ToSet(team.out))
  <2>1. at \in DOMAIN team.out /\ team.out # <<>>
    BY <1>1, <1>7 DEF ToSet
  <2> HIDE DEF at
  <2>2. o \in Seq(Pokemon) /\ (Len(team.out) = 1 => o = <<>>)
    BY <1>1, <2>1, TakenOut
  <2> HIDE DEF o
  <2>3. /\ gone \in TeamType /\ gone.vacant = done.vacant /\ gone.place = done.place
        /\ gone.ball = done.ball /\ gone.fit = done.fit /\ gone.tidy = done.tidy
        /\ gone.out = o
    BY <1>2, <2>2 DEF TeamType
  <2> HIDE DEF gone
  <2>4. Whole(gone) /\ InUse(gone) = InUse(done) /\ (HealthShown(done) => HealthShown(gone))
    BY <1>4, <2>3, Sending
  <2>5. ASSUME team.tidy
        PROVE  /\ Held(team, "feet") # {} /\ InUse(team) = {AtTheFeet(team)}
               /\ gone.out = <<>>
    <3>1. Held(team, "feet") # {} /\ InUse(team) = {AtTheFeet(team)}
          /\ team.out = <<AtTheFeet(team)>>
      BY <1>1, <2>1, <2>5, InUseAtFeet
    <3>2. Len(team.out) = 1
      BY <3>1
    <3>3. QED
      BY <2>2, <2>3, <3>1, <3>2
  <2>6. CASE Held(team, "feet") = {}
    <3>1. team' = Tidied(gone)
      BY <1>3, <1>7, <2>6
    <3>2. ~gone.tidy
      BY <1>2, <2>3, <2>5, <2>6
    <3>3. QED
      BY <2>4, <3>1, <3>2, Tidying DEF NearlyTold
  <2>7. CASE Held(team, "feet") # {}
    <3> DEFINE f == AtTheFeet(team)
    <3>1. f \in Pokemon
      BY <1>1, <2>7, FeetHold
    <3>2. team' = Tidied(back)
      BY <1>3, <1>7, <2>7
    <3>3. back = Heal(gone, f)
      OBVIOUS
    <3> HIDE DEF f, back
    <3>4. /\ Whole(back) /\ back.tidy = gone.tidy /\ back.out = gone.out
          /\ InUse(back) = InUse(gone) \ {f} /\ (HealthShown(gone) => HealthShown(back))
      BY <2>4, <3>1, <3>3, Healing
    <3>5. ASSUME back.tidy PROVE OneStory(back)
      <4>1. team.tidy
        BY <1>2, <2>3, <3>4, <3>5
      <4>2. back.out = <<>> /\ InUse(back) = {}
        BY <1>4, <2>4, <2>5, <3>4, <4>1 DEF f
      <4>3. HealthShown(back)
        BY <1>1, <1>4, <2>4, <3>4, <4>1 DEF OneStory
      <4>4. QED
        BY <4>2, <4>3, NoneOut DEF OneStory
    <3>6. QED
      BY <3>2, <3>4, <3>5, Tidying DEF NearlyTold
  <2>8. QED
    BY <2>6, <2>7
<1>8. QED
  BY <1>6, <1>7

\* A ball put at the feet, or where one is free.
LEMMA Putting ==
  ASSUME NEW t, Whole(t), NEW q \in Pokemon, t.place[q] \in {"feet", "bag"},
         NEW u, \/ u = [t EXCEPT !.place = [p \in Pokemon |->
                          IF p = q THEN "feet" ELSE IF @[p] = "feet" THEN "bag" ELSE @[p]]]
                \/ u = Added(TakenOff(t, q), q)
  PROVE  /\ Whole(u) /\ u.tidy = t.tidy /\ u.ball = t.ball /\ u.fit = t.fit /\ u.out = t.out
<1>1. t \in TeamType /\ t.place \in [Pokemon -> BallPlaces] /\ OneEach(t)
  BY DEF Whole
<1>2. CASE u = [t EXCEPT !.place = [p \in Pokemon |->
                  IF p = q THEN "feet" ELSE IF @[p] = "feet" THEN "bag" ELSE @[p]]]
  <2>1. /\ u \in TeamType /\ u.tidy = t.tidy /\ u.ball = t.ball /\ u.fit = t.fit /\ u.out = t.out
        /\ u.place = [p \in Pokemon |-> IF p = q THEN "feet"
                        ELSE IF t.place[p] = "feet" THEN "bag" ELSE t.place[p]]
    BY <1>1, <1>2 DEF TeamType, BallPlaces, BallSlots
  <2>2. u.place \in [Pokemon -> BallPlaces] /\ OneEach(u)
    BY <1>1, <2>1 DEF OneEach, BallPlaces, BallSlots
  <2>3. QED
    BY <2>1, <2>2 DEF Whole
<1>3. CASE u = Added(TakenOff(t, q), q)
  <2> DEFINE m == TakenOff(t, q)
             s == FirstFree(m)
  <2>1. m = [t EXCEPT !.place[q] = "nowhere"] /\ u = [m EXCEPT !.place[q] = s]
    BY <1>3 DEF TakenOff, Added
  <2> HIDE DEF m, s
  <2>2. /\ m \in TeamType /\ m.tidy = t.tidy /\ m.ball = t.ball /\ m.fit = t.fit /\ m.out = t.out
        /\ \A x \in Pokemon : m.place[x] = IF x = q THEN "nowhere" ELSE t.place[x]
    BY <1>1, <2>1 DEF TeamType
  <2>3. s \in BallPlaces /\ (s # "bag" => \A x \in Pokemon : m.place[x] # s)
    BY <2>2, FreeSlots DEF s
  <2>4. /\ u \in TeamType /\ u.tidy = t.tidy /\ u.ball = t.ball /\ u.fit = t.fit /\ u.out = t.out
        /\ \A x \in Pokemon : u.place[x] = IF x = q THEN s ELSE t.place[x]
    BY <2>1, <2>2, <2>3 DEF TeamType
  <2>5. u.place \in [Pokemon -> BallPlaces]
    BY <1>1, <2>3, <2>4, ZenonT(30) DEF TeamType
  <2>6. OneEach(u)
    BY <1>1, <2>2, <2>3, <2>4 DEF OneEach
  <2>7. QED
    BY <2>4, <2>5, <2>6 DEF Whole
<1>4. QED
  BY <1>2, <1>3

\* An ordered change of balls, which may have come too late.
LEMMA ChangeKeeps ==
  ASSUME TeamInv(team), NEW found \in BOOLEAN, NEW returns \in BOOLEAN,
         NEW refused \in BOOLEAN, NEW placed \in BOOLEAN,
         ChangeLater(found, returns, refused, placed)
  PROVE  TeamInv(team')
<1> DEFINE q == Head(team.later).of
           done == [team EXCEPT !.later = Tail(team.later)]
           equal == team.place[q] = "feet"
           swapped == [done EXCEPT !.place = [p \in Pokemon |->
                         IF p = q THEN "feet" ELSE IF @[p] = "feet" THEN "bag" ELSE @[p]]]
           put == IF equal \/ Held(team, "feet") # {} THEN swapped
                  ELSE Added(TakenOff(done, q), q)
           stays == \/ ~found \/ team.place[q] \notin {"feet", "bag"}
                    \/ equal /\ (~Head(team.later).first \/ (team.out # <<>> /\ ~returns))
<1>1. /\ Whole(team) /\ team \in TeamType /\ (team.tidy => OneStory(team) /\ AtFeet(team))
      /\ team.out \in Seq(Pokemon)
  BY NowInv DEF TeamType
<1>2. /\ done \in TeamType /\ done.vacant = team.vacant /\ done.place = team.place
      /\ done.ball = team.ball /\ done.fit = team.fit /\ done.tidy = team.tidy
      /\ done.out = team.out
      /\ q \in Pokemon
  <2> DEFINE Event == [what : {"return", "change"}, of : Pokemon, first : BOOLEAN]
  <2>1. team.later \in Seq(Event) /\ team.later # <<>>
    BY <1>1 DEF ChangeLater, TeamType
  <2>2. \A e \in Event : e.of \in Pokemon
    OBVIOUS
  <2> HIDE DEF Event
  <2>3. Tail(team.later) \in Seq(Event) /\ Head(team.later) \in Event
    BY <2>1
  <2>4. Head(team.later).of \in Pokemon
    BY <2>2, <2>3
  <2>5. QED
    BY <1>1, <2>3, <2>4 DEF TeamType, Event
<1>3. team' = Tidied(IF stays THEN done
                     ELSE IF equal /\ team.out # <<>> THEN Recall(done, q)
                     ELSE IF refused \/ put.place[q] # "feet" THEN put
                     ELSE Go(put, q, placed))
  BY DEF ChangeLater, Turns
<1>4. /\ Whole(done) /\ InUse(done) = InUse(team) /\ (HealthShown(team) => HealthShown(done))
      /\ Held(done, "feet") = Held(team, "feet")
  BY <1>1, <1>2, Sending
<1>5. OneStory(done) <=> OneStory(team)
  BY <1>2, SameStory
<1>6. stays \/ team.place[q] \in {"feet", "bag"}
  OBVIOUS
<1>7. put = swapped \/ put = Added(TakenOff(done, q), q)
  OBVIOUS
<1> HIDE DEF done, q, put, stays
<1>8. CASE stays
  BY <1>1, <1>2, <1>3, <1>4, <1>5, <1>8, Tidying DEF NearlyTold
<1>9. CASE ~stays /\ equal /\ team.out # <<>>
  <2> DEFINE u == Recall(done, q)
  <2>1. team' = Tidied(u)
    BY <1>3, <1>9
  <2>2. /\ Whole(u) /\ u.tidy = done.tidy
        /\ OneStory(done) /\ q \in InUse(done) => OneStory(u) /\ InUse(u) = {}
    BY <1>2, <1>4, <1>9, Recalling
  <2> HIDE DEF u
  <2>3. team.tidy => q \in InUse(done)
    <3>1. ASSUME team.tidy PROVE q \in InUse(done)
      <4>1. InUse(team) = {AtTheFeet(team)} /\ Held(team, "feet") # {}
        BY <1>1, <1>9, <3>1, InUseAtFeet
      <4>2. Held(team, "feet") = {AtTheFeet(team)}
        BY <1>1, <4>1, FeetHold
      <4>3. q \in Held(team, "feet")
        BY <1>2, <1>9 DEF Held
      <4>4. QED
        BY <1>4, <4>1, <4>2, <4>3
    <3>2. QED
      BY <3>1
  <2>4. QED
    BY <1>1, <1>2, <1>5, <2>1, <2>2, <2>3, Tidying DEF NearlyTold
<1>10. CASE ~stays /\ ~(equal /\ team.out # <<>>)
  <2>1. Whole(put) /\ put.tidy = done.tidy /\ put.ball = done.ball /\ put.fit = done.fit
        /\ put.out = done.out
    BY <1>2, <1>4, <1>6, <1>7, <1>10, Putting
  <2>2. OneStory(put) <=> OneStory(done)
    BY <2>1, SameStory
  <2>3. InUse(put) = InUse(team)
    BY <1>4, <2>1 DEF InUse
  <2>4. CASE refused \/ put.place[q] # "feet"
    <3>1. team' = Tidied(put)
      BY <1>3, <1>10, <2>4
    <3>2. QED
      BY <1>1, <1>2, <1>5, <2>1, <2>2, <3>1, Tidying DEF NearlyTold
  <2>5. CASE ~(refused \/ put.place[q] # "feet")
    <3> DEFINE u == Go(put, q, placed)
    <3>1. team' = Tidied(u)
      BY <1>3, <1>10, <2>5
    <3>2. put.tidy => OneStory(put) /\ q \notin InUse(put)
      <4>1. ASSUME put.tidy, q \in InUse(put) PROVE FALSE
        <5>1. q \in InUse(team) /\ team.tidy
          BY <1>2, <2>1, <2>3, <4>1
        <5>2. q \in Held(team, "feet") /\ team.out # <<>>
          BY <1>1, <5>1, OneInUse DEF AtFeet
        <5>3. QED
          BY <1>10, <5>2 DEF Held
      <4>2. QED
        BY <1>1, <1>2, <1>5, <2>1, <2>2, <4>1
    <3>3. Whole(u) /\ u.tidy = put.tidy /\ (put.tidy /\ AtFeet(u) => OneStory(u))
      BY <1>2, <2>1, <2>5, <3>2, Going
    <3> HIDE DEF u
    <3>4. QED
      BY <3>1, <3>3, Tidying DEF NearlyTold
  <2>6. QED
    BY <2>4, <2>5
<1>11. QED
  BY <1>8, <1>9, <1>10

\* Everybody begins with all pokémon in their balls, in the bag.
LEMMA FirstTeam ==
  ASSUME BallsInit
  PROVE  TeamInv(team)
<1>1. PICK vacant \in SUBSET Spare :
        team = [vacant |-> vacant \union {"feet"},
                place |-> [p \in Pokemon |-> "bag"],
                ball |-> [p \in Pokemon |-> "alive"],
                fit |-> [p \in Pokemon |-> TRUE],
                out |-> <<>>, later |-> <<>>, tidy |-> TRUE]
  BY DEF BallsInit
<1>2. vacant \union {"feet"} \subseteq BallSlots
  BY BallsAssumption, SlotNames DEF BallsAssumption, BallSlots
<1>3. <<>> \in Seq(Pokemon)
      /\ <<>> \in Seq([what : {"return", "change"}, of : Pokemon, first : BOOLEAN])
  OBVIOUS
<1>4. team \in TeamType
  BY <1>1, <1>2, <1>3 DEF TeamType, BallPlaces
<1>5. /\ team.place = [p \in Pokemon |-> "bag"] /\ team.ball = [p \in Pokemon |-> "alive"]
      /\ team.fit = [p \in Pokemon |-> TRUE] /\ team.out = <<>>
  BY <1>1
<1>6. Whole(team)
  BY <1>4, <1>5 DEF Whole, OneEach, BallPlaces
<1>7. InUse(team) = {}
  BY <1>5 DEF InUse
<1>8. HealthShown(team)
  <2>1. SUFFICES ASSUME NEW p \in Pokemon PROVE team.ball[p] = "dead" <=> ~team.fit[p]
    BY DEF HealthShown
  <2>2. team.ball[p] = "alive"
    BY <1>5
  <2>3. team.fit[p]
    BY <1>5, Zenon
  <2>4. QED
    BY <2>2, <2>3
<1>9. QED
  BY <1>5, <1>6, <1>7, <1>8, NoneOut DEF TeamInv, Told, OneStory, AtFeet

\* No step breaks the invariant.
LEMMA TeamStep ==
  ASSUME TeamInv(team), [BallsNext]_team
  PROVE  TeamInv(team')
<1>1. CASE UNCHANGED team
  BY <1>1
<1>2. CASE \E p \in Pokemon, placed \in BOOLEAN : UseBall(p, placed)
  BY <1>2, UseKeeps
<1>3. CASE \E q \in Pokemon, returns, placed, acts \in BOOLEAN : Bar(q, returns, placed, acts)
  BY <1>3, BarKeeps
<1>4. CASE \E p \in Pokemon, to \in ToSet(Slots) \union {"bag"} : MoveBall(p, to)
  BY <1>4, MoveKeepsBalls
<1>5. CASE \E q \in Pokemon : GoAction(q) \/ Revive(q)
  BY <1>5, OrderKeeps, ReviveKeeps
<1>6. CASE \E returns \in BOOLEAN : ReturnLater(returns)
  BY <1>6, ReturnKeeps
<1>7. CASE \E found, returns, refused, placed \in BOOLEAN :
             ChangeLater(found, returns, refused, placed)
  BY <1>7, ChangeKeeps
<1>8. CASE \E i \in DOMAIN team.out : SummonDeath(i)
  BY <1>8, DeathKeeps
<1>9. CASE LogoutWithPokemon \/ HealthChange \/ NurseHealsBalls
  BY <1>9, LogoutKeeps, HealthKeeps, NurseKeeps
<1>10. QED
  BY <1>1, <1>2, <1>3, <1>4, <1>5, <1>6, <1>7, <1>8, <1>9 DEF BallsNext

\* The inductive invariant of a player's team.
TeamKept == TeamInv(team)

\* BallsAgree, for any number of pokémon, slots and pokémon out: each slot holds
\* one ball, and as long as no ball in use leaves the feet, the balls tell which
\* pokémon is out and how they all are, whatever returns, deaths, changes and
\* events of the bar come in between (goback.lua, pbar.lua, cdbar.lua).
THEOREM BallsSafe == BallsSpec => []BallsAgree
<1>1. BallsInit => TeamKept
  BY FirstTeam DEF TeamKept
<1>2. TeamKept /\ [BallsNext]_team => TeamKept'
  BY TeamStep DEF TeamKept
<1>3. TeamKept => BallsAgree
  BY DEF TeamKept, TeamInv, Told, Whole, OneEach, OneStory, AtFeet, BallsAgree,
         OneBallASlot, BallsTellTheTruth
<1>4. QED
  BY <1>1, <1>2, <1>3, PTL DEF BallsSpec

-----------------------------------------------------------------------------
(* Skulls and frags.                                                       *)

USE PlayersAssumption, PvpAssumption DEF PlayersAssumption, PvpAssumption

MarkType == [skull : {"none", "white", "red", "black"}, end : Nat, until : Nat,
             clear : Nat \union {None}, came : BOOLEAN]

\* What holds of every mark m when it is c o'clock, its owner here or not: the
\* end of no skull has passed, that of a white one lies within the mark, and
\* the timer runs out within the mark.
MarkIsKept(m, c) ==
  /\ m.skull = "none" => m.end <= c
  /\ m.skull = "white" => m.end <= m.until \/ m.end <= c
  /\ m.until <= c + WhiteTime
  /\ m.clear # None => c <= m.clear /\ m.clear <= m.until

\* What holds of the mark of somebody present, who fights or not: a mark shows
\* as a skull that does not end before it, and a white skull has a timer unless
\* the end of the fight takes it.
MarkIsShown(m, c, fights) ==
  m.came \/ /\ m.until > c =>
                 m.skull # "none" /\ (m.skull = "white" => m.until <= m.end)
            /\ m.skull = "white" => m.clear # None \/ (m.end <= c /\ fights)

\* The counters of a killer nest, and were written on some day of some year.
TallyIsKept(k, f) ==
  /\ f["day"] <= f["week"] /\ f["day"] <= f["month"]
  /\ \/ \A s \in Span : f[s] = 0
     \/ \E y, d \in Nat : /\ k["day"] = <<y, d>>
                          /\ k["week"] = <<y, d \div WeekDays>>
                          /\ k["month"] = <<y, d \div MonthDays>>

PvpInvariant ==
  /\ PvpTypeOK
  /\ \A p \in Trainer : MarkIsKept(Mark(p), clock)
  /\ \A p \in Trainer : p \in online => MarkIsShown(Mark(p), clock, p \in fighting)
  /\ \A p \in Trainer : p \notin online => clearAt[p] = None
  /\ period = [p \in Killer |-> period[p]]
  /\ \A p \in Killer : TallyIsKept(period[p], frags[p])

\* Mark and SetMark read and write the same five variables.
LEMMA MarksTyped == ASSUME PvpTypeOK PROVE \A p \in Trainer : Mark(p) \in MarkType
BY DEF PvpTypeOK, Mark, MarkType

LEMMA SettingMarks ==
  ASSUME PvpTypeOK, NEW p \in Trainer, NEW m \in MarkType, SetMark(p, m)
  PROVE  /\ skull' \in [Trainer -> {"none", "white", "red", "black"}]
         /\ skullEnd' \in [Trainer -> Nat] /\ markedUntil' \in [Trainer -> Nat]
         /\ clearAt' \in [Trainer -> Nat \union {None}]
         /\ cameMarked' \in [Trainer -> BOOLEAN]
         /\ Mark(p)' = m
         /\ \A q \in Trainer : q # p => Mark(q)' = Mark(q)
<1>1. /\ m.skull \in {"none", "white", "red", "black"} /\ m.end \in Nat
      /\ m.until \in Nat /\ m.clear \in Nat \union {None} /\ m.came \in BOOLEAN
      /\ m = [skull |-> m.skull, end |-> m.end, until |-> m.until,
              clear |-> m.clear, came |-> m.came]
  BY DEF MarkType
<1> QED
  BY <1>1 DEF PvpTypeOK, SetMark, Mark

LEMMA TwoFields ==
  ASSUME NEW m \in MarkType, NEW s \in {"none", "white", "red", "black"}, NEW t \in Nat,
         NEW n, n = [m EXCEPT !.skull = s, !.end = t]
  PROVE  /\ n \in MarkType /\ n.skull = s /\ n.end = t
         /\ n.until = m.until /\ n.clear = m.clear /\ n.came = m.came
BY DEF MarkType

\* What renews a mark keeps it and has it shown.
LEMMA Opening ==
  ASSUME clock \in Nat, NEW m \in MarkType, MarkIsKept(m, clock)
  PROVE  /\ Opened(m) \in MarkType /\ MarkIsKept(Opened(m), clock)
         /\ MarkIsShown(Opened(m), clock, FALSE) /\ Opened(m).skull # "none"
BY DEF MarkType, MarkIsKept, MarkIsShown, Opened

LEMMA Marking ==
  ASSUME clock \in Nat, NEW p \in Trainer, NEW q, Mark(p) \in MarkType,
         MarkIsKept(Mark(p), clock),
         NEW f \in BOOLEAN, MarkIsShown(Mark(p), clock, f)
  PROVE  /\ Marked(p, q) \in MarkType /\ MarkIsKept(Marked(p, q), clock)
         /\ MarkIsShown(Marked(p, q), clock, f)
<1>1. CASE Marked(p, q) = Mark(p)
  BY <1>1
<1>2. CASE Marked(p, q) = Opened(Mark(p))
  BY <1>2, Opening DEF MarkIsShown
<1> QED
  BY <1>1, <1>2 DEF Marked

\* The white skull without a time ends with the fight.
LEMMA NotTiming ==
  ASSUME clock \in Nat, NEW m \in MarkType, NEW q,
         MarkIsKept(m, clock), MarkIsShown(m, clock, TRUE)
  PROVE  /\ Untimed(m, q) \in MarkType /\ MarkIsKept(Untimed(m, q), clock)
         /\ MarkIsShown(Untimed(m, q), clock, TRUE)
BY DEF MarkType, MarkIsKept, MarkIsShown, Untimed

LEMMA Ranking ==
  ASSUME clock \in Nat, NEW m \in MarkType, NEW g, MarkIsKept(m, clock),
         MarkIsShown(m, clock, FALSE), m.skull # "none"
  PROVE  /\ Ranked(m, g) \in MarkType /\ MarkIsKept(Ranked(m, g), clock)
         /\ MarkIsShown(Ranked(m, g), clock, FALSE)
<1>1. CASE Ranked(m, g) = m
  BY <1>1
<1>2. CASE Ranked(m, g) = [m EXCEPT !.skull = "black", !.end = clock + BlackTime]
  <2> DEFINE n == Ranked(m, g)
  <2>1. clock + BlackTime \in Nat
    OBVIOUS
  <2>2. /\ n \in MarkType /\ n.skull = "black"
        /\ n.until = m.until /\ n.clear = m.clear /\ n.came = m.came
    BY <1>2, <2>1 DEF MarkType
  <2> QED
    BY <2>2 DEF MarkIsKept, MarkIsShown
<1>3. CASE Ranked(m, g) = [m EXCEPT !.skull = "red", !.end = clock + RedTime]
  <2> DEFINE n == Ranked(m, g)
  <2>1. clock + RedTime \in Nat
    OBVIOUS
  <2>2. /\ n \in MarkType /\ n.skull = "red"
        /\ n.until = m.until /\ n.clear = m.clear /\ n.came = m.came
    BY <1>3, <2>1 DEF MarkType
  <2> QED
    BY <2>2 DEF MarkIsKept, MarkIsShown
<1> QED
  BY <1>1, <1>2, <1>3 DEF Ranked

\* Days are counted in whole numbers.
LEMMA Quotients ==
  ASSUME NEW a \in Nat, NEW b \in Nat \ {0}
  PROVE  a \div b \in Nat /\ a % b \in Nat
OBVIOUS

\* A day is of one week and one month.
LEMMA Counting ==
  ASSUME clock \in Nat, NEW k \in Killer, frags \in [Killer -> [Span -> Nat]],
         TallyIsKept(period[k], frags[k])
  PROVE  /\ FragCounts(k) \in [Span -> Nat]
         /\ TallyIsKept(PeriodKeys, FragCounts(k))
         /\ TallyIsKept(PeriodKeys, [s \in Span |-> FragCounts(k)[s] + 1])
<1> DEFINE day == clock \div DayLength
           y == day \div YearDays
           d == day % YearDays
           g == FragCounts(k)
<1>1. day \in Nat /\ y \in Nat /\ d \in Nat
  <2>1. day \in Nat
    BY Quotients
  <2> HIDE DEF day
  <2>2. QED
    BY <2>1, Quotients
<1>2. /\ PeriodKeys["day"] = <<y, d>>
      /\ PeriodKeys["week"] = <<y, d \div WeekDays>>
      /\ PeriodKeys["month"] = <<y, d \div MonthDays>>
  BY DEF PeriodKeys
<1>3. /\ g \in [Span -> Nat]
      /\ \A s \in Span : g[s] = IF period[k][s] = PeriodKeys[s] THEN frags[k][s] ELSE 0
  BY DEF FragCounts
<1> HIDE DEF day, y, d, g
<1>4. g["day"] <= g["week"] /\ g["day"] <= g["month"]
  <2>1. CASE \A s \in Span : frags[k][s] = 0
    BY <1>3, <2>1 DEF Span
  <2>2. CASE \E a, b \in Nat : /\ period[k]["day"] = <<a, b>>
                               /\ period[k]["week"] = <<a, b \div WeekDays>>
                               /\ period[k]["month"] = <<a, b \div MonthDays>>
    <3>1. period[k]["day"] = PeriodKeys["day"] =>
            period[k]["week"] = PeriodKeys["week"] /\ period[k]["month"] = PeriodKeys["month"]
      BY <1>2, <2>2
    <3> QED
      BY <1>3, <3>1 DEF TallyIsKept, Span
  <2> QED
    BY <2>1, <2>2 DEF TallyIsKept
<1>5. TallyIsKept(PeriodKeys, g)
  BY <1>1, <1>2, <1>4 DEF TallyIsKept
<1>6. TallyIsKept(PeriodKeys, [s \in Span |-> g[s] + 1])
  BY <1>1, <1>2, <1>3, <1>4 DEF TallyIsKept, Span
<1> QED
  BY <1>3, <1>5, <1>6 DEF g

LEMMA Tallying ==
  ASSUME PvpInvariant, NEW k \in Killer, NEW f \in [Span -> Nat], Count(k, f),
         TallyIsKept(PeriodKeys, f)
  PROVE  /\ frags' \in [Killer -> [Span -> Nat]]
         /\ period' = [p \in Killer |-> period'[p]]
         /\ \A p \in Killer : TallyIsKept(period'[p], frags'[p])
<1>1. /\ \A p \in Killer : period'[p] = IF p = k THEN PeriodKeys ELSE period[p]
      /\ \A p \in Killer : frags'[p] = IF p = k THEN f ELSE frags[p]
      /\ frags' \in [Killer -> [Span -> Nat]]
      /\ period' = [p \in Killer |-> period'[p]]
  BY DEF PvpInvariant, PvpTypeOK, Count
<1> QED
  BY <1>1 DEF PvpInvariant

\* One mark is set, of somebody who stays.
LEMMA MarkingOne ==
  ASSUME PvpInvariant, NEW p \in Trainer, NEW m \in MarkType, SetMark(p, m),
         p \in online, UNCHANGED <<online, clock>>,
         MarkIsKept(m, clock), MarkIsShown(m, clock, (p \in fighting)'),
         fighting' \subseteq Trainer,
         \A q \in Trainer : q # p /\ q \in fighting => q \in fighting',
         /\ frags' \in [Killer -> [Span -> Nat]]
         /\ period' = [q \in Killer |-> period'[q]]
         /\ \A q \in Killer : TallyIsKept(period'[q], frags'[q])
  PROVE  PvpInvariant'
<1>1. PvpTypeOK'
  BY SettingMarks DEF PvpInvariant, PvpTypeOK
<1>2. /\ Mark(p)' = m
      /\ \A q \in Trainer : q # p => Mark(q)' = Mark(q)
  BY SettingMarks DEF PvpInvariant
<1>3. \A q \in Trainer : MarkIsKept(Mark(q), clock)'
  BY <1>2 DEF PvpInvariant, MarkIsKept
<1>4. ASSUME NEW q \in Trainer, q \in online' PROVE MarkIsShown(Mark(q), clock, q \in fighting)'
  <2>1. CASE q = p
    BY <1>2, <2>1 DEF MarkIsShown
  <2>2. CASE q # p
    BY <1>2, <1>4, <2>2 DEF MarkIsShown, PvpInvariant
  <2> QED
    BY <2>1, <2>2
<1>5. \A q \in Trainer : q \notin online' => clearAt'[q] = None
  BY DEF PvpInvariant, SetMark
<1> QED
  BY <1>1, <1>3, <1>4, <1>5 DEF PvpInvariant

\* One mark is set, of somebody who comes or goes.
LEMMA MarkingAbsent ==
  ASSUME PvpInvariant, NEW p \in Trainer, NEW m \in MarkType, SetMark(p, m),
         online' = online \union {p} \/ online' = online \ {p},
         m.clear = None, UNCHANGED <<clock, fighting>>, MarkIsKept(m, clock),
         p \in online' => MarkIsShown(m, clock, (p \in fighting)'),
         /\ frags' \in [Killer -> [Span -> Nat]]
         /\ period' = [q \in Killer |-> period'[q]]
         /\ \A q \in Killer : TallyIsKept(period'[q], frags'[q])
  PROVE  PvpInvariant'
<1>1. PvpTypeOK'
  BY SettingMarks DEF PvpInvariant, PvpTypeOK
<1>2. /\ Mark(p)' = m
      /\ \A q \in Trainer : q # p => Mark(q)' = Mark(q)
  BY SettingMarks DEF PvpInvariant
<1>3. \A q \in Trainer : MarkIsKept(Mark(q), clock)'
  BY <1>2 DEF PvpInvariant, MarkIsKept
<1>4. ASSUME NEW q \in Trainer, q \in online' PROVE MarkIsShown(Mark(q), clock, q \in fighting)'
  <2>1. CASE q = p
    BY <1>2, <1>4, <2>1 DEF MarkIsShown
  <2>2. CASE q # p
    BY <1>2, <1>4, <2>2 DEF MarkIsShown, PvpInvariant
  <2> QED
    BY <2>1, <2>2
<1>5. \A q \in Trainer : q \notin online' => clearAt'[q] = None
  BY DEF PvpInvariant, PvpTypeOK, SetMark
<1> QED
  BY <1>1, <1>3, <1>4, <1>5 DEF PvpInvariant

LEMMA TalliesStand ==
  ASSUME PvpInvariant, UNCHANGED tallyVars
  PROVE  /\ frags' \in [Killer -> [Span -> Nat]]
         /\ period' = [q \in Killer |-> period'[q]]
         /\ \A q \in Killer : TallyIsKept(period'[q], frags'[q])
BY DEF PvpInvariant, PvpTypeOK, tallyVars

LEMMA MarkOf ==
  ASSUME PvpInvariant, NEW p \in Trainer
  PROVE  /\ Mark(p) \in MarkType /\ MarkIsKept(Mark(p), clock)
         /\ p \in online => MarkIsShown(Mark(p), clock, p \in fighting)
         /\ p \in online => MarkIsShown(Mark(p), clock, TRUE)
         /\ clock \in Nat /\ fighting \subseteq Trainer
         /\ Present = {q \in Trainer : q \in online}
<1>1. Mark(p) \in MarkType
  BY MarksTyped DEF PvpInvariant
<1> QED
  BY <1>1 DEF PvpInvariant, PvpTypeOK, MarkIsShown, Present

LEMMA PvpStep == PvpInvariant /\ [PvpNext]_pvpVars => PvpInvariant'
<1> SUFFICES ASSUME PvpInvariant, [PvpNext]_pvpVars PROVE PvpInvariant'
  OBVIOUS
<1>1. ASSUME NEW p \in Trainer, ShowStatus(p) PROVE PvpInvariant'
  <2>1. /\ p \in Present \intersect Killer /\ Count(p, FragCounts(p))
        /\ UNCHANGED <<online, clock, markVars, fighting>>
    BY <1>1 DEF ShowStatus
  <2>2. /\ FragCounts(p) \in [Span -> Nat]
        /\ TallyIsKept(PeriodKeys, FragCounts(p))
    BY <2>1, Counting DEF PvpInvariant, PvpTypeOK
  <2>3. /\ frags' \in [Killer -> [Span -> Nat]]
        /\ period' = [q \in Killer |-> period'[q]]
        /\ \A q \in Killer : TallyIsKept(period'[q], frags'[q])
    BY <2>1, <2>2, Tallying
  <2> QED
    BY <2>1, <2>3 DEF PvpInvariant, PvpTypeOK, markVars, Mark
<1>2. ASSUME NEW p \in Trainer, ClearWhiteSkull(p) PROVE PvpInvariant'
  <2> DEFINE m == IF markedUntil[p] > clock
                  THEN [Mark(p) EXCEPT !.clear = markedUntil[p]]
                  ELSE LET n == [Mark(p) EXCEPT !.clear = None]
                       IN  IF n.skull = "white" THEN NoSkull(n) ELSE n
  <2>1. /\ p \in online /\ SetMark(p, m)
        /\ clearAt[p] # None /\ clearAt[p] <= clock
        /\ UNCHANGED <<online, clock, tallyVars, fighting>>
    BY <1>2 DEF ClearWhiteSkull, Present
  <2>2. /\ markedUntil[p] = Mark(p).until /\ markedUntil[p] \in Nat
    BY DEF PvpInvariant, PvpTypeOK, Mark
  <2>3. /\ Mark(p) \in MarkType /\ MarkIsKept(Mark(p), clock)
        /\ MarkIsShown(Mark(p), clock, p \in fighting) /\ clock \in Nat
    BY <2>1, MarkOf
  <2>4. /\ m \in MarkType /\ MarkIsKept(m, clock) /\ MarkIsShown(m, clock, FALSE)
    <3>1. CASE markedUntil[p] > clock
      BY <2>2, <2>3, <3>1 DEF MarkType, MarkIsKept, MarkIsShown
    <3>2. CASE ~(markedUntil[p] > clock) /\ Mark(p).skull = "white"
      <4>1. m = NoSkull([Mark(p) EXCEPT !.clear = None])
        BY <2>3, <3>2 DEF MarkType
      <4> HIDE DEF m
      <4> QED
        <5> DEFINE n == [Mark(p) EXCEPT !.clear = None]
        <5>1. /\ n \in MarkType /\ n.clear = None /\ n.until = Mark(p).until
              /\ n.came = Mark(p).came
          BY <2>3 DEF MarkType
        <5>2. /\ m \in MarkType /\ m.skull = "none" /\ m.end = 0 /\ m.clear = None
              /\ m.until = Mark(p).until
          BY <4>1, <5>1 DEF NoSkull, MarkType
        <5> QED
          BY <2>2, <2>3, <3>2, <5>2 DEF MarkIsKept, MarkIsShown
    <3>3. CASE ~(markedUntil[p] > clock) /\ Mark(p).skull # "white"
      <4>1. m = [Mark(p) EXCEPT !.clear = None]
        BY <2>3, <3>3 DEF MarkType
      <4> HIDE DEF m
      <4> QED
        BY <2>2, <2>3, <3>3, <4>1 DEF MarkType, MarkIsKept, MarkIsShown
    <3> QED
      BY <3>1, <3>2, <3>3
  <2>5. MarkIsShown(m, clock, (p \in fighting)') /\ fighting' = fighting
        /\ fighting \subseteq Trainer
    BY <2>1, <2>4, MarkOf DEF MarkIsShown
  <2> HIDE DEF m
  <2> QED
    BY <2>1, <2>4, <2>5, MarkingOne, TalliesStand
<1>3. ASSUME NEW p \in Trainer, EndFight(p) PROVE PvpInvariant'
  <2> DEFINE m == IF skull[p] = "white" /\ skullEnd[p] <= clock
                  THEN [Mark(p) EXCEPT !.skull = "none"] ELSE Mark(p)
  <2>1. /\ p \in online /\ SetMark(p, m) /\ fighting' = fighting \ {p}
        /\ UNCHANGED <<online, clock, tallyVars>>
    BY <1>3 DEF EndFight, Present
  <2>2. skull[p] = Mark(p).skull /\ skullEnd[p] = Mark(p).end
    BY DEF Mark
  <2>3. /\ m \in MarkType /\ MarkIsKept(m, clock) /\ MarkIsShown(m, clock, FALSE)
    <3>1. /\ Mark(p) \in MarkType /\ MarkIsKept(Mark(p), clock)
          /\ MarkIsShown(Mark(p), clock, p \in fighting) /\ clock \in Nat
      BY <2>1, MarkOf
    <3>2. CASE Mark(p).skull = "white" /\ Mark(p).end <= clock
      <4>1. m = [Mark(p) EXCEPT !.skull = "none"]
        BY <2>2, <3>2
      <4> HIDE DEF m
      <4> QED
        BY <3>1, <3>2, <4>1 DEF MarkType, MarkIsKept, MarkIsShown
    <3>3. CASE ~(Mark(p).skull = "white" /\ Mark(p).end <= clock)
      <4>1. m = Mark(p)
        BY <2>2, <3>3
      <4> HIDE DEF m
      <4> QED
        BY <3>1, <3>3, <4>1 DEF MarkType, MarkIsKept, MarkIsShown
    <3> QED
      BY <3>2, <3>3
  <2>4. /\ MarkIsShown(m, clock, (p \in fighting)') /\ fighting' \subseteq Trainer
        /\ \A q \in Trainer : q # p /\ q \in fighting => q \in fighting'
    BY <2>1, <2>3, MarkOf DEF MarkIsShown
  <2> HIDE DEF m
  <2> QED
    BY <2>1, <2>3, <2>4, MarkingOne, TalliesStand
<1>4. ASSUME NEW p \in Trainer, LogoutOfPvp(p) PROVE PvpInvariant'
  <2> DEFINE m == [Mark(p) EXCEPT !.clear = None]
  <2>1. /\ online' = online \ {p} /\ SetMark(p, m)
        /\ UNCHANGED <<clock, tallyVars, fighting>>
    BY <1>4 DEF LogoutOfPvp
  <2>2. m \in MarkType /\ MarkIsKept(m, clock) /\ m.clear = None
    BY MarkOf, ZenonT(30) DEF MarkType, MarkIsKept
  <2> HIDE DEF m
  <2>3. p \in online' => MarkIsShown(m, clock, (p \in fighting)')
    BY <2>1
  <2>4. UNCHANGED <<clock, fighting>> /\ UNCHANGED tallyVars
    BY <2>1
  <2> QED
    BY <2>1, <2>2, <2>3, <2>4, MarkingAbsent, TalliesStand
<1>5. ASSUME NEW p \in Trainer, LoginToPvp(p) PROVE PvpInvariant'
  <2> DEFINE n == [Mark(p) EXCEPT !.came = markedUntil[p] > clock]
             m == IF skullEnd[p] > clock THEN n ELSE NoSkull(n)
  <2>1. /\ p \notin online /\ online' = online \union {p} /\ SetMark(p, m)
        /\ UNCHANGED <<clock, tallyVars, fighting>>
    BY <1>5 DEF LoginToPvp
  <2>2. /\ Mark(p) \in MarkType /\ MarkIsKept(Mark(p), clock) /\ Mark(p).clear = None
        /\ clock \in Nat
        /\ markedUntil[p] = Mark(p).until /\ skullEnd[p] = Mark(p).end
    BY <2>1, MarkOf DEF PvpInvariant, Mark
  <2>3. PICK came \in BOOLEAN : came = (Mark(p).until > clock)
    <3>1. CASE Mark(p).until > clock
      <4>1. (Mark(p).until > clock) = TRUE
        BY <3>1
      <4> QED
        BY <4>1
    <3>2. CASE ~(Mark(p).until > clock)
      <4>1. (Mark(p).until > clock) = FALSE
        BY <3>2
      <4> QED
        BY <4>1
    <3> QED
      BY <3>1, <3>2
  <2>4. n = [Mark(p) EXCEPT !.came = came]
    BY <2>2, <2>3
  <2>5. /\ n \in MarkType /\ n.skull = Mark(p).skull /\ n.end = Mark(p).end
        /\ n.until = Mark(p).until /\ n.clear = None /\ n.came = came
    <3> HIDE DEF n
    <3> QED
      BY <2>2, <2>4 DEF MarkType
  <2> HIDE DEF n
  <2>8. n.came <=> n.until > clock
    <3>1. CASE came = TRUE
      BY <2>3, <2>5, <3>1
    <3>2. CASE came = FALSE
      BY <2>3, <2>5, <3>2
    <3> QED
      BY <3>1, <3>2
  <2>6. /\ m \in MarkType /\ MarkIsKept(m, clock) /\ MarkIsShown(m, clock, FALSE)
        /\ m.clear = None
    <3>1. CASE skullEnd[p] > clock
      BY <2>2, <2>5, <2>8, <3>1 DEF MarkIsKept, MarkIsShown, MarkType
    <3>2. CASE ~(skullEnd[p] > clock)
      <4>1. m = [n EXCEPT !.skull = "none", !.end = 0]
        BY <3>2 DEF NoSkull
      <4> HIDE DEF m
      <4>2. /\ m \in MarkType /\ m.skull = "none" /\ m.end = 0 /\ m.clear = None
            /\ m.until = n.until /\ m.came = n.came
        BY <2>5, <4>1 DEF MarkType
      <4> QED
        BY <2>2, <2>5, <2>8, <4>2 DEF MarkIsKept, MarkIsShown, MarkType
    <3> QED
      BY <3>1, <3>2
  <2> HIDE DEF m
  <2>7. MarkIsShown(m, clock, (p \in fighting)')
    BY <2>6 DEF MarkIsShown
  <2> QED
    BY <2>1, <2>6, <2>7, MarkingAbsent, TalliesStand
<1>6. ASSUME NEW p \in Trainer, NEW q \in Trainer, Target(p, q) PROVE PvpInvariant'
  <2>1. /\ p \in online /\ SetMark(p, Untimed(Marked(p, q), q))
        /\ fighting' = fighting \union {p, q}
        /\ UNCHANGED <<online, clock, tallyVars>>
    BY <1>6 DEF Target, Present
  <2>2. /\ Marked(p, q) \in MarkType /\ MarkIsKept(Marked(p, q), clock)
        /\ MarkIsShown(Marked(p, q), clock, TRUE)
    BY <2>1, MarkOf, Marking
  <2>3. /\ Untimed(Marked(p, q), q) \in MarkType
        /\ MarkIsKept(Untimed(Marked(p, q), q), clock)
        /\ MarkIsShown(Untimed(Marked(p, q), q), clock, TRUE)
    BY <2>2, MarkOf, NotTiming
  <2>4. /\ (p \in fighting)' = TRUE /\ fighting' \subseteq Trainer
        /\ \A r \in Trainer : r # p /\ r \in fighting => r \in fighting'
    BY <2>1, MarkOf
  <2> QED
    BY <2>1, <2>3, <2>4, MarkingOne, TalliesStand
<1>7. ASSUME NEW p \in Trainer, NEW q \in Trainer, Strike(p, q) PROVE PvpInvariant'
  <2>1. /\ p \in online
        /\ SetMark(p, Marked(p, q)) \/ SetMark(p, Untimed(Marked(p, q), q))
        /\ fighting' = fighting \union {p}
        /\ UNCHANGED <<online, clock, tallyVars>>
    BY <1>7 DEF Strike, Present
  <2>2. /\ Marked(p, q) \in MarkType /\ MarkIsKept(Marked(p, q), clock)
        /\ MarkIsShown(Marked(p, q), clock, TRUE)
    BY <2>1, MarkOf, Marking
  <2>3. /\ Untimed(Marked(p, q), q) \in MarkType
        /\ MarkIsKept(Untimed(Marked(p, q), q), clock)
        /\ MarkIsShown(Untimed(Marked(p, q), q), clock, TRUE)
    BY <2>2, MarkOf, NotTiming
  <2>4. /\ (p \in fighting)' = TRUE /\ fighting' \subseteq Trainer
        /\ \A r \in Trainer : r # p /\ r \in fighting => r \in fighting'
    BY <2>1, MarkOf
  <2>5. \A m \in MarkType : SetMark(p, m) /\ MarkIsKept(m, clock) /\ MarkIsShown(m, clock, TRUE)
          => PvpInvariant'
    BY <2>1, <2>4, MarkingOne, TalliesStand
  <2> QED
    BY <2>1, <2>2, <2>3, <2>5
<1>8. ASSUME NEW v \in Trainer, NEW k \in Trainer, PokemonDies(v, k) PROVE PvpInvariant'
  <2> DEFINE f == [s \in Span |-> FragCounts(k)[s] + 1]
             m == Ranked(Opened(Mark(k)), f)
  <2>1. /\ k \in online /\ k \in Killer /\ SetMark(k, m) /\ Count(k, f)
        /\ UNCHANGED <<online, clock, fighting>>
    BY <1>8 DEF PokemonDies, Present
  <2>2. f \in [Span -> Nat] /\ TallyIsKept(PeriodKeys, f)
    <3>1. /\ FragCounts(k) \in [Span -> Nat] /\ TallyIsKept(PeriodKeys, f)
      BY <2>1, Counting DEF PvpInvariant, PvpTypeOK
    <3> QED
      BY <3>1
  <2>3. /\ frags' \in [Killer -> [Span -> Nat]]
        /\ period' = [q \in Killer |-> period'[q]]
        /\ \A q \in Killer : TallyIsKept(period'[q], frags'[q])
    <3> HIDE DEF f
    <3> QED
      BY <2>1, <2>2, Tallying
  <2> HIDE DEF f
  <2>4. /\ Opened(Mark(k)) \in MarkType /\ MarkIsKept(Opened(Mark(k)), clock)
        /\ MarkIsShown(Opened(Mark(k)), clock, FALSE)
        /\ Opened(Mark(k)).skull # "none"
    BY MarkOf, Opening
  <2>5. /\ m \in MarkType /\ MarkIsKept(m, clock) /\ MarkIsShown(m, clock, FALSE)
    BY <2>4, MarkOf, Ranking
  <2> HIDE DEF m
  <2>6. MarkIsShown(m, clock, (k \in fighting)')
    BY <2>5 DEF MarkIsShown
  <2>7. fighting' = fighting /\ fighting \subseteq Trainer
    BY <2>1, MarkOf
  <2> QED
    BY <2>1, <2>3, <2>5, <2>6, <2>7, MarkingOne
<1>9. CASE PassHour
  <2>1. /\ \A p \in Present : clearAt[p] # None => clearAt[p] > clock
        /\ clock' = clock + 1 /\ clock \in Nat
        /\ UNCHANGED <<online, markVars, tallyVars, fighting>>
    BY <1>9 DEF PassHour, PvpInvariant, PvpTypeOK
  <2>2. \A p \in Trainer : Mark(p)' = Mark(p)
    BY <2>1 DEF Mark, markVars
  <2>3. ASSUME NEW p \in Trainer PROVE MarkIsKept(Mark(p), clock + 1)
    <3>1. clearAt[p] # None => clearAt[p] >= clock + 1
      BY <2>1 DEF Present, PvpInvariant, PvpTypeOK
    <3>2. Mark(p).clear = clearAt[p]
      BY DEF Mark
    <3>3. Mark(p) \in MarkType /\ MarkIsKept(Mark(p), clock)
      BY MarkOf
    <3>4. /\ Mark(p).end \in Nat /\ Mark(p).until \in Nat
          /\ Mark(p).clear \in Nat \union {None}
      BY <3>3 DEF MarkType
    <3> QED
      BY <2>1, <3>1, <3>2, <3>3, <3>4 DEF MarkIsKept
  <2>4. ASSUME NEW p \in Trainer, p \in online
        PROVE  MarkIsShown(Mark(p), clock + 1, p \in fighting)
    BY <2>1, <2>4, MarkOf DEF MarkType, MarkIsShown
  <2>5. PvpTypeOK'
    BY <2>1 DEF PvpInvariant, PvpTypeOK, markVars, tallyVars
  <2> QED
    BY <2>1, <2>2, <2>3, <2>4, <2>5 DEF PvpInvariant, markVars, tallyVars
<1>10. CASE UNCHANGED pvpVars
  BY <1>10 DEF pvpVars, markVars, tallyVars, PvpInvariant, PvpTypeOK, Mark
<1> QED
  BY <1>1, <1>2, <1>3, <1>4, <1>5, <1>6, <1>7, <1>8, <1>9, <1>10 DEF PvpNext

LEMMA MarksAgree == PvpInvariant => MarksAreTrue
<1> SUFFICES ASSUME PvpInvariant PROVE MarksAreTrue
  OBVIOUS
<1>1. CountersNest
  BY DEF PvpInvariant, TallyIsKept, CountersNest
<1>2. ASSUME NEW p \in Present
      PROVE  /\ markedUntil[p] > clock => WearsSkull(p) \/ cameMarked[p]
             /\ skull[p] = "white" /\ markedUntil[p] < clock =>
                  p \in fighting \/ cameMarked[p]
  <2>1. p \in Trainer /\ p \in online
    BY DEF Present
  <2>2. /\ Mark(p).skull = skull[p] /\ Mark(p).until = markedUntil[p]
        /\ Mark(p).clear = clearAt[p] /\ Mark(p).came = cameMarked[p]
        /\ clock \in Nat /\ markedUntil[p] \in Nat /\ clearAt[p] \in Nat \union {None}
    BY <2>1 DEF Mark, PvpInvariant, PvpTypeOK
  <2>3. MarkIsKept(Mark(p), clock) /\ MarkIsShown(Mark(p), clock, p \in fighting)
    BY <2>1, MarkOf
  <2> QED
    BY <2>2, <2>3 DEF MarkIsKept, MarkIsShown, WearsSkull
<1> QED
  BY <1>1, <1>2 DEF MarksAreTrue, MarksShow, WhiteSkullsEnd

LEMMA PvpHolds == PvpSpec => []PvpInvariant
<1>1. online = Player /\ PvpInit => PvpInvariant
  <2> SUFFICES ASSUME online = Player, PvpInit PROVE PvpInvariant
    OBVIOUS
  <2>1. PvpTypeOK
    BY DEF PvpInit, PvpTypeOK
  <2>2. ASSUME NEW p \in Trainer
        PROVE  MarkIsKept(Mark(p), clock) /\ MarkIsShown(Mark(p), clock, p \in fighting)
    BY DEF PvpInit, Mark, MarkIsKept, MarkIsShown
  <2>3. /\ period = [p \in Killer |-> period[p]]
        /\ \A p \in Killer : TallyIsKept(period[p], frags[p])
    BY DEF PvpInit, TallyIsKept, Span
  <2> QED
    BY <2>1, <2>2, <2>3 DEF PvpInvariant
<1> QED
  BY <1>1, PvpStep, PTL DEF PvpSpec

\* Marks, skulls and counters agree: a mark shows as long as it lasts, a white
\* skull goes with its time, and no counter is behind that of a shorter span,
\* for any number of trainers, any durations and any length of days, weeks and
\* months.
THEOREM MarksTrue == PvpSpec => []MarksAreTrue
BY PvpHolds, MarksAgree, PTL

LEMMA OthersStay ==
  ASSUME PvpInvariant, NEW p \in Trainer, NEW r \in Trainer, NEW m, r # p,
         SetMark(r, m), clock' = clock, ~IsAggressor(p)
  PROVE  ~IsAggressor(p)'
BY DEF SetMark, IsAggressor, WearsSkull, PvpInvariant, PvpTypeOK

LEMMA OneStays ==
  ASSUME PvpInvariant, NEW p \in Trainer, NEW m, SetMark(p, m), clock' = clock,
         ~IsAggressor(p), m.skull = skull[p], m.until = markedUntil[p]
  PROVE  ~IsAggressor(p)'
BY DEF SetMark, IsAggressor, WearsSkull, PvpInvariant, PvpTypeOK

LEMMA DefendersStep ==
  ASSUME PvpInvariant, PvpNext, NEW p \in Present, ~IsAggressor(p),
         \A q \in Present \ {p} : WearsSkull(q)
  PROVE  ~IsAggressor(p)'
<1>1. /\ p \in Trainer /\ p \in online
      /\ skull[p] = "none" /\ ~(markedUntil[p] > clock)
  BY DEF Present, IsAggressor, WearsSkull
<1>2. /\ Mark(p) \in MarkType /\ Mark(p).skull = skull[p]
      /\ Mark(p).until = markedUntil[p]
  BY <1>1, MarkOf DEF Mark
<1>3. \A c : [Mark(p) EXCEPT !.clear = c].skull = skull[p]
          /\ [Mark(p) EXCEPT !.clear = c].until = markedUntil[p]
  BY <1>2 DEF MarkType
<1>4. ASSUME NEW q \in Present, q # p
      PROVE  Marked(p, q) = Mark(p) /\ Untimed(Marked(p, q), q) = Mark(p)
  <2>1. WearsSkull(q) /\ IsAggressor(q)
    BY <1>4 DEF IsAggressor
  <2>2. Marked(p, q) = Mark(p)
    BY <1>1, <2>1 DEF Marked
  <2> QED
    BY <2>1, <2>2 DEF Untimed
<1>5. ASSUME NEW r \in Trainer, ShowStatus(r) PROVE ~IsAggressor(p)'
  BY <1>5 DEF ShowStatus, markVars, IsAggressor, WearsSkull
<1>6. ASSUME NEW r \in Trainer, ClearWhiteSkull(r) PROVE ~IsAggressor(p)'
  <2>1. CASE r = p
    <3>1. SetMark(p, [Mark(p) EXCEPT !.clear = None]) /\ clock' = clock
      <4>1. [Mark(p) EXCEPT !.clear = None].skull # "white"
        BY <1>1, <1>3
      <4> QED
        BY <1>1, <1>6, <2>1, <4>1 DEF ClearWhiteSkull
    <3> QED
      BY <1>1, <1>3, <3>1, OneStays
  <2> QED
    BY <1>1, <1>6, <2>1, OthersStay DEF ClearWhiteSkull
<1>7. ASSUME NEW r \in Trainer, EndFight(r) PROVE ~IsAggressor(p)'
  <2>1. CASE r = p
    BY <1>1, <1>2, <1>7, <2>1, OneStays DEF EndFight
  <2> QED
    BY <1>1, <1>7, <2>1, OthersStay DEF EndFight
<1>8. ASSUME NEW r \in Trainer, LogoutOfPvp(r) PROVE ~IsAggressor(p)'
  <2>1. CASE r = p
    BY <1>1, <1>3, <1>8, <2>1, OneStays DEF LogoutOfPvp
  <2> QED
    BY <1>1, <1>8, <2>1, OthersStay DEF LogoutOfPvp
<1>9. ASSUME NEW r \in Trainer, LoginToPvp(r) PROVE ~IsAggressor(p)'
  <2>1. r # p
    BY <1>1, <1>9 DEF LoginToPvp
  <2> QED
    BY <1>1, <1>9, <2>1, OthersStay DEF LoginToPvp
<1>10. ASSUME NEW r \in Trainer, NEW q \in Trainer, Target(r, q) \/ Strike(r, q)
       PROVE  ~IsAggressor(p)'
  <2>1. PICK m : SetMark(r, m) /\ m \in {Marked(r, q), Untimed(Marked(r, q), q)}
    BY <1>10 DEF Target, Strike
  <2>2. q \in Present /\ r # q /\ clock' = clock
    BY <1>10 DEF Target, Strike
  <2>3. CASE r = p
    BY <1>1, <1>2, <1>4, <2>1, <2>2, <2>3, OneStays
  <2> QED
    BY <1>1, <2>1, <2>2, <2>3, OthersStay
<1>11. ASSUME NEW v \in Trainer, NEW k \in Trainer, PokemonDies(v, k)
       PROVE  ~IsAggressor(p)'
  <2>1. v \in Present /\ v # k /\ ~IsAggressor(v) /\ clock' = clock
    BY <1>11 DEF PokemonDies
  <2>2. v = p
    BY <2>1 DEF IsAggressor
  <2>3. PICK m : SetMark(k, m)
    BY <1>11 DEF PokemonDies
  <2> QED
    BY <1>1, <2>1, <2>2, <2>3, OthersStay
<1>12. CASE PassHour
  BY <1>1, <1>12 DEF PassHour, markVars, IsAggressor, WearsSkull, PvpInvariant, PvpTypeOK
<1> QED
  BY <1>5, <1>6, <1>7, <1>8, <1>9, <1>10, <1>11, <1>12 DEF PvpNext

\* Where everybody else wears a skull nobody becomes an aggressor, in any step.
THEOREM DefendersInnocent == PvpSpec => DefendersStayInnocent
<1>1. PvpInvariant /\ [PvpNext]_pvpVars =>
        [\A p \in Present :
           ~IsAggressor(p) /\ (\A q \in Present \ {p} : WearsSkull(q)) =>
             ~IsAggressor(p)']_pvpVars
  BY DefendersStep
<1> QED
  BY <1>1, PvpHolds, PTL DEF PvpSpec, DefendersStayInnocent

-----------------------------------------------------------------------------
(* Ailments.                                                               *)

USE AilmentsAssumption DEF AilmentsAssumption

Soon == {"reslow", "regain"}
PatientType ==
  [kind : {"player", "summon"}, rounds : [Ailment -> Int], ball : [Ailment -> Int],
   ticks : [Ailment -> Nat], soon : [Soon -> Nat], restore : Int,
   slowed : BOOLEAN, own : BOOLEAN, still : BOOLEAN,
   forgotten : SUBSET {"own", "still"}, stranded : SUBSET Ailment]

\* The ailments that take from a creature its speed, and its steps.
SpeedTakers(p) ==
  IF p.kind = "player" THEN {"confusion"} ELSE {"confusion", "paralyze", "sleep"}
StepTakers == {"paralyze", "sleep"}

\* What is kept of a creature p while an event of the ailments in E is under
\* way: other ailments that count have an event, and what was taken is known to
\* an event of an ailment that takes it, or forgotten.
KeptBut(p, E) ==
  /\ \A a \in Ailment \ (p.stranded \union E) : p.rounds[a] >= 0 => p.ticks[a] > 0
  /\ p.kind = "summon" => \A a \in Ailment : p.rounds[a] >= 0 => p.ball[a] >= 0
  /\ \/ p.own \/ "own" \in p.forgotten
     \/ \E a \in SpeedTakers(p) : p.ticks[a] > 0 \/ a \in E
  /\ \/ ~p.still \/ "still" \in p.forgotten
     \/ p.kind = "player" /\ \E a \in StepTakers : p.ticks[a] > 0 \/ a \in E

IsKept(p) == p \in PatientType /\ KeptBut(p, {})

AilmentsInvariant == IsKept(patient)

\* The functions an ending ailment calls leave alone what counts and ticks.
Calm(p, q) ==
  /\ q \in PatientType
  /\ q.kind = p.kind /\ q.rounds = p.rounds /\ q.ball = p.ball /\ q.ticks = p.ticks
  /\ q.stranded = p.stranded

LEMMA Forgetting ==
  ASSUME NEW p \in PatientType, NEW F \in SUBSET {"own", "still"},
         NEW r, r = [p EXCEPT !.forgotten = F]
  PROVE  Calm(p, r) /\ r.own = p.own /\ r.still = p.still /\ r.forgotten = F
BY DEF Calm, PatientType

Untouched(p, q) ==
  Calm(p, q) /\ q.own = p.own /\ q.still = p.still /\ q.forgotten = p.forgotten

LEMMA Slowing ==
  ASSUME NEW p \in PatientType
  PROVE  Untouched(p, RemoveCondition(p)) /\ Untouched(p, AddCondition(p))
BY DEF RemoveCondition, AddCondition, Untouched, Calm, PatientType

LEMMA Delaying ==
  ASSUME NEW p \in PatientType, NEW e \in Soon
  PROVE  Untouched(p, Later(p, e))
<1> DEFINE s == [p.soon EXCEPT ![e] = p.soon[e] + 1]
<1>1. s \in [Soon -> Nat]
  BY DEF PatientType
<1>2. Later(p, e) = [p EXCEPT !.soon = s]
  BY DEF Later
<1> HIDE DEF s
<1> QED
  BY <1>1, <1>2 DEF Untouched, Calm, PatientType

LEMMA Lifting ==
  ASSUME NEW p \in PatientType
  PROVE  Untouched(p, Lift(p))
<1> DEFINE q == RemoveCondition(p)
<1>1. Untouched(p, q) /\ q \in PatientType /\ "reslow" \in Soon
  BY Slowing DEF Untouched, Calm, Soon
<1> HIDE DEF q
<1>2. Untouched(q, Later(q, "reslow"))
  BY <1>1, Delaying
<1>3. Untouched(p, Later(q, "reslow")) /\ Untouched(p, p)
  BY <1>1, <1>2 DEF Untouched, Calm
<1> QED
  BY <1>3 DEF Lift, q

LEMMA Regaining ==
  ASSUME NEW p \in PatientType
  PROVE  /\ Calm(p, RegainSpeed(p))
         /\ RegainSpeed(p).own \/ "own" \in RegainSpeed(p).forgotten
         /\ RegainSpeed(p).still = p.still
         /\ "still" \in RegainSpeed(p).forgotten <=> "still" \in p.forgotten
<1> DEFINE q == Lift(p)
<1>0. Calm(p, q) /\ q \in PatientType /\ q.still = p.still /\ q.forgotten = p.forgotten
  BY Lifting DEF Untouched, Calm
<1> HIDE DEF q
<1>1. CASE p.slowed
  <2> DEFINE F == q.forgotten \union {"own"}
             s == [q EXCEPT !.own = FALSE]
             r == RegainSpeed(p)
  <2>1. r = [q EXCEPT !.own = FALSE, !.forgotten = F]
    BY <1>0, <1>1 DEF RegainSpeed, q, PatientType
  <2>2. r = [s EXCEPT !.forgotten = F]
    BY <1>0, <2>1 DEF PatientType
  <2>3. Calm(q, s) /\ ~s.own /\ s.still = q.still
    BY <1>0 DEF Calm, PatientType
  <2>7. s \in PatientType
    BY <2>3 DEF Calm
  <2>4. F \in SUBSET {"own", "still"}
    BY <1>0 DEF PatientType
  <2>6. F = q.forgotten \union {"own"}
    OBVIOUS
  <2> HIDE DEF F, s, r
  <2>5. Calm(s, r) /\ r.own = s.own /\ r.still = s.still /\ r.forgotten = F
    BY <2>2, <2>4, <2>7, Forgetting
  <2> QED
    BY <1>0, <2>3, <2>5, <2>6 DEF Calm, r
<1>2. CASE ~p.slowed
  <2> DEFINE F == q.forgotten \ {"own"}
             s == [q EXCEPT !.own = TRUE]
             r == RegainSpeed(p)
  <2>1. r = [q EXCEPT !.own = TRUE, !.forgotten = F]
    BY <1>0, <1>2 DEF RegainSpeed, q, PatientType
  <2>2. r = [s EXCEPT !.forgotten = F]
    BY <1>0, <2>1 DEF PatientType
  <2>3. Calm(q, s) /\ s.own /\ s.still = q.still
    BY <1>0 DEF Calm, PatientType
  <2>7. s \in PatientType
    BY <2>3 DEF Calm
  <2>4. F \in SUBSET {"own", "still"}
    BY <1>0 DEF PatientType
  <2>6. F = q.forgotten \ {"own"}
    OBVIOUS
  <2> HIDE DEF F, s, r
  <2>5. Calm(s, r) /\ r.own = s.own /\ r.still = s.still /\ r.forgotten = F
    BY <2>2, <2>4, <2>7, Forgetting
  <2> QED
    BY <1>0, <2>3, <2>5, <2>6 DEF Calm, r
<1> QED
  BY <1>1, <1>2

LEMMA Keeping ==
  ASSUME NEW p \in PatientType, NEW w \in {"own", "still"}
  PROVE  /\ Calm(p, Kept(p, w)) /\ Kept(p, w).own = p.own /\ Kept(p, w).still = p.still
         /\ p.forgotten \subseteq Kept(p, w).forgotten
         /\ Kept(p, w).forgotten \subseteq p.forgotten \union {w}
         /\ w \in Kept(p, w).forgotten \/ (Holds(p) /\ (p.kind = "player" => w = "still"))
BY DEF Kept, Calm, PatientType

LEMMA Moving ==
  ASSUME NEW p \in PatientType
  PROVE  /\ Calm(p, MayMove(p)) /\ MayMove(p).own = p.own /\ ~MayMove(p).still
         /\ "own" \in MayMove(p).forgotten <=> "own" \in p.forgotten
BY DEF MayMove, Calm, PatientType

\* What holds is an event of another ailment than the one that has just ended.
LEMMA Holding ==
  ASSUME NEW p \in PatientType, NEW a \in Ailment, p.rounds[a] = -1, Holds(p)
  PROVE  \E b \in StepTakers : b # a /\ p.ticks[b] > 0
BY DEF Holds, IsParalyze, StepTakers, Ailment, PatientType

\* The end of an ailment, and the return of what it took.
LEMMA Ending ==
  ASSUME NEW p \in PatientType, NEW a \in Ailment, p.rounds[a] = -1, KeptBut(p, {a})
  PROVE  IsKept(Ended(p, a))
<1> DEFINE r == Ended(p, a)
<1>1. SUFFICES /\ Calm(p, r)
               /\ \/ r.own \/ "own" \in r.forgotten
                  \/ \E b \in SpeedTakers(p) : p.ticks[b] > 0
               /\ \/ ~r.still \/ "still" \in r.forgotten
                  \/ p.kind = "player" /\ \E b \in StepTakers : p.ticks[b] > 0
  <2>1. /\ \A b \in Ailment \ r.stranded : r.rounds[b] >= 0 => r.ticks[b] > 0
        /\ r.kind = "summon" => \A b \in Ailment : r.rounds[b] >= 0 => r.ball[b] >= 0
    BY <1>1 DEF Calm, KeptBut
  <2>2. SpeedTakers(r) = SpeedTakers(p)
    BY <1>1 DEF Calm, SpeedTakers
  <2> HIDE DEF r
  <2>3. KeptBut(r, {})
    BY <1>1, <2>1, <2>2 DEF Calm, KeptBut
  <2> QED
    BY <1>1, <2>3 DEF IsKept, Calm, r
<1>2. /\ p.own \/ "own" \in p.forgotten \/ \E b \in SpeedTakers(p) : p.ticks[b] > 0 \/ b = a
      /\ \/ ~p.still \/ "still" \in p.forgotten
         \/ p.kind = "player" /\ \E b \in StepTakers : p.ticks[b] > 0 \/ b = a
      /\ p.kind \in {"player", "summon"}
  BY DEF KeptBut, PatientType
<1> DEFINE l == Lift(p)
<1>3. /\ Untouched(p, l) /\ l \in PatientType /\ l.rounds[a] = -1
  BY Lifting DEF Untouched, Calm
<1>4. /\ Calm(p, RegainSpeed(l))
      /\ RegainSpeed(l).own \/ "own" \in RegainSpeed(l).forgotten
      /\ RegainSpeed(l).still = p.still
      /\ "still" \in RegainSpeed(l).forgotten <=> "still" \in p.forgotten
  <2> HIDE DEF l
  <2> QED
    BY <1>3, Regaining DEF Untouched, Calm
<1>5. /\ Calm(p, Kept(l, "own"))
      /\ Kept(l, "own").still = p.still
      /\ "still" \in p.forgotten => "still" \in Kept(l, "own").forgotten
      /\ \/ "own" \in Kept(l, "own").forgotten
         \/ p.kind = "summon" /\ \E b \in StepTakers : b # a /\ p.ticks[b] > 0
  <2> HIDE DEF l
  <2>1. Holds(l) => \E b \in StepTakers : b # a /\ p.ticks[b] > 0
    BY <1>3, Holding DEF Untouched, Calm
  <2>2. /\ Calm(l, Kept(l, "own")) /\ Kept(l, "own").still = l.still
        /\ l.forgotten \subseteq Kept(l, "own").forgotten
        /\ "own" \in Kept(l, "own").forgotten \/ (Holds(l) /\ l.kind # "player")
    BY <1>3, Keeping
  <2> QED
    BY <1>2, <1>3, <2>1, <2>2 DEF Untouched, Calm
<1> HIDE DEF l
<1>6. CASE a \in {"slow", "stun"}
  <2> DEFINE q == RemoveCondition(p)
  <2>1. Untouched(p, q) /\ q \in PatientType /\ "regain" \in Soon
    BY Slowing DEF Untouched, Calm, Soon
  <2> HIDE DEF q
  <2>2. Untouched(p, Later(q, "regain"))
    BY <2>1, Delaying DEF Untouched, Calm
  <2>3. r = q \/ r = Later(q, "regain")
    BY <1>6 DEF Ended, EndSlow, q
  <2>4. Untouched(p, r)
    BY <2>1, <2>2, <2>3
  <2>5. a \notin SpeedTakers(p) /\ a \notin StepTakers
    BY <1>6 DEF SpeedTakers, StepTakers
  <2> HIDE DEF r
  <2> QED
    BY <1>2, <2>4, <2>5 DEF Untouched
<1>7. CASE a = "confusion"
  <2>1. r = Kept(l, "own") \/ r = RegainSpeed(l)
    BY <1>7 DEF Ended, EndConfusion, l
  <2>2. a \notin StepTakers /\ (p.kind = "summon" => StepTakers \subseteq SpeedTakers(p))
    BY <1>7 DEF SpeedTakers, StepTakers
  <2> HIDE DEF r
  <2> QED
    BY <1>2, <1>4, <1>5, <2>1, <2>2
<1>8. CASE a \in {"paralyze", "sleep"} /\ p.kind = "summon"
  <2>1. r = Kept(l, "own") \/ r = RegainSpeed(l)
    BY <1>8 DEF Ended, Release, l
  <2>2. StepTakers \subseteq SpeedTakers(p)
    BY <1>8 DEF SpeedTakers, StepTakers
  <2> HIDE DEF r
  <2> QED
    BY <1>2, <1>4, <1>5, <1>8, <2>1, <2>2
<1>9. CASE a \in {"paralyze", "sleep"} /\ p.kind = "player"
  <2>1. r = Kept(p, "still") \/ r = MayMove(p)
    BY <1>9 DEF Ended, Release
  <2>2. a \notin SpeedTakers(p)
    BY <1>9 DEF SpeedTakers
  <2>3. Holds(p) => \E b \in StepTakers : b # a /\ p.ticks[b] > 0
    BY Holding
  <2>4. /\ Calm(p, Kept(p, "still")) /\ Kept(p, "still").own = p.own
        /\ p.forgotten \subseteq Kept(p, "still").forgotten
        /\ "still" \in Kept(p, "still").forgotten \/ Holds(p)
    BY Keeping
  <2> HIDE DEF r
  <2>5. CASE r = Kept(p, "still")
    BY <1>2, <1>9, <2>2, <2>3, <2>4, <2>5
  <2>6. CASE r = MayMove(p)
    BY <1>2, <2>2, <2>6, Moving
  <2> QED
    BY <2>1, <2>5, <2>6
<1>10. CASE a = "silence"
  <2>1. r = p /\ Calm(p, p)
    BY <1>10 DEF Ended, Calm
  <2>2. a \notin SpeedTakers(p) /\ a \notin StepTakers
    BY <1>10 DEF SpeedTakers, StepTakers
  <2> HIDE DEF r
  <2> QED
    BY <1>2, <2>1, <2>2
<1> QED
  BY <1>2, <1>6, <1>7, <1>8, <1>9, <1>10 DEF Ailment

LEMMA Suffering ==
  ASSUME NEW p \in PatientType, NEW a \in Ailment, NEW acts, KeptBut(p, {a})
  PROVE  /\ Calm(p, Suffers(p, a, acts)) /\ KeptBut(Suffers(p, a, acts), {a})
<1> DEFINE r == Suffers(p, a, acts)
<1>1. \/ r = p \/ r = AddCondition(p)
      \/ r = [p EXCEPT !.own = FALSE] /\ a \in SpeedTakers(p)
      \/ r = [p EXCEPT !.still = TRUE] /\ p.kind = "player" /\ a \in StepTakers
  BY DEF Suffers, Ailment, SpeedTakers, StepTakers, PatientType
<1> HIDE DEF r
<1>2. CASE r = p \/ r = AddCondition(p)
  <2>1. Untouched(p, r)
    BY <1>2, Slowing DEF Untouched, Calm
  <2> QED
    BY <2>1 DEF Untouched, Calm, KeptBut, SpeedTakers, r
<1>3. CASE r = [p EXCEPT !.own = FALSE] /\ a \in SpeedTakers(p)
  <2>1. Calm(p, r) /\ r.still = p.still /\ r.forgotten = p.forgotten
    BY <1>3 DEF Calm, PatientType
  <2> QED
    BY <1>3, <2>1 DEF Calm, KeptBut, SpeedTakers, r
<1>4. CASE r = [p EXCEPT !.still = TRUE] /\ p.kind = "player" /\ a \in StepTakers
  <2>1. Calm(p, r) /\ r.own = p.own /\ r.forgotten = p.forgotten
    BY <1>4 DEF Calm, PatientType
  <2> QED
    BY <1>4, <2>1 DEF Calm, KeptBut, SpeedTakers, r
<1> QED
  BY <1>1, <1>2, <1>3, <1>4

\* A new event of an ailment knows all that the ailment may have taken.
LEMMA Ticking ==
  ASSUME NEW p \in PatientType, NEW a \in Ailment, KeptBut(p, {a}),
         NEW r, r = [p EXCEPT !.ticks[a] = @ + 1]
  PROVE  IsKept(r)
<1> DEFINE t == [p.ticks EXCEPT ![a] = p.ticks[a] + 1]
<1>1. /\ t \in [Ailment -> Nat] /\ t[a] > 0
      /\ \A b \in Ailment : p.ticks[b] > 0 => t[b] > 0
  BY DEF PatientType
<1>2. r = [p EXCEPT !.ticks = t]
  OBVIOUS
<1> HIDE DEF t
<1>3. /\ r \in PatientType /\ r.kind = p.kind /\ r.rounds = p.rounds /\ r.ball = p.ball
      /\ r.ticks = t /\ r.stranded = p.stranded
      /\ r.own = p.own /\ r.still = p.still /\ r.forgotten = p.forgotten
  BY <1>1, <1>2 DEF PatientType
<1>4. SpeedTakers(p) \subseteq Ailment /\ StepTakers \subseteq Ailment
  BY DEF SpeedTakers, StepTakers, Ailment
<1> QED
  BY <1>1, <1>3, <1>4 DEF IsKept, KeptBut, SpeedTakers

LEMMA Applying ==
  ASSUME NEW p \in PatientType, NEW a \in Ailment, NEW cd \in Int, cd >= -1,
         NEW acts, KeptBut(p, IF cd = -1 THEN {a} ELSE {})
  PROVE  IsKept(Apply(p, a, cd, acts))
<1>1. CASE p.rounds[a] >= 1 /\ cd # -1
  <2> DEFINE t == [p.rounds EXCEPT ![a] = cd]
             r == [p EXCEPT !.rounds = t]
  <2>1. Apply(p, a, cd, acts) = r
    BY <1>1 DEF Apply
  <2>2. /\ t \in [Ailment -> Int]
        /\ \A b \in Ailment : t[b] >= 0 => p.rounds[b] >= 0
    BY <1>1 DEF PatientType
  <2> HIDE DEF t
  <2>3. /\ r \in PatientType /\ r.kind = p.kind /\ r.rounds = t /\ r.ball = p.ball
        /\ r.ticks = p.ticks /\ r.stranded = p.stranded
        /\ r.own = p.own /\ r.still = p.still /\ r.forgotten = p.forgotten
    BY <2>2 DEF PatientType
  <2> HIDE DEF r
  <2> QED
    BY <1>1, <2>1, <2>2, <2>3 DEF IsKept, KeptBut, SpeedTakers
<1>2. CASE ~(p.rounds[a] >= 1 /\ cd # -1)
  <2> DEFINE n == IF p.rounds[a] + cd >= 0 THEN p.rounds[a] + cd ELSE -1
             q == [p EXCEPT !.rounds[a] = n,
                            !.ball[a] = IF p.kind = "summon" THEN n ELSE @,
                            !.stranded = @ \ {a}]
  <2>1. Apply(p, a, cd, acts) = IF n = -1 THEN Ended(q, a)
                                ELSE [Suffers(q, a, acts) EXCEPT !.ticks[a] = @ + 1]
    BY <1>2 DEF Apply
  <2>2. n \in Int /\ n >= -1
    BY DEF PatientType
  <2>3. KeptBut(p, {a})
    BY DEF KeptBut
  <2> DEFINE N == [p.rounds EXCEPT ![a] = n]
             B == [p.ball EXCEPT ![a] = IF p.kind = "summon" THEN n ELSE p.ball[a]]
             S == p.stranded \ {a}
  <2>4. q = [[[p EXCEPT !.rounds = N] EXCEPT !.ball = B] EXCEPT !.stranded = S]
    BY DEF PatientType
  <2> HIDE DEF n
  <2>5. /\ N \in [Ailment -> Int] /\ B \in [Ailment -> Int] /\ S \in SUBSET Ailment
        /\ N[a] = n /\ (p.kind = "summon" => B[a] = n)
        /\ \A b \in Ailment : b # a => N[b] = p.rounds[b] /\ B[b] = p.ball[b]
        /\ \A b \in Ailment : b # a => (b \in S <=> b \in p.stranded)
    BY <2>2 DEF PatientType
  <2> HIDE DEF N, B, S, q
  <2>6. /\ q \in PatientType /\ q.kind = p.kind /\ q.rounds = N /\ q.ball = B
        /\ q.ticks = p.ticks /\ q.stranded = S
        /\ q.own = p.own /\ q.still = p.still /\ q.forgotten = p.forgotten
    BY <2>4, <2>5 DEF PatientType
  <2>7. KeptBut(q, {a})
    BY <2>2, <2>3, <2>5, <2>6 DEF KeptBut, SpeedTakers
  <2>8. CASE n = -1
    <3>1. IsKept(Ended(q, a))
      BY <2>5, <2>6, <2>7, <2>8, Ending
    <3> QED
      BY <2>1, <2>8, <3>1
  <2>9. CASE n # -1
    <3> DEFINE u == Suffers(q, a, acts)
    <3>1. u \in PatientType /\ KeptBut(u, {a})
      BY <2>6, <2>7, Suffering DEF Calm
    <3> HIDE DEF u
    <3>2. IsKept([u EXCEPT !.ticks[a] = @ + 1])
      BY <3>1, Ticking
    <3> QED
      BY <2>1, <2>9, <3>2 DEF u
  <2> QED
    BY <2>8, <2>9
<1> QED
  BY <1>1, <1>2

LEMMA Resuming ==
  ASSUME NEW p, IsKept(p), NEW a \in Ailment, NEW spared
  PROVE  IsKept(Resumed(p, a, spared))
<1>1. CASE p.ball[a] >= 0 /\ a \notin spared
  <2>1. /\ p \in PatientType /\ KeptBut(p, {}) /\ p.ball[a] \in Int
        /\ p.ball[a] >= -1 /\ p.ball[a] # -1
    BY <1>1 DEF IsKept, PatientType
  <2>2. KeptBut(p, IF p.ball[a] = -1 THEN {a} ELSE {})
    BY <2>1
  <2>3. IsKept(Apply(p, a, p.ball[a], TRUE))
    BY <2>1, <2>2, Applying
  <2> QED
    BY <1>1, <2>3 DEF Resumed
<1>2. CASE ~(p.ball[a] >= 0 /\ a \notin spared)
  BY <1>2 DEF Resumed
<1> QED
  BY <1>1, <1>2

LEMMA Curing ==
  ASSUME NEW p, IsKept(p)
  PROVE  /\ IsKept(Cured(p))
         /\ IsKept([Cured(p) EXCEPT !.ball = [a \in Ailment |-> -1]])
         /\ Cured(p) \in PatientType
<1> DEFINE N == [a \in Ailment |-> -1]
           c == Cured(p)
           h == [c EXCEPT !.ball = N]
<1>1. N \in [Ailment -> Int] /\ \A a \in Ailment : N[a] = -1
  OBVIOUS
<1>2. c = [p EXCEPT !.rounds = N, !.stranded = {}]
  BY DEF Cured
<1> HIDE DEF c, N
<1>3. c = [[p EXCEPT !.rounds = N] EXCEPT !.stranded = {}]
  BY <1>2 DEF IsKept, PatientType
<1>4. /\ c \in PatientType /\ c.kind = p.kind /\ c.rounds = N /\ c.ball = p.ball
      /\ c.ticks = p.ticks /\ c.stranded = {}
      /\ c.own = p.own /\ c.still = p.still /\ c.forgotten = p.forgotten
  BY <1>1, <1>3 DEF IsKept, PatientType
<1>5. /\ h \in PatientType /\ h.kind = p.kind /\ h.rounds = N
      /\ h.ticks = p.ticks /\ h.stranded = {}
      /\ h.own = p.own /\ h.still = p.still /\ h.forgotten = p.forgotten
  BY <1>1, <1>4 DEF PatientType
<1> HIDE DEF h
<1>6. KeptBut(p, {})
  BY DEF IsKept
<1>7. KeptBut(c, {}) /\ KeptBut(h, {})
  BY <1>1, <1>4, <1>5, <1>6 DEF KeptBut, SpeedTakers
<1> QED
  BY <1>4, <1>5, <1>7 DEF IsKept, h, c, N

LEMMA Fresh ==
  ASSUME NEW kind \in {"player", "summon"}
  PROVE  LET p == Healthy(kind)
         IN  /\ p \in PatientType /\ p.kind = kind /\ p.own /\ ~p.still
             /\ \A a \in Ailment : p.rounds[a] = -1
BY DEF Healthy, PatientType, Soon

LEMMA AilmentsStep == IsKept(patient) /\ [AilmentsNext]_patient => IsKept(patient')
<1> SUFFICES ASSUME IsKept(patient), AilmentsNext PROVE IsKept(patient')
  OBVIOUS
<1>1. patient \in PatientType /\ KeptBut(patient, {})
  BY DEF IsKept
<1>2. ASSUME NEW a \in Ailment, NEW acts, Tick(a, acts) PROVE IsKept(patient')
  <2> DEFINE t == [patient.ticks EXCEPT ![a] = patient.ticks[a] - 1]
             p == [patient EXCEPT !.ticks[a] = @ - 1]
  <2>1. /\ patient.ticks[a] > 0 /\ patient' = Apply(p, a, -1, acts /\ a # "slow")
    BY <1>2 DEF Tick
  <2>2. t \in [Ailment -> Nat] /\ \A b \in Ailment : b # a => t[b] = patient.ticks[b]
    BY <1>1, <2>1 DEF PatientType
  <2>3. p = [patient EXCEPT !.ticks = t]
    OBVIOUS
  <2> HIDE DEF t, p
  <2>4. /\ p \in PatientType /\ p.kind = patient.kind /\ p.rounds = patient.rounds
        /\ p.ball = patient.ball /\ p.ticks = t /\ p.stranded = patient.stranded
        /\ p.own = patient.own /\ p.still = patient.still
        /\ p.forgotten = patient.forgotten
    BY <1>1, <2>2, <2>3 DEF PatientType
  <2>5. SpeedTakers(patient) \subseteq Ailment /\ StepTakers \subseteq Ailment
    BY DEF SpeedTakers, StepTakers, Ailment
  <2>6. KeptBut(p, {a})
    BY <1>1, <2>2, <2>4, <2>5 DEF KeptBut, SpeedTakers
  <2>7. KeptBut(p, IF -1 = -1 THEN {a} ELSE {})
    BY ONLY <2>6
  <2>8. p \in PatientType
    BY ONLY <2>4
  <2>9. \A b : IsKept(Apply(p, a, -1, b))
    BY ONLY <1>2, <2>7, <2>8, Applying
  <2> QED
    BY <2>1, <2>9
<1>3. ASSUME NEW a \in Ailment, NEW acts, Afflict(a, acts) PROVE IsKept(patient')
  <2>1. patient' = Apply(patient, a, MaxRounds, acts)
    BY <1>3 DEF Afflict
  <2>2. MaxRounds \in Int /\ MaxRounds >= -1 /\ MaxRounds # -1
    OBVIOUS
  <2>3. KeptBut(patient, IF MaxRounds = -1 THEN {a} ELSE {})
    BY <1>1, <2>2
  <2> QED
    BY <1>1, <2>1, <2>2, <2>3, Applying
<1>4. ASSUME NEW e \in Soon, SoonEvent(e) PROVE IsKept(patient')
  <2> DEFINE s == [patient.soon EXCEPT ![e] = patient.soon[e] - 1]
             p == [patient EXCEPT !.soon[e] = @ - 1]
  <2>1. patient.soon[e] > 0 /\ patient' \in {RegainSpeed(p), AddCondition(p)}
    BY <1>4 DEF SoonEvent
  <2>2. s \in [Soon -> Nat]
    BY <1>1, <2>1 DEF PatientType
  <2>3. p = [patient EXCEPT !.soon = s]
    OBVIOUS
  <2> HIDE DEF s, p
  <2>4. Untouched(patient, p) /\ p \in PatientType
    BY <1>1, <2>2, <2>3 DEF PatientType, Untouched, Calm
  <2>5. CASE patient' = RegainSpeed(p)
    BY <1>1, <2>4, <2>5, Regaining DEF IsKept, KeptBut, Untouched, Calm, SpeedTakers
  <2>6. CASE patient' = AddCondition(p)
    BY <1>1, <2>4, <2>6, Slowing DEF IsKept, KeptBut, Untouched, Calm, SpeedTakers
  <2> QED
    BY <2>1, <2>5, <2>6
<1>5. CASE ConditionEnds
  BY <1>1, <1>5, Slowing DEF ConditionEnds, IsKept, KeptBut, Untouched, Calm, SpeedTakers
<1>6. CASE CureStatus
  BY <1>6, Curing DEF CureStatus
<1>7. CASE UseMedicine
  <2>1. IsKept(Cured(patient)) /\ Untouched(Cured(patient), RemoveCondition(Cured(patient)))
    BY Curing, Slowing
  <2>2. patient' = RemoveCondition(Cured(patient))
    BY <1>7 DEF UseMedicine
  <2> QED
    BY <2>1, <2>2 DEF IsKept, KeptBut, Untouched, Calm, SpeedTakers
<1>8. CASE NurseHeals
  BY <1>8, Curing DEF NurseHeals
<1>9. ASSUME NEW spared, CallOut(spared) PROVE IsKept(patient')
  <2> DEFINE fresh == [Healthy("summon") EXCEPT
                         !.ball = patient.ball, !.restore = patient.ball["confusion"]]
             asleep == Resumed(fresh, "sleep", spared)
             silenced == Resumed(asleep, "silence", spared)
             stunned == Resumed(silenced, "stun", spared)
             paralyzed == Resumed(stunned, "paralyze", spared)
  <2>1. patient' = Resumed(paralyzed, "slow", spared)
    BY <1>9 DEF CallOut
  <2>2. IsKept(fresh)
    <3> DEFINE h == Healthy("summon")
    <3>1. /\ h \in PatientType /\ h.kind = "summon" /\ h.own /\ ~h.still
          /\ \A a \in Ailment : h.rounds[a] = -1
      BY Fresh
    <3> HIDE DEF h
    <3>2. /\ patient.ball \in [Ailment -> Int] /\ patient.ball["confusion"] \in Int
      BY <1>1 DEF PatientType, Ailment
    <3>3. fresh = [[h EXCEPT !.ball = patient.ball] EXCEPT !.restore = patient.ball["confusion"]]
      BY <3>1 DEF h, PatientType
    <3> HIDE DEF fresh
    <3>4. /\ fresh \in PatientType /\ fresh.kind = "summon" /\ fresh.own /\ ~fresh.still
          /\ fresh.rounds = h.rounds
      BY <3>1, <3>2, <3>3 DEF PatientType
    <3> QED
      BY <3>1, <3>4 DEF IsKept, KeptBut
  <2> HIDE DEF fresh
  <2>3. \A p : IsKept(p) => \A a \in Ailment : IsKept(Resumed(p, a, spared))
    BY Resuming
  <2>4. {"sleep", "silence", "stun", "paralyze", "slow"} \subseteq Ailment
    BY DEF Ailment
  <2>5. IsKept(asleep)
    BY <2>2, <2>3, <2>4
  <2> HIDE DEF asleep
  <2>6. IsKept(silenced)
    BY <2>5, <2>3, <2>4
  <2> HIDE DEF silenced
  <2>7. IsKept(stunned)
    BY <2>6, <2>3, <2>4
  <2> HIDE DEF stunned
  <2>8. IsKept(paralyzed)
    BY <2>7, <2>3, <2>4
  <2> HIDE DEF paralyzed
  <2> QED
    BY <2>1, <2>3, <2>4, <2>8
<1>10. ASSUME NEW acts, NEW spared, Restore(acts, spared) PROVE IsKept(patient')
  <2> DEFINE p == [patient EXCEPT !.restore = -1]
             cd == patient.restore
  <2>1. /\ cd >= 0
        /\ patient' = p \/ patient' = Apply(p, "confusion", cd, acts)
    BY <1>10 DEF Restore
  <2>2. IsKept(p) /\ p \in PatientType /\ cd \in Int
    BY <1>1 DEF PatientType, IsKept, KeptBut, SpeedTakers
  <2> HIDE DEF p, cd
  <2>3. cd >= -1 /\ cd # -1 /\ "confusion" \in Ailment
    BY <2>1, <2>2 DEF Ailment
  <2>4. KeptBut(p, IF cd = -1 THEN {"confusion"} ELSE {})
    BY <2>2, <2>3 DEF IsKept
  <2>5. IsKept(Apply(p, "confusion", cd, acts))
    BY <2>2, <2>3, <2>4, Applying
  <2> QED
    BY <2>1, <2>2, <2>5
<1>11. CASE LeaveAndReturn
  <2> DEFINE h == Healthy("player")
             S == {a \in Ailment : patient.rounds[a] >= 0}
  <2>1. /\ h \in PatientType /\ h.kind = "player" /\ h.own /\ ~h.still
    BY Fresh
  <2>2. patient' = [h EXCEPT !.rounds = patient.rounds, !.stranded = S]
    BY <1>11 DEF LeaveAndReturn
  <2>3. /\ patient.rounds \in [Ailment -> Int] /\ S \in SUBSET Ailment
        /\ \A a \in Ailment \ S : ~(patient.rounds[a] >= 0)
    BY <1>1 DEF PatientType
  <2> HIDE DEF h, S
  <2>4. patient' = [[h EXCEPT !.rounds = patient.rounds] EXCEPT !.stranded = S]
    BY <2>1, <2>2 DEF PatientType
  <2>5. /\ patient' \in PatientType /\ patient'.kind = "player"
        /\ patient'.own /\ ~patient'.still
        /\ patient'.rounds = patient.rounds /\ patient'.stranded = S
    BY <2>1, <2>3, <2>4 DEF PatientType
  <2> QED
    BY <2>3, <2>5 DEF IsKept, KeptBut
<1> QED
  BY <1>2, <1>3, <1>4, <1>5, <1>6, <1>7, <1>8, <1>9, <1>10, <1>11 DEF AilmentsNext, Soon

LEMMA Passing == IsKept(patient) => AilmentsPass
<1> SUFFICES ASSUME IsKept(patient) PROVE AilmentsPass
  OBVIOUS
<1>1. patient \in PatientType /\ KeptBut(patient, {})
  BY DEF IsKept
<1>2. AilmentsRunOut /\ NothingIsShed
  BY <1>1 DEF AilmentsRunOut, NothingIsShed, KeptBut
<1>3. ASSUME Quiet
      PROVE  /\ patient.own \/ "own" \in patient.forgotten
             /\ ~patient.still \/ "still" \in patient.forgotten
  <2>1. \A a \in Ailment : ~(patient.ticks[a] > 0)
    BY <1>3 DEF Quiet, Ailing
  <2>2. SpeedTakers(patient) \subseteq Ailment /\ StepTakers \subseteq Ailment
    BY DEF SpeedTakers, StepTakers, Ailment
  <2> QED
    BY <1>1, <2>1, <2>2 DEF KeptBut
<1> QED
  BY <1>2, <1>3 DEF AilmentsPass, NothingHoldsOn

\* What a creature suffers from ends, leaves nothing behind that is not known to
\* be forgotten, and stays its own, for any number of rounds and in any order of
\* the events.
THEOREM AilmentsSafe == AilmentsSpec => []AilmentsPass
<1>1. AilmentsInit => AilmentsInvariant
  BY Fresh DEF AilmentsInit, AilmentsInvariant, IsKept, KeptBut
<1>2. AilmentsInvariant /\ [AilmentsNext]_patient => AilmentsInvariant'
  BY AilmentsStep DEF AilmentsInvariant
<1>3. AilmentsInvariant => AilmentsPass
  BY Passing DEF AilmentsInvariant
<1> QED
  BY <1>1, <1>2, <1>3, PTL DEF AilmentsSpec

HIDE DEF PvpAssumption, AilmentsAssumption

-----------------------------------------------------------------------------
(* Channels.                                                               *)

\* Deleting channels and leaving all others keeps what is known of those that
\* remain, even when the owner of the deleted ones then leaves the game.
LEMMA Deleting ==
  ASSUME ChatInvariant, NEW p, NEW C \in SUBSET Channels, Delete(C, p),
         \/ online' = online
         \/ online' = online \ {p} /\ OwnChannel(p) \subseteq C,
         chatAlive' \in BOOLEAN
  PROVE  ChatInvariant'
<1>1. /\ ChatTypeOK /\ ListenersArePresent /\ ChannelsAreTheirOwners
      /\ NothingLeftBehind
  BY DEF ChatInvariant
<1>2. /\ owner' = [c \in ChannelId |-> IF c \in C THEN None ELSE owner[c]]
      /\ asked' = [c \in ChannelId |-> IF c \in C THEN {} ELSE asked[c]]
      /\ users' = [c \in ChannelId |-> (IF c \in C THEN {} ELSE users[c]) \ {p}]
  BY DEF Delete, Cleared
<1>3. ChatTypeOK'
  BY <1>1, <1>2 DEF ChatTypeOK
<1>4. \A c \in Channels' : /\ c \in Channels \ C
                           /\ owner'[c] = owner[c] /\ asked'[c] = asked[c]
                           /\ users'[c] = users[c] \ {p}
  BY <1>1, <1>2 DEF Channels, ChatTypeOK
<1>5. ListenersArePresent'
  BY <1>1, <1>4 DEF ListenersArePresent, OwnChannel
<1>6. ChannelsAreTheirOwners'
  BY <1>1, <1>4 DEF ChannelsAreTheirOwners, Allowed
<1>7. NothingLeftBehind'
  BY <1>1, <1>2 DEF NothingLeftBehind, Channels
<1>8. QED
  BY <1>3, <1>5, <1>6, <1>7 DEF ChatInvariant

\* So does removing one user.
LEMMA Leaving ==
  ASSUME ChatInvariant, NEW p \in Player, NEW c \in ChannelId,
         users' = [users EXCEPT ![c] = @ \ {p}],
         \/ asked' = asked /\ p # owner[c] /\ p \in Player
         \/ asked' = [asked EXCEPT ![c] = @ \ {p}],
         UNCHANGED <<online, owner, chatAlive>>
  PROVE  ChatInvariant'
<1>1. /\ ChatTypeOK /\ ListenersArePresent /\ ChannelsAreTheirOwners
      /\ NothingLeftBehind
  BY DEF ChatInvariant
<1>2. ChatTypeOK'
  BY <1>1 DEF ChatTypeOK
<1>3. Channels' = Channels
  BY DEF Channels
<1>4. \A d \in ChannelId : /\ users'[d] \subseteq users[d]
                           /\ asked'[d] \subseteq asked[d]
                           /\ users'[d] \cap asked[d] \subseteq asked'[d]
  BY <1>1 DEF ChatTypeOK
<1>5. ListenersArePresent'
  BY <1>1, <1>3, <1>4 DEF ListenersArePresent, Channels
<1>6. ChannelsAreTheirOwners'
  BY <1>1, <1>3, <1>4 DEF ChannelsAreTheirOwners, Allowed, Channels
<1>7. NothingLeftBehind'
  BY <1>1, <1>3, <1>4 DEF NothingLeftBehind
<1>8. QED
  BY <1>2, <1>5, <1>6, <1>7 DEF ChatInvariant

\* Every request keeps the invariant.
LEMMA ChatStep ==
  ASSUME ChatInvariant, [ChatNext]_chatVars
  PROVE  ChatInvariant'
<1>1. /\ ChatTypeOK /\ ListenersArePresent /\ ChannelsAreTheirOwners
      /\ NothingLeftBehind
  BY DEF ChatInvariant
<1>2. ASSUME NEW p \in Player, CreatePrivateChannel(p) PROVE ChatInvariant'
  <2>1. PICK c \in ChannelId \ Channels, u \in {{}, {p}} :
          /\ owner' = [owner EXCEPT ![c] = p]
          /\ asked' = [asked EXCEPT ![c] = {}]
          /\ users' = [users EXCEPT ![c] = u]
    BY <1>2 DEF CreatePrivateChannel
  <2>2. /\ p \in online /\ OwnChannel(p) = {}
        /\ UNCHANGED <<online, chatAlive>>
    BY <1>2 DEF CreatePrivateChannel
  <2>3. ChatTypeOK'
    BY <1>1, <2>1, <2>2 DEF ChatTypeOK
  <2>4. \A d \in ChannelId \ {c} : /\ owner'[d] = owner[d] /\ asked'[d] = asked[d]
                                   /\ users'[d] = users[d]
    BY <1>1, <2>1 DEF ChatTypeOK
  <2>5. owner'[c] = p /\ asked'[c] = {} /\ users'[c] = u
    BY <1>1, <2>1 DEF ChatTypeOK
  <2>6. Channels' = Channels \union {c}
    BY <2>1, <2>4, <2>5 DEF Channels
  <2>7. ListenersArePresent'
    BY <1>1, <2>2, <2>4, <2>5, <2>6 DEF ListenersArePresent, Channels
  <2>8. ChannelsAreTheirOwners'
    BY <1>1, <2>1, <2>2, <2>4, <2>5, <2>6
    DEF ChannelsAreTheirOwners, Allowed, OwnChannel, Channels
  <2>9. NothingLeftBehind'
    BY <1>1, <2>4, <2>6 DEF NothingLeftBehind
  <2>10. QED
    BY <2>3, <2>7, <2>8, <2>9 DEF ChatInvariant
<1>3. ASSUME NEW p \in Player, NEW q \in Player, InviteToChannel(p, q)
      PROVE  ChatInvariant'
  <2>1. PICK c \in OwnChannel(p) : asked' = [asked EXCEPT ![c] = @ \union {q}]
    BY <1>3 DEF InviteToChannel
  <2>2. UNCHANGED <<online, owner, users, chatAlive>> /\ Channels' = Channels
        /\ c \in Channels
    BY <1>3, <2>1 DEF InviteToChannel, Channels, OwnChannel
  <2>3. ChatTypeOK' /\ ListenersArePresent'
    BY <1>1, <2>1, <2>2 DEF ChatTypeOK, ListenersArePresent
  <2>4. ChannelsAreTheirOwners'
    BY <1>1, <2>1, <2>2 DEF ChatTypeOK, ChannelsAreTheirOwners, Allowed, Channels
  <2>5. NothingLeftBehind'
    BY <1>1, <2>1, <2>2 DEF ChatTypeOK, NothingLeftBehind
  <2>6. QED
    BY <2>3, <2>4, <2>5 DEF ChatInvariant
<1>4. ASSUME NEW p \in Player, NEW q \in Player, ExcludeFromChannel(p, q)
      PROVE  ChatInvariant'
  <2>1. PICK c \in OwnChannel(p) :
          /\ asked' = [asked EXCEPT ![c] = @ \ {q}]
          /\ users' = [users EXCEPT ![c] = @ \ {q}]
    BY <1>4 DEF ExcludeFromChannel
  <2>2. UNCHANGED <<online, owner, chatAlive>> /\ c \in ChannelId
    BY <1>4, <2>1 DEF ExcludeFromChannel, OwnChannel, Channels
  <2>3. QED
    BY <2>1, <2>2, Leaving
<1>5. ASSUME NEW p \in Player, NEW c \in ChannelId, OpenChannel(p, c)
      PROVE  ChatInvariant'
  <2>1. /\ p \in online /\ c \in Channels /\ p \in Allowed(c)
        /\ users' = [users EXCEPT ![c] = @ \union {p}]
        /\ UNCHANGED <<online, owner, asked, chatAlive>> /\ Channels' = Channels
    BY <1>5 DEF OpenChannel, Channels
  <2>2. ChatTypeOK' /\ ListenersArePresent'
    BY <1>1, <2>1 DEF ChatTypeOK, ListenersArePresent, Channels
  <2>3. ChannelsAreTheirOwners'
    BY <1>1, <2>1 DEF ChatTypeOK, ChannelsAreTheirOwners, Allowed, Channels
  <2>4. NothingLeftBehind'
    BY <1>1, <2>1 DEF ChatTypeOK, NothingLeftBehind
  <2>5. QED
    BY <2>2, <2>3, <2>4 DEF ChatInvariant
<1>6. ASSUME NEW p \in Player, NEW c \in ChannelId, CloseChannel(p, c)
      PROVE  ChatInvariant'
  <2>1. UNCHANGED <<online, chatAlive>> /\ c \in Channels
    BY <1>6 DEF CloseChannel
  <2>2. CASE owner[c] = p
    <3>1. Delete({c}, None)
      BY <1>6, <2>2 DEF CloseChannel
    <3>2. {c} \subseteq Channels /\ chatAlive' \in BOOLEAN
      BY <1>1, <2>1 DEF ChatTypeOK
    <3>3. QED
      BY <2>1, <3>1, <3>2, Deleting
  <2>3. CASE owner[c] # p
    <3>1. users' = [users EXCEPT ![c] = @ \ {p}] /\ UNCHANGED <<owner, asked>>
      BY <1>6, <2>3 DEF CloseChannel
    <3>2. QED
      BY <2>1, <2>3, <3>1, Leaving DEF Channels
  <2>4. QED
    BY <2>2, <2>3
<1>7. ASSUME NEW p \in Player, LogoutOfChat(p) \/ TakeOverInChat(p)
      PROVE  ChatInvariant'
  <2>1. /\ Delete(OwnChannel(p), p)
        /\ chatAlive' \in BOOLEAN
        /\ online' = online \/ online' = online \ {p}
    BY <1>7 DEF LogoutOfChat, TakeOverInChat, LeaveAllChannels
  <2>2. OwnChannel(p) \subseteq Channels
    BY DEF OwnChannel
  <2>3. QED
    BY <2>1, <2>2, Deleting
<1>8. ASSUME NEW p \in Player, LoginToChat(p) PROVE ChatInvariant'
  BY <1>1, <1>8 DEF LoginToChat, ChatInvariant, ChatTypeOK, ListenersArePresent,
     ChannelsAreTheirOwners, NothingLeftBehind, Channels, Allowed
<1>9. CASE UNCHANGED chatVars
  BY <1>1, <1>9 DEF chatVars, ChatInvariant, ChatTypeOK, ListenersArePresent,
     ChannelsAreTheirOwners, NothingLeftBehind, Channels, Allowed
<1>10. QED
  BY <1>2, <1>3, <1>4, <1>5, <1>6, <1>7, <1>8, <1>9 DEF ChatNext

\* No channel keeps a pointer to a player who is gone, each has the owner it is
\* named for, and what is deleted leaves nothing to the next: for any number of
\* players, channels and ids, whatever they ask for in whatever order.
THEOREM ChatSafe == ChatSpec => []ChannelsAreSound
<1>1. online = Player /\ ChatInit => ChatInvariant
  BY DEF ChatInit, ChatInvariant, ChatTypeOK, ListenersArePresent,
     ChannelsAreTheirOwners, NothingLeftBehind, Channels
<1>2. ChatInvariant /\ [ChatNext]_chatVars => ChatInvariant'
  BY ChatStep
<1>3. ChatInvariant => ChannelsAreSound
  BY DEF ChatInvariant, ChannelsAreSound
<1>4. QED
  BY <1>1, <1>2, <1>3, PTL DEF ChatSpec

-----------------------------------------------------------------------------
(* Reports.                                                                *)

USE GamemasterAssumption DEF GamemasterAssumption

ReportsInvariant == ReportsTypeOK /\ CasesHavePeople /\ DeskIsTrue

\* The windows follow every change of the reports, for those who stay.
LEMMA Telling ==
  ASSUME ReportsTypeOK, DeskIsTrue, desk' \subseteq desk,
         NEW r \in [Player -> Gamemaster \union {None, Open}], Tell(r)
  PROVE  /\ ReportsTypeOK' /\ DeskIsTrue' /\ report' = r
<1> DEFINE gone == {p \in Player : r[p] # report[p]}
           new == {p \in OpenIn(r) : report[p] # Open}
<1>1. /\ report' = r
      /\ listed' = [g \in Player |->
           IF g \in desk' THEN (listed[g] \ gone) \union new ELSE {}]
  BY DEF Tell
<1>2. (OpenIn(report) \ gone) \union new = OpenIn(r)
  BY DEF OpenIn
<1>3. DeskIsTrue'
  <2> SUFFICES ASSUME NEW g \in desk' PROVE listed'[g] = OpenIn(r)
    BY <1>1 DEF DeskIsTrue, OpenIn
  <2>1. g \in Player /\ listed[g] = OpenIn(report)
    BY DEF DeskIsTrue, ReportsTypeOK
  <2>2. listed'[g] = (listed[g] \ gone) \union new
    BY <1>1, <2>1
  <2>3. QED
    BY <1>2, <2>1, <2>2
<1>4. ReportsTypeOK'
  BY <1>1 DEF ReportsTypeOK, OpenIn
<1>5. QED
  BY <1>1, <1>3, <1>4

\* Every request of a player or gamemaster keeps the invariant.
LEMMA ReportsStep ==
  ASSUME ReportsInvariant, [ReportsNext]_reportVars
  PROVE  ReportsInvariant'
<1>1. ReportsTypeOK /\ CasesHavePeople /\ DeskIsTrue
  BY DEF ReportsInvariant
<1>2. ASSUME NEW p \in Player, NEW h \in Gamemaster \union {None, Open}, p \in online,
             h \in Player => h \in online,
             UNCHANGED <<desk, online>>, Tell([report EXCEPT ![p] = h])
      PROVE  ReportsInvariant'
  <2>1. [report EXCEPT ![p] = h] \in [Player -> Gamemaster \union {None, Open}]
    BY <1>1 DEF ReportsTypeOK
  <2>2. /\ ReportsTypeOK' /\ DeskIsTrue' /\ report' = [report EXCEPT ![p] = h]
    BY <1>1, <1>2, <2>1, Telling
  <2>3. CasesHavePeople'
    BY <1>1, <1>2, <2>2 DEF CasesHavePeople, ReportsTypeOK
  <2>4. QED
    BY <2>2, <2>3 DEF ReportsInvariant
<1>3. ASSUME NEW p \in Player, ReportViolation(p) \/ CloseReport(p)
      PROVE  ReportsInvariant'
  BY <1>2, <1>3 DEF ReportViolation, CloseReport
<1>4. ASSUME NEW p \in Player, NEW g \in Gamemaster, ProcessReport(g, p)
      PROVE  ReportsInvariant'
  BY <1>2, <1>4 DEF ProcessReport
<1>5. ASSUME NEW g \in Player, OpenDesk(g) PROVE ReportsInvariant'
  <2>1. /\ g \in online /\ g \in Gamemaster /\ desk' = desk \union {g}
        /\ listed' = [listed EXCEPT ![g] = OpenIn(report)]
        /\ UNCHANGED <<online, report>>
    BY <1>5 DEF OpenDesk
  <2>2. ReportsTypeOK' /\ CasesHavePeople'
    BY <1>1, <2>1 DEF ReportsTypeOK, CasesHavePeople, OpenIn
  <2>3. DeskIsTrue'
    BY <1>1, <2>1 DEF DeskIsTrue, ReportsTypeOK, OpenIn
  <2>4. QED
    BY <2>2, <2>3 DEF ReportsInvariant
<1>6. ASSUME NEW g \in Player, CloseDesk(g) PROVE ReportsInvariant'
  BY <1>1, <1>6 DEF CloseDesk, ReportsInvariant, ReportsTypeOK, CasesHavePeople,
     DeskIsTrue, OpenIn
<1>7. ASSUME NEW p \in Player, LogoutOfReports(p) PROVE ReportsInvariant'
  <2> DEFINE r == [q \in Player |->
        IF q = p \/ (p \in Gamemaster /\ report[q] = p) THEN None ELSE report[q]]
  <2>1. desk' = desk \ {p} /\ online' = online \ {p} /\ Tell(r)
    BY <1>7 DEF LogoutOfReports
  <2>2. r \in [Player -> Gamemaster \union {None, Open}]
    BY <1>1 DEF ReportsTypeOK
  <2>3. ReportsTypeOK' /\ DeskIsTrue' /\ report' = r
    BY <1>1, <2>1, <2>2, Telling
  <2>4. \A q \in Player : r[q] # None => r[q] = report[q] /\ q # p /\ report[q] # p
    BY <1>1 DEF ReportsTypeOK
  <2>5. CasesHavePeople'
    BY <1>1, <2>1, <2>3, <2>4 DEF CasesHavePeople
  <2>6. QED
    BY <2>3, <2>5 DEF ReportsInvariant
<1>8. ASSUME NEW p \in Player, LoginToReports(p) PROVE ReportsInvariant'
  BY <1>1, <1>8 DEF LoginToReports, ReportsInvariant, ReportsTypeOK,
     CasesHavePeople, DeskIsTrue, OpenIn
<1>9. CASE UNCHANGED reportVars
  BY <1>1, <1>9 DEF reportVars, ReportsInvariant, ReportsTypeOK, CasesHavePeople,
     DeskIsTrue, OpenIn
<1>10. QED
  BY <1>3, <1>4, <1>5, <1>6, <1>7, <1>8, <1>9 DEF ReportsNext

\* No report keeps a pointer to a player who is gone, and no gamemaster's window
\* shows a report another has taken or misses one that is open: for any players
\* and gamemasters, whoever of them logs out in the middle of a case.
THEOREM ReportsSafe == ReportsSpec => []ReportsAreTrue
<1>1. online = Player /\ ReportsInit => ReportsInvariant
  BY DEF ReportsInit, ReportsInvariant, ReportsTypeOK, CasesHavePeople, DeskIsTrue
<1>2. ReportsInvariant /\ [ReportsNext]_reportVars => ReportsInvariant'
  BY ReportsStep
<1>3. ReportsInvariant => ReportsAreTrue
  BY DEF ReportsInvariant, ReportsAreTrue
<1>4. QED
  BY <1>1, <1>2, <1>3, PTL DEF ReportsSpec

-----------------------------------------------------------------------------
(* Houses.                                                                 *)

USE HouseAssumption DEF HouseAssumption

\* Who is invited, without levels.
LEMMA Invited ==
  \A p : IsInvited(p) <=>
    \/ p \in Editor \/ p = houseOwner
    \/ houseOwner # None /\ p \in subOwnerList \union guestList
BY DEF IsInvited, Level

LEMMA InvitedThen ==
  \A p : IsInvited(p)' <=>
    \/ p \in Editor \/ p = houseOwner'
    \/ houseOwner' # None /\ p \in subOwnerList' \union guestList'
BY DEF IsInvited, Level

\* While nobody's rights change, those who stay, and newcomers with a right or a
\* kick to come, are no strangers.
LEMMA SameRights ==
  ASSUME HouseInvariant, UNCHANGED rights, UNCHANGED beds, NEW In, Stay(In),
         In \subseteq online', online' \subseteq Player, kicks' \subseteq online',
         \A p \in In : \/ p \in inside /\ (p \in kicks => p \in kicks')
                       \/ IsInvited(p) \/ p \in kicks'
  PROVE  HouseInvariant'
<1>1. /\ HouseTypeOK /\ StrangersStayOut /\ FriendsGoWithTheOwner
      /\ RegisterOfSleepers
  BY DEF HouseInvariant
<1>2. /\ UNCHANGED <<houseOwner, subOwnerList, guestList, appointed, sleeper, bedOf>>
      /\ inside' = In /\ unswept' = unswept \intersect In
  BY DEF rights, beds, Stay
<1>3. HouseTypeOK'
  BY <1>1, <1>2 DEF HouseTypeOK
<1>4. \A p : IsInvited(p)' <=> IsInvited(p)
  BY <1>2, Invited, InvitedThen
<1>5. StrangersStayOut'
  BY <1>1, <1>2, <1>4 DEF StrangersStayOut
<1>6. FriendsGoWithTheOwner' /\ RegisterOfSleepers'
  BY <1>1, <1>2 DEF FriendsGoWithTheOwner, RegisterOfSleepers
<1>7. QED
  BY <1>3, <1>5, <1>6 DEF HouseInvariant

\* Waking the sleepers of any beds keeps the register true.
LEMMA Waking ==
  ASSUME HouseTypeOK, RegisterOfSleepers, NEW B \in SUBSET Bed, WakeUp(B)
  PROVE  /\ RegisterOfSleepers'
         /\ sleeper' \in [Bed -> Player \union {None}]
         /\ bedOf' \in [Player -> Bed \union {None}]
BY DEF HouseTypeOK, RegisterOfSleepers, WakeUp

\* A new list leaves only those inside whom it lets.
LEMMA Editing ==
  ASSUME HouseInvariant, NEW list \in SUBSET Player,
         \/ guestList' = list /\ UNCHANGED <<houseOwner, subOwnerList>>
         \/ subOwnerList' = list /\ UNCHANGED <<houseOwner, guestList>>,
         appointed' = appointed \union list,
         Stay({q \in inside : IsInvited(q)'}),
         UNCHANGED <<online, beds, kicks>>
  PROVE  HouseInvariant'
<1>1. /\ HouseTypeOK /\ FriendsGoWithTheOwner /\ RegisterOfSleepers
  BY DEF HouseInvariant
<1>2. /\ inside' = {q \in inside : IsInvited(q)'}
      /\ unswept' = unswept \intersect inside' /\ UNCHANGED <<sleeper, bedOf>>
  BY DEF Stay, beds
<1>3. HouseTypeOK'
  BY <1>1, <1>2 DEF HouseTypeOK
<1>4. StrangersStayOut'
  BY <1>2 DEF StrangersStayOut
<1>5. FriendsGoWithTheOwner' /\ RegisterOfSleepers'
  BY <1>1, <1>2 DEF FriendsGoWithTheOwner, RegisterOfSleepers
<1>6. QED
  BY <1>3, <1>4, <1>5 DEF HouseInvariant

\* A new owner starts without friends; of those inside only editors, and an old
\* owner whom nobody asked to leave, may have stayed.
LEMMA Owning ==
  ASSUME HouseInvariant, NEW o \in Player \union {None}, NewOwner(o),
         IF houseOwner = None THEN UNCHANGED <<beds, inside, unswept>>
         ELSE /\ inside' \subseteq inside
              /\ unswept' \subseteq inside'
              /\ \A p \in inside' : p \in Editor \union unswept'
              /\ UNCHANGED beds \/ WakeUp(Bed),
         UNCHANGED <<online, kicks>>
  PROVE  HouseInvariant'
<1>1. /\ HouseTypeOK /\ StrangersStayOut /\ FriendsGoWithTheOwner
      /\ RegisterOfSleepers
  BY DEF HouseInvariant
<1>2. UNCHANGED beds \/ WakeUp(Bed)
  OBVIOUS
<1>3. /\ RegisterOfSleepers'
      /\ sleeper' \in [Bed -> Player \union {None}]
      /\ bedOf' \in [Player -> Bed \union {None}]
  <2>1. CASE UNCHANGED beds
    BY <1>1, <2>1 DEF beds, HouseTypeOK, RegisterOfSleepers
  <2>2. CASE WakeUp(Bed)
    BY <1>1, <2>2, Waking
  <2>3. QED
    BY <1>2, <2>1, <2>2
<1>4. HouseTypeOK'
  BY <1>1, <1>3 DEF HouseTypeOK, NewOwner
<1>5. FriendsGoWithTheOwner'
  BY <1>1 DEF FriendsGoWithTheOwner, NewOwner
<1>6. StrangersStayOut'
  <2>1. CASE houseOwner = None
    <3>1. UNCHANGED <<inside, unswept, kicks>>
      BY <2>1
    <3>2. \A p \in inside : IsInvited(p) => p \in Editor
      BY <1>1, <2>1, Invited DEF HouseTypeOK
    <3>3. QED
      BY <1>1, <3>1, <3>2, InvitedThen DEF StrangersStayOut
  <2>2. CASE houseOwner # None
    BY <2>2, InvitedThen DEF StrangersStayOut
  <2>3. QED
    BY <2>1, <2>2
<1>7. QED
  BY <1>3, <1>4, <1>5, <1>6 DEF HouseInvariant

-----------------------------------------------------------------------------
\* Every task keeps the invariant.
LEMMA HouseStep ==
  ASSUME HouseInvariant, [HouseNext]_houseVars
  PROVE  HouseInvariant'
<1>1. HouseTypeOK /\ StrangersStayOut /\ FriendsGoWithTheOwner /\ RegisterOfSleepers
  BY DEF HouseInvariant
<1>2. /\ online \subseteq Player /\ inside \subseteq online /\ kicks \subseteq online
  BY <1>1 DEF HouseTypeOK
<1>3. ASSUME NEW p \in Tenant, Enter(p) PROVE HouseInvariant'
  <2>1. /\ p \in online /\ IsInvited(p) /\ Stay(inside \union {p})
        /\ UNCHANGED <<online, rights, beds, kicks>>
    BY <1>3 DEF Enter
  <2>2. QED
    BY <1>2, <2>1, SameRights
<1>4. ASSUME NEW p \in Tenant, NEW q \in Tenant, GoOut(q) \/ KickOut(p, q)
      PROVE  HouseInvariant'
  <2>1. Stay(inside \ {q}) /\ UNCHANGED <<online, rights, beds, kicks>>
    BY <1>4 DEF GoOut, KickOut
  <2>2. QED
    BY <1>2, <2>1, SameRights
<1>5. ASSUME NEW p \in Tenant, LogoutOfHouse(p) \/ KickSleeper(p)
      PROVE  HouseInvariant'
  <2>1. /\ Stay(inside \ {p}) /\ UNCHANGED rights /\ UNCHANGED beds
        /\ online' = online \ {p} /\ kicks' = kicks \ {p}
    BY <1>5 DEF LogoutOfHouse, KickSleeper, LeaveGame
  <2>2. QED
    BY <1>2, <2>1, SameRights
<1>6. ASSUME NEW p \in Tenant, LoginToHouse(p) PROVE HouseInvariant'
  <2>1. PICK In : /\ Stay(In) /\ In \subseteq inside \union {p}
                  /\ p \in In \ inside => IsInvited(p)
    BY <1>6 DEF LoginToHouse
  <2>2. /\ online' = online \union {p} /\ UNCHANGED rights /\ UNCHANGED kicks
        /\ IF bedOf[p] = None THEN UNCHANGED beds ELSE WakeUp({bedOf[p]})
    BY <1>6 DEF LoginToHouse
  <2>3. /\ RegisterOfSleepers'
        /\ sleeper' \in [Bed -> Player \union {None}]
        /\ bedOf' \in [Player -> Bed \union {None}]
    <3>1. CASE bedOf[p] = None
      BY <1>1, <2>2, <3>1 DEF beds, HouseTypeOK, RegisterOfSleepers
    <3>2. CASE bedOf[p] # None
      <4>1. {bedOf[p]} \in SUBSET Bed
        BY <1>1, <3>2 DEF HouseTypeOK
      <4>2. WakeUp({bedOf[p]})
        BY <2>2, <3>2
      <4>3. QED
        BY <1>1, <4>1, <4>2, Waking
    <3>3. QED
      BY <3>1, <3>2
  <2>4. /\ UNCHANGED <<houseOwner, subOwnerList, guestList, appointed>>
        /\ inside' = In /\ unswept' = unswept \intersect In
    BY <2>1, <2>2 DEF rights, Stay
  <2>5. HouseTypeOK'
    BY <1>1, <2>1, <2>2, <2>3, <2>4 DEF HouseTypeOK
  <2>6. \A q : IsInvited(q)' <=> IsInvited(q)
    BY <2>4, Invited, InvitedThen
  <2>7. StrangersStayOut'
    BY <1>1, <2>1, <2>2, <2>4, <2>6 DEF StrangersStayOut
  <2>8. FriendsGoWithTheOwner'
    BY <1>1, <2>4 DEF FriendsGoWithTheOwner
  <2>9. QED
    BY <2>3, <2>5, <2>7, <2>8 DEF HouseInvariant
<1>7. ASSUME NEW p \in Tenant, NEW list \in SUBSET Tenant,
             EditGuests(p, list) \/ EditSubOwners(p, list)
      PROVE  HouseInvariant'
  <2>1. /\ \/ guestList' = list /\ UNCHANGED <<houseOwner, subOwnerList>>
           \/ subOwnerList' = list /\ UNCHANGED <<houseOwner, guestList>>
        /\ appointed' = appointed \union list
        /\ Stay({q \in inside : IsInvited(q)'})
        /\ UNCHANGED <<online, beds, kicks>>
    BY <1>7 DEF EditGuests, EditSubOwners
  <2>2. QED
    BY <2>1, Editing
<1>8. ASSUME NEW p \in Tenant, NEW b \in Bed, Sleep(p, b) PROVE HouseInvariant'
  <2>1. /\ p \in online /\ sleeper[b] = None
        /\ sleeper' = [sleeper EXCEPT ![b] = p] /\ bedOf' = [bedOf EXCEPT ![p] = b]
        /\ inside' = inside \union {p}
        /\ unswept' = unswept \intersect (inside \union {p})
        /\ kicks' = kicks \union {p}
        /\ UNCHANGED <<online, houseOwner, subOwnerList, guestList, appointed>>
    BY <1>8 DEF Sleep, Stay, rights
  <2>2. HouseTypeOK'
    BY <1>1, <2>1 DEF HouseTypeOK
  <2>3. \A q : IsInvited(q)' <=> IsInvited(q)
    BY <2>1, Invited, InvitedThen
  <2>4. StrangersStayOut'
    BY <1>1, <2>1, <2>3 DEF StrangersStayOut, HouseTypeOK
  <2>5. FriendsGoWithTheOwner'
    BY <1>1, <2>1 DEF FriendsGoWithTheOwner
  <2>6. RegisterOfSleepers'
    BY <1>1, <1>2, <2>1 DEF RegisterOfSleepers, HouseTypeOK
  <2>7. QED
    BY <2>2, <2>4, <2>5, <2>6 DEF HouseInvariant
<1>9. ASSUME NEW p \in Tenant, NEW b \in Bed, WakeSleeper(p, b) PROVE HouseInvariant'
  <2>1. WakeUp({b}) /\ UNCHANGED <<online, houseOwner, subOwnerList, guestList,
                                   appointed, inside, kicks, unswept>>
    BY <1>9 DEF WakeSleeper, rights
  <2>2. /\ RegisterOfSleepers'
        /\ sleeper' \in [Bed -> Player \union {None}]
        /\ bedOf' \in [Player -> Bed \union {None}]
    BY <1>1, <2>1, Waking
  <2>3. HouseTypeOK' /\ FriendsGoWithTheOwner'
    BY <1>1, <2>1, <2>2 DEF HouseTypeOK, FriendsGoWithTheOwner
  <2>4. StrangersStayOut'
    BY <1>1, <2>1, Invited, InvitedThen DEF StrangersStayOut
  <2>5. QED
    BY <2>2, <2>3, <2>4 DEF HouseInvariant
<1>10. ASSUME NEW o \in Tenant \union {None}, SetOwnerEx(o) PROVE HouseInvariant'
  <2>1. /\ NewOwner(o) /\ UNCHANGED <<online, kicks>>
        /\ IF houseOwner = None THEN UNCHANGED <<beds, inside, unswept>>
           ELSE /\ WakeUp(Bed) /\ inside' = inside \intersect Editor
                /\ unswept' = unswept \intersect inside'
    BY <1>10 DEF SetOwnerEx, Stay
  <2>2. QED
    BY <2>1, Owning
<1>11. ASSUME NEW o \in Tenant \union {None}, SetOwnerUnswept(o) PROVE HouseInvariant'
  <2>1. /\ NewOwner(o) /\ UNCHANGED <<online, kicks, beds>>
        /\ IF houseOwner = None THEN UNCHANGED <<beds, inside, unswept>>
           ELSE /\ inside' = inside \intersect (Editor \union {houseOwner})
                /\ unswept' = (unswept \union {houseOwner}) \intersect inside'
    BY <1>11 DEF SetOwnerUnswept
  <2>2. QED
    BY <2>1, Owning
<1>12. CASE UNCHANGED houseVars
  <2>1. UNCHANGED <<online, rights, beds, inside, kicks, unswept>>
    BY <1>12 DEF houseVars
  <2>2. Stay(inside)
    BY <1>1, <2>1 DEF Stay, HouseTypeOK
  <2>3. QED
    BY <1>2, <2>1, <2>2, SameRights
<1>13. QED
  BY <1>3, <1>4, <1>5, <1>6, <1>7, <1>8, <1>9, <1>10, <1>11, <1>12 DEF HouseNext

\* Nobody stays in a house without a right, no right outlives the owner who gave
\* it, and no login wakes another sleeper: for any players, lists and beds.
THEOREM HouseSafe == HouseSpec => []HouseIsKept
<1>1. online = Player /\ HouseInit => HouseInvariant
  BY DEF HouseInit, HouseInvariant, HouseTypeOK, StrangersStayOut,
     FriendsGoWithTheOwner, RegisterOfSleepers
<1>2. HouseInvariant /\ [HouseNext]_houseVars => HouseInvariant'
  BY HouseStep
<1>3. HouseInvariant => HouseIsKept
  BY DEF HouseInvariant, HouseIsKept
<1>4. QED
  BY <1>1, <1>2, <1>3, PTL DEF HouseSpec

-----------------------------------------------------------------------------
(* The rent.                                                               *)

USE RentAssumption DEF RentAssumption

\* Each letter names the day after which the last one can be answered: the
\* number of letters and the day of the latest tell it.
LettersAgree ==
  /\ tenant = None => rentWarnings = 0
  /\ rentWarnings # 0 =>
       /\ lastWarning \in Nat
       /\ ultimatum = lastWarning + WarningsLimit - rentWarnings + 1

RentInvariant == RentTypeOK /\ LettersAgree

\* Every day, payment, letter and move keeps the invariant.
LEMMA RentStep ==
  ASSUME RentInvariant, [RentNext]_rentVars
  PROVE  RentInvariant'
<1>1. RentTypeOK /\ LettersAgree
  BY DEF RentInvariant
<1>2. ASSUME NEW o \in Renter \union {None}, Moves(o), UNCHANGED <<today, funds>>
      PROVE  RentInvariant'
  BY <1>1, <1>2 DEF Moves, RentInvariant, RentTypeOK, LettersAgree, Never
<1>3. ASSUME NEW o \in Renter \union {None}, Rented(o) PROVE RentInvariant'
  BY <1>2, <1>3 DEF Rented
<1>4. CASE NextDay
  BY <1>1, <1>4 DEF NextDay, RentInvariant, RentTypeOK, LettersAgree
<1>5. ASSUME NEW p \in Renter, Earn(p) \/ ComeOrGo(p) PROVE RentInvariant'
  BY <1>1, <1>5 DEF Earn, ComeOrGo, RentInvariant, RentTypeOK, LettersAgree
<1>6. CASE Forfeit \/ Evict
  BY <1>2, <1>6 DEF Forfeit, Evict
<1>7. CASE PayRent
  <2>1. tenant \in Renter /\ funds[tenant] \in Nat /\ funds[tenant] > 0
    BY <1>1, <1>7 DEF PayRent, Due, RentTypeOK
  <2>2. funds' \in [Renter -> Nat]
    BY <1>1, <1>7, <2>1 DEF PayRent, RentTypeOK
  <2>3. paidUntil' \in Nat /\ UNCHANGED <<today, tenant, lastWarning, rentWarnings, ultimatum>>
    BY <1>1, <1>7 DEF PayRent, RentTypeOK
  <2>4. QED
    BY <1>1, <2>2, <2>3 DEF RentInvariant, RentTypeOK, LettersAgree
<1>8. CASE Warn
  <2>1. /\ tenant # None /\ rentWarnings < WarningsLimit
        /\ rentWarnings' = rentWarnings + 1 /\ lastWarning' = today
        /\ ultimatum' = today + WarningsLimit - rentWarnings
        /\ UNCHANGED <<today, tenant, paidUntil, funds>>
    BY <1>8 DEF Warn, Unpaid, Due
  <2>2. QED
    BY <1>1, <2>1 DEF RentInvariant, RentTypeOK, LettersAgree
<1>9. CASE UNCHANGED rentVars
  BY <1>1, <1>9 DEF rentVars, RentInvariant, RentTypeOK, LettersAgree
<1>10. QED
  BY <1>3, <1>4, <1>5, <1>6, <1>7, <1>8, <1>9 DEF RentNext

\* Who is evicted had the days the last letter promised: for any period and any
\* number of letters, however often rents are collected, houses change hands
\* and owners come and go.
THEOREM LettersAreKept ==
  ASSUME WarningsLimit # 0 PROVE RentSpec => LettersKeepTheirWord
<1>1. online = Player /\ RentInit => RentInvariant
  BY DEF RentInit, RentInvariant, RentTypeOK, LettersAgree, Never
<1>2. RentInvariant /\ [RentNext]_rentVars => RentInvariant'
  BY RentStep
<1>3. RentInvariant /\ Evict => ultimatum # Never /\ today >= ultimatum
  BY DEF RentInvariant, RentTypeOK, LettersAgree, Evict, Unpaid, Never
<1>4. RentInvariant /\ [RentNext]_rentVars
        => [Evict => ultimatum # Never /\ today >= ultimatum]_rentVars
  BY <1>3
<1>5. QED
  BY <1>1, <1>2, <1>4, PTL DEF RentSpec, LettersKeepTheirWord

-----------------------------------------------------------------------------
(* Rosters.                                                                *)

USE PartyAssumption DEF PartyAssumption

\* A member is put at the end of a roster, or a leader in front of it.
LEMMA Joins ==
  ASSUME NEW list \in Seq(Player), IsInjective(list), NEW p \in Player,
         p \notin Range(list),
         NEW new \in {Append(list, p), <<p>> \o list}
  PROVE  /\ new \in Seq(Player) /\ IsInjective(new)
         /\ Len(new) = Len(list) + 1 /\ Range(new) = Range(list) \union {p}
<1>1. Len(list) \in Nat /\ DOMAIN list = 1..Len(list)
  OBVIOUS
<1>2. CASE new = Append(list, p)
  <2>1. /\ new \in Seq(Player) /\ Len(new) = Len(list) + 1
        /\ DOMAIN new = 1..Len(list)+1
        /\ \A i \in 1..Len(list)+1 : new[i] = IF i <= Len(list) THEN list[i] ELSE p
    BY <1>1, <1>2
  <2>2. Range(new) = Range(list) \union {p}
    BY <1>1, <2>1 DEF Range
  <2>3. IsInjective(new)
    BY <1>1, <2>1 DEF IsInjective, Range
  <2>4. QED
    BY <2>1, <2>2, <2>3
<1>3. CASE new = <<p>> \o list
  <2>1. <<p>> \in Seq(Player) /\ Len(<<p>>) = 1 /\ <<p>>[1] = p
    OBVIOUS
  <2>2. /\ new \in Seq(Player) /\ Len(new) = Len(list) + 1
        /\ DOMAIN new = 1..Len(list)+1
        /\ \A i \in 1..Len(list)+1 : new[i] = IF i = 1 THEN p ELSE list[i - 1]
    BY <1>1, <1>3, <2>1
  <2>3. Range(new) = Range(list) \union {p}
    <3>1. 1 \in DOMAIN new /\ new[1] = p
      BY <1>1, <2>2
    <3>2. ASSUME NEW i \in DOMAIN list PROVE i + 1 \in DOMAIN new /\ new[i + 1] = list[i]
      BY <1>1, <2>2
    <3>3. ASSUME NEW i \in DOMAIN new
          PROVE  new[i] = p \/ \E j \in DOMAIN list : list[j] = new[i]
      <4>1. i # 1 => i - 1 \in DOMAIN list /\ new[i] = list[i - 1]
        BY <1>1, <2>2
      <4>2. i = 1 => new[i] = p
        BY <1>1, <2>2
      <4>3. QED
        BY <4>1, <4>2
    <3>4. QED
      BY <3>1, <3>2, <3>3 DEF Range
  <2>4. IsInjective(new)
    <3>1. \A i \in DOMAIN list : list[i] # p
      BY DEF Range
    <3>2. ASSUME NEW i \in DOMAIN new, NEW j \in DOMAIN new, new[i] = new[j]
          PROVE  i = j
      <4>1. \A m \in DOMAIN new : m # 1 => m - 1 \in DOMAIN list /\ new[m] = list[m - 1]
        BY <1>1, <2>2
      <4>2. new[1] = p /\ i \in Nat /\ j \in Nat
        BY <1>1, <2>2
      <4>3. CASE i = 1 \/ j = 1
        BY <3>1, <3>2, <4>1, <4>2, <4>3
      <4>4. CASE i # 1 /\ j # 1
        <5>1. i - 1 = j - 1
          BY <3>2, <4>1, <4>4 DEF IsInjective
        <5>2. QED
          BY <4>2, <5>1
      <4>5. QED
        BY <4>3, <4>4
    <3>3. QED
      BY <3>2 DEF IsInjective
  <2>5. QED
    BY <2>2, <2>3, <2>4
<1>4. QED
  BY <1>2, <1>3

\* Two lists end to end.
IsJoined(s, l, r) ==
  /\ Len(s) = Len(l) + Len(r)
  /\ \A i \in 1..Len(l)+Len(r) : s[i] = IF i <= Len(l) THEN l[i] ELSE r[i - Len(l)]

LEMMA Joined ==
  ASSUME NEW S, NEW l \in Seq(S), NEW r \in Seq(S)
  PROVE  l \o r \in Seq(S) /\ IsJoined(l \o r, l, r)
BY DEF IsJoined

\* The place of a member is the last or comes before another.
LEMMA AtOrBefore == ASSUME NEW n \in Nat, NEW k \in Nat, k <= n PROVE k = n \/ k + 1 <= n
OBVIOUS

\* A member is taken off.
LEMMA Leaves ==
  ASSUME NEW list \in Seq(Player), IsInjective(list), NEW p \in Range(list)
  PROVE  /\ RemoveFirst(list, p) \in Seq(Player) /\ IsInjective(RemoveFirst(list, p))
         /\ Len(RemoveFirst(list, p)) = Len(list) - 1
         /\ Range(RemoveFirst(list, p)) = Range(list) \ {p}
<1>1. Len(list) \in Nat /\ DOMAIN list = 1..Len(list)
  OBVIOUS
<1>2. PICK k \in 1..Len(list) : list[k] = p
  BY <1>1 DEF Range
<1> DEFINE I == {i \in 1..Len(list) : list[i] = p}
<1>3. I = {k}
  BY <1>1, <1>2 DEF IsInjective
<1>4. RemoveFirst(list, p) = RemoveAt(list, k)
  <2>1. RemoveFirst(list, p) = RemoveAt(list, IF I # {} THEN Min(I) ELSE 0)
    <3>1. \E i \in 1..Len(list) : list[i] = p
      BY <1>2
    <3>2. QED
      BY <3>1, Zenon DEF RemoveFirst, SelectInSeq
  <2> HIDE DEF I
  <2>2. Min(I) = k
    BY <1>2, <1>3 DEF Min
  <2>3. QED
    BY <1>3, <2>1, <2>2
<1> HIDE DEF I
<1> DEFINE l == SubSeq(list, 1, k - 1)
           r == SubSeq(list, k + 1, Len(list))
           s == l \o r
<1>5. RemoveFirst(list, p) = s
  BY <1>4 DEF RemoveAt
<1>6. k \in Nat /\ 1 <= k /\ k <= Len(list)
  BY <1>1, <1>2
<1>7. l \in Seq(Player) /\ Len(l) = k - 1 /\ \A i \in 1..k-1 : l[i] = list[i]
  BY <1>6
<1>8. r \in Seq(Player) /\ Len(r) = Len(list) - k
      /\ \A i \in 1..Len(list)-k : r[i] = list[i + k]
  <2>1. r \in Seq(Player)
    BY <1>1, <1>6
  <2>2. Len(r) = Len(list) - k
    <3>1. CASE k = Len(list)
      BY <1>1, <1>6, <3>1
    <3>2. CASE k + 1 <= Len(list)
      BY <1>1, <1>6, <3>2
    <3>3. k = Len(list) \/ k + 1 <= Len(list)
      BY ONLY <1>1, <1>6, AtOrBefore
    <3>4. QED
      BY ONLY <3>1, <3>2, <3>3
  <2>3. \A i \in 1..Len(list)-k : r[i] = list[i + k]
    BY <1>1, <1>6
  <2>4. QED
    BY <2>1, <2>2, <2>3
<1> HIDE DEF l, r
<1>9. s \in Seq(Player) /\ IsJoined(s, l, r)
  <2>1. l \in Seq(Player) /\ r \in Seq(Player)
    BY <1>7, <1>8
  <2>2. QED
    BY ONLY <2>1, Joined
<1> HIDE DEF s
<1>10. /\ Len(s) = Len(list) - 1 /\ DOMAIN s = 1..Len(list)-1
       /\ \A i \in 1..Len(list)-1 : s[i] = IF i < k THEN list[i] ELSE list[i + 1]
  <2>1. Len(s) = Len(list) - 1 /\ DOMAIN s = 1..Len(list)-1
    BY <1>1, <1>6, <1>7, <1>8, <1>9 DEF IsJoined
  <2>2. ASSUME NEW i \in 1..Len(list)-1
        PROVE  s[i] = IF i < k THEN list[i] ELSE list[i + 1]
    <3>1. s[i] = IF i <= k - 1 THEN l[i] ELSE r[i - (k - 1)]
      BY <1>1, <1>6, <1>7, <1>8, <1>9 DEF IsJoined
    <3>2. CASE i < k
      BY <1>6, <1>7, <3>1, <3>2
    <3>3. CASE ~(i < k)
      <4>1. i - (k - 1) \in 1..Len(list)-k /\ (i - (k - 1)) + k = i + 1
        BY <1>1, <1>6, <3>3
      <4>2. QED
        BY <1>6, <1>8, <3>1, <3>3, <4>1
    <3>4. QED
      BY <3>2, <3>3
  <2>3. QED
    BY <2>1, <2>2
<1>11. IsInjective(s)
  <2>1. ASSUME NEW i \in DOMAIN s, NEW j \in DOMAIN s, s[i] = s[j] PROVE i = j
    <3> DEFINE o(m) == IF m < k THEN m ELSE m + 1
    <3>1. \A m \in DOMAIN s : o(m) \in DOMAIN list /\ s[m] = list[o(m)]
      BY <1>1, <1>6, <1>9, <1>10, SMTT(30)
    <3>2. o(i) = o(j)
      BY <2>1, <3>1 DEF IsInjective
    <3>3. QED
      BY <3>2, <1>1, <1>6, <1>10
  <2>2. QED
    BY <2>1 DEF IsInjective
<1>12. Range(s) = Range(list) \ {p}
  <2>1. ASSUME NEW i \in 1..Len(list)-1 PROVE s[i] \in Range(list) /\ s[i] # p
    <3> DEFINE o == IF i < k THEN i ELSE i + 1
    <3>1. o \in DOMAIN list /\ o # k /\ s[i] = list[o]
      BY <1>1, <1>6, <1>10
    <3>2. list[o] # p
      BY <1>1, <1>2, <3>1 DEF IsInjective
    <3>3. QED
      BY <3>1, <3>2 DEF Range
  <2>2. ASSUME NEW j \in 1..Len(list), list[j] # p
        PROVE  \E i \in 1..Len(list)-1 : s[i] = list[j]
    <3>1. CASE j < k
      <4>1. j \in 1..Len(list)-1 /\ s[j] = list[j]
        BY <1>6, <1>10, <3>1
      <4>2. QED
        BY <4>1
    <3>2. CASE j > k
      <4>1. j - 1 \in 1..Len(list)-1 /\ s[j - 1] = list[j]
        BY <1>6, <1>10, <3>2
      <4>2. QED
        BY <4>1
    <3>3. QED
      BY <2>2, <3>1, <3>2, <1>2, <1>6
  <2>3. \A x : x \in Range(s) <=> \E i \in 1..Len(list)-1 : s[i] = x
    BY <1>10 DEF Range
  <2>4. \A x : x \in Range(list) <=> \E j \in 1..Len(list) : list[j] = x
    BY <1>1 DEF Range
  <2>5. QED
    BY <2>1, <2>2, <2>3, <2>4, ZenonT(30)
<1>13. QED
  BY <1>5, <1>9, <1>10, <1>11, <1>12

\* Taking off somebody a roster does not list.
LEMMA StaysAsItIs ==
  ASSUME NEW list \in Seq(Player), NEW p, p \notin Range(list)
  PROVE  RemoveFirst(list, p) = list
<1>1. ~\E i \in 1..Len(list) : list[i] = p
  BY DEF Range
<1>2. QED
  BY <1>1 DEF RemoveFirst

-----------------------------------------------------------------------------
(* Parties.                                                                *)

\* Who is not in the game is in no party and invited by none, nobody is
\* invited by her own party, and where there is no party nobody is invited.
NothingLingers ==
  /\ \A p \in Player \ online : partyOf[p] = None
  /\ \A a \in Address :
       /\ invites[a] \subseteq online
       /\ invites[a] \intersect Members(a) = {}
       /\ roster[a] = <<>> => invites[a] = {}

PartyInv == PartyTypeOK /\ PartiesAreWhole /\ NothingLingers

\* A roster lists nobody exactly when it is empty.
LEMMA EmptyRoster ==
  /\ <<>> \in Seq(Player) /\ IsInjective(<<>>) /\ Range(<<>>) = {} /\ Len(<<>>) = 0
  /\ \A list \in Seq(Player) : /\ Len(list) \in Nat
                               /\ (Range(list) = {} <=> list = <<>>)
                               /\ (Len(list) = 0 <=> list = <<>>)
<1>1. <<>> \in Seq(Player) /\ IsInjective(<<>>) /\ Range(<<>>) = {} /\ Len(<<>>) = 0
  BY DEF IsInjective, Range
<1>2. ASSUME NEW list \in Seq(Player)
      PROVE  /\ Len(list) \in Nat
             /\ (Range(list) = {} <=> list = <<>>)
             /\ (Len(list) = 0 <=> list = <<>>)
  <2>1. Len(list) \in Nat /\ DOMAIN list = 1..Len(list) /\ (Len(list) = 0 <=> list = <<>>)
    OBVIOUS
  <2>2. Len(list) # 0 => list[1] \in Range(list)
    BY <2>1 DEF Range
  <2>3. QED
    BY <1>1, <2>1, <2>2
<1>3. QED
  BY <1>1, <1>2

\* When some parties disband and p leaves hers.
LEMMA SettledWhole ==
  ASSUME PartyInv, NEW Gone \in SUBSET Address,
         NEW r \in [Address -> Seq(Player)], NEW i \in [Address -> SUBSET Player],
         NEW p \in online \union {None},
         \A a \in Address :
           /\ IsInjective(r[a]) /\ Range(r[a]) = Range(roster[a]) \ {p}
           /\ i[a] \subseteq invites[a]
           /\ (p = None \/ partyOf[p] # a => r[a] = roster[a]),
         \A a \in Address \ Gone : IF r[a] = <<>> THEN i[a] = {}
                                    ELSE Len(r[a]) > 1 \/ i[a] # {},
         \/ online' = online
         \/ online' = online \ {p} /\ \A a \in Address : p \notin i[a],
         Settle(Gone, r, i, p),
         hears' \in [Address -> SUBSET online']
  PROVE  PartyInv'
<1> USE DEF PartyInv, PartyTypeOK
<1>1. /\ roster' = [a \in Address |-> IF a \in Gone THEN <<>> ELSE r[a]]
      /\ invites' = [a \in Address |-> IF a \in Gone THEN {} ELSE i[a]]
      /\ partyOf' = [q \in Player |->
           IF q = p \/ partyOf[q] \in Gone THEN None ELSE partyOf[q]]
      /\ invitedBy' = [q \in Player |-> {a \in invitedBy[q] \ Gone : q \in i[a]}]
      /\ share' \in [Address -> {"off", "active", "enabled"}]
      /\ \A a \in Address :
           IF a \in Gone THEN share'[a] = "off"
           ELSE IF p # None /\ partyOf[p] = a
                THEN share'[a] \in SharedAfter(share[a], Len(r[a]))
                ELSE share'[a] = share[a]
  BY DEF Settle
<1>2. online' \subseteq online /\ online \subseteq Player /\ online \ {p} \subseteq online'
  OBVIOUS
<1>3. PartyTypeOK'
  <2>1. roster' \in [Address -> Seq(Player)]
    BY <1>1, EmptyRoster
  <2>2. invites' \in [Address -> SUBSET Player]
    BY <1>1
  <2>3. partyOf' \in [Player -> Address \union {None}]
    BY <1>1
  <2>4. invitedBy' \in [Player -> SUBSET Address]
    BY <1>1
  <2>5. hears' \in [Address -> SUBSET Player]
    BY <1>2
  <2>6. QED
    BY <1>1, <1>2, <2>1, <2>2, <2>3, <2>4, <2>5
<1>4. ASSUME NEW a \in Address
      PROVE  /\ IsInjective(roster[a])'
             /\ Members(a)' = {q \in online' : partyOf'[q] = a}
  <2>1. Members(a) = {q \in online : partyOf[q] = a}
    BY DEF PartiesAreWhole, SidesAgree
  <2>2. CASE a \in Gone
    <3>1. roster'[a] = <<>>
      BY <1>1, <2>2
    <3>2. \A q \in online' : partyOf'[q] # a
      BY <1>1, <1>2, <2>2
    <3>3. QED
      BY <3>1, <3>2, EmptyRoster DEF Members
  <2>3. CASE a \notin Gone
    <3>1. roster'[a] = r[a]
      BY <1>1, <2>3
    <3>2. Members(a)' = Members(a) \ {p}
      BY <3>1 DEF Members
    <3>3. \A q \in Player : partyOf'[q] = a <=> partyOf[q] = a /\ q # p
      BY <1>1, <2>3
    <3>4. QED
      BY <1>2, <2>1, <3>1, <3>2, <3>3
  <2>4. QED
    BY <2>2, <2>3
<1>5. ASSUME NEW q \in Player, NEW a \in Address
      PROVE  a \in invitedBy'[q] <=> q \in invites'[a] /\ q \in online'
  <2>1. a \in invitedBy[q] <=> q \in invites[a] /\ q \in online
    BY DEF PartiesAreWhole, SidesAgree
  <2>2. a \in invitedBy'[q] <=> a \in invitedBy[q] /\ a \notin Gone /\ q \in i[a]
    BY <1>1
  <2>3. q \in invites'[a] <=> a \notin Gone /\ q \in i[a]
    BY <1>1
  <2>4. QED
    BY <1>2, <2>1, <2>2, <2>3
<1>6. PartiesServeSomebody'
  <2>1. ASSUME NEW a \in Address, roster'[a] # <<>>
        PROVE  Len(roster'[a]) > 1 \/ invites'[a] # {}
    BY <1>1, <2>1
  <2>2. QED
    BY <2>1 DEF PartiesServeSomebody, Parties
<1>7. SharedWithMembers'
  <2>1. ASSUME NEW a \in Address, share'[a] = "enabled"
        PROVE  Len(roster'[a]) > 1
    <3>1. a \notin Gone /\ roster'[a] = r[a]
      BY <1>1, <2>1
    <3>2. CASE p # None /\ partyOf[p] = a
      BY <1>1, <2>1, <3>1, <3>2 DEF SharedAfter
    <3>3. CASE ~(p # None /\ partyOf[p] = a)
      BY <1>1, <2>1, <3>1, <3>3 DEF PartiesAreWhole, SharedWithMembers
    <3>4. QED
      BY <3>2, <3>3
  <2>2. QED
    BY <2>1 DEF SharedWithMembers
<1>8. NothingLingers'
  <2>1. ASSUME NEW q \in Player \ online' PROVE partyOf'[q] = None
    BY <1>1, <1>2 DEF NothingLingers
  <2>2. ASSUME NEW a \in Address
        PROVE  /\ invites'[a] \subseteq online'
               /\ invites'[a] \intersect Members(a)' = {}
               /\ roster'[a] = <<>> => invites'[a] = {}
    <3>1. CASE a \in Gone
      BY <1>1, <3>1
    <3>2. CASE a \notin Gone
      <4>1. invites'[a] = i[a] /\ roster'[a] = r[a]
        BY <1>1, <3>2
      <4>2. Members(a)' \subseteq Members(a)
        BY <4>1 DEF Members
      <4>3. QED
        BY <3>2, <4>1, <4>2, <1>2 DEF NothingLingers
    <3>3. QED
      BY <3>1, <3>2
  <2>3. QED
    BY <2>1, <2>2 DEF NothingLingers
<1>9. HearersArePresent'
  BY DEF HearersArePresent
<1>10. QED
  BY <1>3, <1>4, <1>5, <1>6, <1>7, <1>8, <1>9 DEF PartiesAreWhole, SidesAgree

\* Two steps of counting the members of a party that one leaves.
LEMMA OneLess == ASSUME NEW m \in Nat, NEW n \in Nat, m = n - 1, m = 1 PROVE n = 2
OBVIOUS

LEMMA AboveOne == ASSUME NEW n \in Nat, n # 0, n # 1 PROVE n > 1
OBVIOUS

\* The rosters once p has left hers.
LEMMA WithoutHer ==
  ASSUME PartyInv, NEW p \in online
  PROVE  /\ Without(p) \in [Address -> Seq(Player)]
         /\ \A a \in Address :
              /\ IsInjective(Without(p)[a])
              /\ Range(Without(p)[a]) = Range(roster[a]) \ {p}
              /\ partyOf[p] # a => Without(p)[a] = roster[a]
              /\ partyOf[p] = a => Len(Without(p)[a]) = Len(roster[a]) - 1
<1> USE DEF PartyInv, PartyTypeOK
<1>1. ASSUME NEW a \in Address
      PROVE  /\ RemoveFirst(roster[a], p) \in Seq(Player)
             /\ IsInjective(RemoveFirst(roster[a], p))
             /\ Range(RemoveFirst(roster[a], p)) = Range(roster[a]) \ {p}
             /\ partyOf[p] # a => RemoveFirst(roster[a], p) = roster[a]
             /\ partyOf[p] = a => Len(RemoveFirst(roster[a], p)) = Len(roster[a]) - 1
  <2>1. /\ roster[a] \in Seq(Player) /\ IsInjective(roster[a])
        /\ p \in Range(roster[a]) <=> partyOf[p] = a
    BY DEF PartiesAreWhole, SidesAgree, Members
  <2>2. CASE partyOf[p] = a
    <3>1. p \in Range(roster[a])
      BY <2>1, <2>2
    <3>2. QED
      BY <2>1, <2>2, <3>1, Leaves
  <2>3. CASE partyOf[p] # a
    <3>1. p \notin Range(roster[a]) /\ RemoveFirst(roster[a], p) = roster[a]
      BY <2>1, <2>3, StaysAsItIs
    <3>2. QED
      BY <2>1, <2>3, <3>1
  <2>4. QED
    BY <2>2, <2>3
<1>2. Without(p) = [a \in Address |-> RemoveFirst(roster[a], p)]
  BY DEF Without
<1>3. Without(p) \in [Address -> Seq(Player)]
  BY <1>1, <1>2
<1>4. \A a \in Address : Without(p)[a] = RemoveFirst(roster[a], p)
  BY <1>2
<1> HIDE DEF PartyInv, PartyTypeOK
<1>5. QED
  BY <1>1, <1>3, <1>4

\* What is left of a party that does not dissolve.
LEMMA LeftBehind ==
  ASSUME PartyInv, NEW p \in online, NEW a \in Address, partyOf[p] = a,
         ~Dissolves(a, p)
  PROVE  /\ Without(p)[a] # <<>>
         /\ Len(Without(p)[a]) > 1 \/ invites[a] # {}
<1>1. Without(p)[a] = RemoveFirst(roster[a], p)
  BY DEF Without
<1>2. /\ Without(p)[a] # <<>>
      /\ Len(roster[a]) # 2 \/ invites[a] # {}
  BY <1>1 DEF Dissolves
<1>3. /\ Len(Without(p)[a]) \in Nat /\ Len(Without(p)[a]) # 0
      /\ Len(Without(p)[a]) = Len(roster[a]) - 1 /\ Len(roster[a]) \in Nat
  BY <1>2, WithoutHer, EmptyRoster DEF PartyInv, PartyTypeOK
<1>4. Len(Without(p)[a]) # 1 \/ invites[a] # {}
  <2>1. Len(Without(p)[a]) = 1 => Len(roster[a]) = 2
    BY ONLY <1>3, OneLess
  <2>2. QED
    BY ONLY <1>2, <2>1
<1>5. Len(Without(p)[a]) > 1 \/ invites[a] # {}
  BY ONLY <1>3, <1>4, AboveOne
<1>6. QED
  BY ONLY <1>2, <1>5

\* A member leaves; the others stay or their party disbands.
LEMMA LeavePreserves ==
  ASSUME PartyInv, NEW p \in Player, LeaveParty(p)
  PROVE  PartyInv'
<1> DEFINE a == partyOf[p]
           Gone == IF Dissolves(a, p) THEN {a} ELSE {}
           r == Without(p)
<1>1. /\ p \in online /\ a # None /\ online' = online
      /\ Settle(Gone, r, invites, p) /\ Hear(Gone, p)
  BY DEF LeaveParty
<1>2. a \in Address /\ Gone \in SUBSET Address
  BY <1>1 DEF PartyInv, PartyTypeOK
<1>3. PICK linked \in Linked(Gone) : hears' = ClosedIn(Gone, p, linked)
  BY <1>1 DEF Hear
<1>4. hears' \in [Address -> SUBSET online']
  BY <1>1, <1>3 DEF ClosedIn, PartyInv, PartyTypeOK, PartiesAreWhole, HearersArePresent
<1>5. ASSUME NEW b \in Address \ Gone
      PROVE  IF r[b] = <<>> THEN invites[b] = {}
             ELSE Len(r[b]) > 1 \/ invites[b] # {}
  <2>1. CASE b = a
    <3>1. ~Dissolves(a, p)
      BY <1>5, <2>1
    <3>2. QED
      BY <1>1, <2>1, <3>1, LeftBehind
  <2>2. CASE b # a
    <3>1. r[b] = roster[b]
      BY <1>1, <2>2, WithoutHer
    <3>2. QED
      BY <3>1 DEF PartyInv, PartiesAreWhole, PartiesServeSomebody, Parties,
                  NothingLingers
  <2>3. QED
    BY <2>1, <2>2
<1> HIDE DEF Gone, r
<1>6. invites \in [Address -> SUBSET Player]
  BY DEF PartyInv, PartyTypeOK
<1>7. r \in [Address -> Seq(Player)]
  BY <1>1, WithoutHer DEF r
<1>8. \A b \in Address :
        /\ IsInjective(r[b]) /\ Range(r[b]) = Range(roster[b]) \ {p}
        /\ invites[b] \subseteq invites[b]
        /\ (p = None \/ partyOf[p] # b => r[b] = roster[b])
  BY <1>1, WithoutHer DEF r
<1>9. p \in online \union {None} /\ Gone \in SUBSET Address
  BY <1>1, <1>2
<1>10. Settle(Gone, r, invites, p) /\ online' = online
  BY <1>1
<1> HIDE DEF a
<1>11. QED
  BY ONLY PartyInv, <1>4, <1>5, <1>6, <1>7, <1>8, <1>9, <1>10, SettledWhole, Zenon

\* A player who leaves the game declines her invitations first.
LEMMA LogoutPreserves ==
  ASSUME PartyInv, NEW p \in Player, LogoutOfParty(p)
  PROVE  PartyInv'
<1> DEFINE i == [a \in Address |-> invites[a] \ {p}]
           Gone == {a \in invitedBy[p] : Len(roster[a]) = 1 /\ i[a] = {}}
                    \union {a \in Address : a = partyOf[p] /\ Dissolves(a, p)}
           r == Without(p)
<1>1. /\ p \in online /\ online' = online \ {p}
      /\ Settle(Gone, r, i, p)
      /\ \E linked \in Linked(Gone) :
           hears' = [a \in Address |-> ClosedIn(Gone, p, linked)[a] \ {p}]
  BY DEF LogoutOfParty
<1>2. Gone \in SUBSET Address /\ i \in [Address -> SUBSET Player]
  BY DEF PartyInv, PartyTypeOK
<1>3. hears' \in [Address -> SUBSET online']
  BY <1>1 DEF ClosedIn, PartyInv, PartyTypeOK, PartiesAreWhole, HearersArePresent
<1>4. ASSUME NEW b \in Address \ Gone
      PROVE  IF r[b] = <<>> THEN i[b] = {}
             ELSE Len(r[b]) > 1 \/ i[b] # {}
  <2>1. CASE b = partyOf[p]
    <3>1. ~Dissolves(b, p)
      BY <1>4, <2>1
    <3>2. r[b] # <<>> /\ (Len(r[b]) > 1 \/ invites[b] # {})
      BY <1>1, <2>1, <3>1, LeftBehind
    <3>3. p \notin invites[b]
      BY <1>1, <2>1 DEF PartyInv, PartiesAreWhole, SidesAgree, NothingLingers
    <3>4. QED
      BY <3>2, <3>3
  <2>2. CASE b # partyOf[p]
    <3>1. r[b] = roster[b]
      BY <1>1, <2>2, WithoutHer
    <3>2. CASE roster[b] = <<>>
      BY <3>1, <3>2 DEF PartyInv, NothingLingers
    <3>3. CASE roster[b] # <<>>
      <4>1. Len(roster[b]) \in Nat /\ Len(roster[b]) # 0
        BY <3>3, EmptyRoster DEF PartyInv, PartyTypeOK
      <4>2. Len(roster[b]) > 1 \/ invites[b] # {}
        BY <3>3 DEF PartyInv, PartiesAreWhole, PartiesServeSomebody, Parties
      <4>3. CASE p \in invites[b]
        <5>1. b \in invitedBy[p]
          BY <1>1, <4>3 DEF PartyInv, PartiesAreWhole, SidesAgree
        <5>2. Len(roster[b]) # 1 \/ i[b] # {}
          BY <1>4, <5>1
        <5>3. QED
          <6>1. Len(roster[b]) > 1 \/ i[b] # {}
            BY ONLY <4>1, <5>2, AboveOne
          <6>2. QED
            BY ONLY <3>1, <3>3, <6>1
      <4>4. CASE p \notin invites[b]
        BY <3>1, <3>3, <4>2, <4>4
      <4>5. QED
        BY <4>3, <4>4
    <3>4. QED
      BY <3>2, <3>3
  <2>3. QED
    BY <2>1, <2>2
<1>5. \A a \in Address : i[a] \subseteq invites[a] /\ p \notin i[a]
  OBVIOUS
<1> HIDE DEF Gone, i, r
<1>6. r \in [Address -> Seq(Player)]
  BY <1>1, WithoutHer DEF r
<1>7. \A b \in Address :
        /\ IsInjective(r[b]) /\ Range(r[b]) = Range(roster[b]) \ {p}
        /\ i[b] \subseteq invites[b]
        /\ (p = None \/ partyOf[p] # b => r[b] = roster[b])
  BY <1>1, <1>5, WithoutHer DEF r
<1>8. p \in online \union {None} /\ Gone \in SUBSET Address
  BY <1>1, <1>2
<1>9. /\ i \in [Address -> SUBSET Player] /\ Settle(Gone, r, i, p)
      /\ online' = online \ {p} /\ \A b \in Address : p \notin i[b]
  BY <1>1, <1>2, <1>5
<1>10. QED
  BY ONLY PartyInv, <1>3, <1>4, <1>6, <1>7, <1>8, <1>9, SettledWhole, ZenonT(30)

\* The last invitation of a leader alone ends the party.
LEMMA RevokePreserves ==
  ASSUME PartyInv, NEW p \in Player, NEW q \in Player, RevokeInvitation(p, q)
  PROVE  PartyInv'
<1> DEFINE a == partyOf[p]
           i == [invites EXCEPT ![a] = @ \ {q}]
           Gone == IF Len(roster[a]) = 1 /\ i[a] = {} THEN {a} ELSE {}
<1>1. /\ online' = online /\ partyOf[p] # None /\ q \in invites[a]
      /\ Settle(Gone, roster, i, None) /\ Hear(Gone, None)
  BY DEF RevokeInvitation, IsInviting, Leads
<1>2. /\ a \in Address /\ Gone \in SUBSET Address
      /\ i \in [Address -> SUBSET Player] /\ roster \in [Address -> Seq(Player)]
  BY <1>1 DEF PartyInv, PartyTypeOK
<1>3. PICK linked \in Linked(Gone) : hears' = ClosedIn(Gone, None, linked)
  BY <1>1 DEF Hear
<1>4. hears' \in [Address -> SUBSET online']
  BY <1>1, <1>3 DEF ClosedIn, PartyInv, PartyTypeOK, PartiesAreWhole, HearersArePresent
<1>5. \A b \in Address : /\ IsInjective(roster[b]) /\ i[b] \subseteq invites[b]
                         /\ Range(roster[b]) = Range(roster[b]) \ {None}
  <2>1. \A b \in Address : IsInjective(roster[b]) /\ None \notin Range(roster[b])
    BY DEF PartyInv, PartyTypeOK, PartiesAreWhole, SidesAgree, Members
  <2>2. \A b \in Address : i[b] \subseteq invites[b]
    BY <1>2 DEF PartyInv, PartyTypeOK
  <2>3. QED
    BY <2>1, <2>2
<1>6. ASSUME NEW b \in Address \ Gone
      PROVE  IF roster[b] = <<>> THEN i[b] = {} ELSE Len(roster[b]) > 1 \/ i[b] # {}
  <2>1. IF roster[b] = <<>> THEN invites[b] = {} ELSE Len(roster[b]) > 1 \/ invites[b] # {}
    BY DEF PartyInv, PartiesAreWhole, PartiesServeSomebody, Parties, NothingLingers
  <2>2. CASE b = a
    <3>1. Len(roster[b]) # 1 \/ i[b] # {}
      BY <1>6, <2>2
    <3>2. Len(roster[b]) \in Nat /\ (Len(roster[b]) = 0 <=> roster[b] = <<>>)
      BY <1>2, EmptyRoster
    <3>3. roster[b] # <<>>
      BY <1>1, <2>1, <2>2
    <3>4. QED
      <4>1. Len(roster[b]) > 1 \/ i[b] # {}
        BY ONLY <3>1, <3>2, <3>3, AboveOne
      <4>2. QED
        BY ONLY <3>3, <4>1
  <2>3. CASE b # a
    <3>1. i[b] = invites[b]
      BY <2>3 DEF PartyInv, PartyTypeOK
    <3>2. QED
      BY <2>1, <3>1
  <2>4. QED
    BY <2>2, <2>3
<1> HIDE DEF Gone, i
<1>7. QED
  BY <1>1, <1>2, <1>4, <1>5, <1>6, SettledWhole

\* An invitation, which may found the party.
LEMMA InvitePreserves ==
  ASSUME PartyInv, NEW p \in Player, NEW q \in Player, InviteToParty(p, q)
  PROVE  PartyInv'
<1> USE DEF PartyInv, PartyTypeOK
<1>1. p # q /\ p \in online /\ q \in online /\ partyOf[q] = None /\ online' = online
      /\ hears' = hears
  BY DEF InviteToParty
<1>2. PICK a \in Address :
        /\ \/ /\ partyOf[p] = None /\ roster[a] = <<>>
              /\ roster' = [roster EXCEPT ![a] = <<p>>]
              /\ partyOf' = [partyOf EXCEPT ![p] = a]
              /\ share' = [share EXCEPT ![a] = "off"]
           \/ /\ partyOf[p] = a /\ Leads(p) /\ q \notin invites[a]
              /\ UNCHANGED <<roster, partyOf, share>>
        /\ invites' = [invites EXCEPT ![a] = @ \union {q}]
        /\ invitedBy' = [invitedBy EXCEPT ![q] = @ \union {a}]
  BY DEF InviteToParty
<1>3. \A b \in Address : invites'[b] = IF b = a THEN invites[b] \union {q} ELSE invites[b]
  BY <1>2
<1>4. \A r \in Player : invitedBy'[r] = IF r = q THEN invitedBy[r] \union {a} ELSE invitedBy[r]
  BY <1>2
<1>5. ASSUME NEW r \in Player, NEW b \in Address
      PROVE  b \in invitedBy'[r] <=> r \in invites'[b] /\ r \in online'
  <2>1. b \in invitedBy[r] <=> r \in invites[b] /\ r \in online
    BY DEF PartiesAreWhole, SidesAgree
  <2>2. b \in invitedBy'[r] <=> b \in invitedBy[r] \/ (r = q /\ b = a)
    BY <1>4
  <2>3. r \in invites'[b] <=> r \in invites[b] \/ (r = q /\ b = a)
    BY <1>3
  <2>4. QED
    BY <1>1, <2>1, <2>2, <2>3
<1>6. /\ <<p>> \in Seq(Player) /\ IsInjective(<<p>>) /\ Range(<<p>>) = {p}
      /\ <<p>> # <<>> /\ Len(<<p>>) = 1
  BY DEF IsInjective, Range
<1>7. /\ partyOf' \in [Player -> Address \union {None}]
      /\ \A r \in Player : partyOf[r] # None => partyOf'[r] = partyOf[r]
      /\ \A r \in Player : partyOf'[r] # partyOf[r] => r = p /\ partyOf'[r] = a
  <2>1. CASE partyOf' = partyOf
    BY <2>1
  <2>2. CASE partyOf[p] = None /\ partyOf' = [partyOf EXCEPT ![p] = a]
    BY <2>2
  <2>3. partyOf' = partyOf \/ (partyOf[p] = None /\ partyOf' = [partyOf EXCEPT ![p] = a])
    BY <1>2
  <2>4. QED
    BY <2>1, <2>2, <2>3
<1>8. ASSUME NEW b \in Address
      PROVE  /\ roster'[b] \in Seq(Player) /\ IsInjective(roster[b])'
             /\ Members(b)' = {r \in online' : partyOf'[r] = b}
             /\ Len(roster[b]) > 1 => Len(roster'[b]) > 1
             /\ share'[b] = "enabled" => Len(roster'[b]) > 1
             /\ roster'[b] = <<>> => b # a /\ roster[b] = <<>>
             /\ Members(b)' \intersect invites'[b] = {}
             /\ b # a => roster'[b] = roster[b]
  <2>1. /\ roster[b] \in Seq(Player) /\ IsInjective(roster[b])
        /\ Members(b) = {r \in online : partyOf[r] = b}
        /\ share[b] = "enabled" => Len(roster[b]) > 1
        /\ Members(b) \intersect invites[b] = {}
        /\ roster[b] = <<>> => invites[b] = {}
    BY DEF PartiesAreWhole, SidesAgree, SharedWithMembers, NothingLingers
  <2>2. CASE b = a /\ roster[a] = <<>> /\ partyOf[p] = None
    <3>1. partyOf[p] # a
      BY <2>2
    <3>2. ~Leads(p)
      BY <2>2 DEF Leads
    <3>3. /\ roster'[b] = <<p>> /\ partyOf' = [partyOf EXCEPT ![p] = a]
          /\ share'[b] = "off"
      BY <1>2, <2>2, <3>2
    <3>4. {r \in online' : partyOf'[r] = b} = {p}
      <4>1. Members(b) = {}
        BY <2>2, EmptyRoster DEF Members
      <4>2. QED
        BY <1>1, <2>1, <2>2, <3>3, <4>1
    <3>5. Members(b)' = {p}
      BY <1>6, <3>3 DEF Members
    <3>6. invites'[b] = {q}
      BY <1>3, <2>1, <2>2
    <3>7. Len(roster[b]) = 0
      BY <2>2, EmptyRoster
    <3>8. QED
      BY <1>1, <1>6, <2>2, <3>3, <3>4, <3>5, <3>6, <3>7
  <2>3. CASE b = a /\ partyOf[p] = a
    <3>1. roster' = roster /\ partyOf' = partyOf /\ share' = share
      BY <1>2, <2>3
    <3>2. Members(b)' = Members(b)
      BY <3>1 DEF Members
    <3>3. p \in Members(b) /\ q \notin Members(b)
      BY <1>1, <2>1, <2>3
    <3>4. roster[b] # <<>>
      BY <3>3, EmptyRoster DEF Members
    <3>5. {r \in online' : partyOf'[r] = b} = {r \in online : partyOf[r] = b}
      BY <1>1, <3>1
    <3>6. Members(b)' \intersect invites'[b] = {}
      BY <1>3, <2>1, <2>3, <3>2, <3>3, ZenonT(30)
    <3>7. QED
      BY <2>1, <2>3, <3>1, <3>2, <3>4, <3>5, <3>6
  <2>4. CASE b # a
    <3>1. roster'[b] = roster[b] /\ share'[b] = share[b]
      BY <1>2, <2>4
    <3>2. Members(b)' = Members(b)
      BY <3>1 DEF Members
    <3>3. \A r \in Player : partyOf'[r] = b <=> partyOf[r] = b
      BY <1>2, <1>7, <2>4
    <3>4. {r \in online' : partyOf'[r] = b} = {r \in online : partyOf[r] = b}
      BY <1>1, <3>3
    <3>5. invites'[b] = invites[b]
      BY <1>3, <2>4
    <3>6. QED
      BY <2>1, <2>4, <3>1, <3>2, <3>4, <3>5
  <2>5. QED
    BY <1>2, <2>2, <2>3, <2>4
<1>9. roster' \in [Address -> Seq(Player)]
  BY <1>2, <1>6, ZenonT(30)
<1>10. PartyTypeOK'
  <2>1. online' \subseteq Player /\ hears' \in [Address -> SUBSET Player]
    BY <1>1
  <2>2. invites' \in [Address -> SUBSET Player] /\ invitedBy' \in [Player -> SUBSET Address]
    BY <1>2
  <2>3. share' \in [Address -> {"off", "active", "enabled"}]
    BY <1>2
  <2>4. QED
    BY <1>7, <1>9, <2>1, <2>2, <2>3
<1>11. SidesAgree'
  BY <1>5, <1>8 DEF SidesAgree
<1>12. PartiesServeSomebody'
  <2>1. ASSUME NEW b \in Address, roster'[b] # <<>>
        PROVE  Len(roster'[b]) > 1 \/ invites'[b] # {}
    <3>1. b # a => roster'[b] = roster[b] /\ invites'[b] = invites[b]
      BY <1>3, <1>8
    <3>2. b = a => q \in invites'[b]
      BY <1>3
    <3>3. QED
      BY <2>1, <3>1, <3>2 DEF PartiesAreWhole, PartiesServeSomebody, Parties
  <2>2. QED
    BY <2>1 DEF PartiesServeSomebody, Parties
<1>13. SharedWithMembers'
  BY <1>8 DEF SharedWithMembers
<1>14. HearersArePresent'
  BY <1>1 DEF HearersArePresent, PartiesAreWhole
<1>15. NothingLingers'
  <2>1. \A r \in Player \ online' : partyOf'[r] = None
    BY <1>1, <1>7 DEF NothingLingers
  <2>2. ASSUME NEW b \in Address
        PROVE  /\ invites'[b] \subseteq online'
               /\ invites'[b] \intersect Members(b)' = {}
               /\ roster'[b] = <<>> => invites'[b] = {}
    <3>1. invites'[b] \subseteq online' /\ invites'[b] \intersect Members(b)' = {}
      <4>1. invites[b] \subseteq online
        BY DEF NothingLingers
      <4>2. invites'[b] \subseteq online'
        BY <1>1, <1>3, <4>1
      <4>3. QED
        BY <1>8, <4>2
    <3>2. roster'[b] = <<>> => invites'[b] = {}
      <4>1. roster'[b] = <<>> => b # a /\ roster[b] = <<>>
        BY <1>8
      <4>2. roster[b] = <<>> => invites[b] = {}
        BY DEF NothingLingers
      <4>3. QED
        BY <1>3, <4>1, <4>2
    <3>3. QED
      BY <3>1, <3>2
  <2>3. QED
    BY <2>1, <2>2 DEF NothingLingers
<1>16. QED
  BY <1>10, <1>11, <1>12, <1>13, <1>14, <1>15 DEF PartiesAreWhole

\* Whoever joins was invited and belonged to no party.
LEMMA JoinPreserves ==
  ASSUME PartyInv, NEW p \in Player, NEW l \in Player, JoinParty(p, l)
  PROVE  PartyInv'
<1> USE DEF PartyInv, PartyTypeOK
<1> DEFINE a == partyOf[l]
<1>1. /\ p \in online /\ partyOf[p] = None /\ a \in Address /\ p \in invites[a]
      /\ roster[a] # <<>> /\ online' = online /\ hears' = hears
  <2>1. p \in online /\ l \in online /\ partyOf[p] = None /\ p \in invites[a] /\ a # None
        /\ online' = online /\ hears' = hears
    BY DEF JoinParty, IsInviting, Leads
  <2>2. a \in Address
    BY <2>1
  <2>3. roster[a] # <<>>
    BY <2>1, <2>2 DEF NothingLingers
  <2>4. QED
    BY <2>1, <2>2, <2>3
<1>2. /\ roster' = [roster EXCEPT ![a] = Append(@, p)]
      /\ partyOf' = [partyOf EXCEPT ![p] = a]
      /\ invites' = [invites EXCEPT ![a] = @ \ {p}]
      /\ invitedBy' = [invitedBy EXCEPT ![p] = @ \ {a}]
      /\ \E s \in SharedAfter(share[a], Len(roster[a]) + 1) :
           share' = [share EXCEPT ![a] = s]
  BY DEF JoinParty
<1> HIDE DEF a
<1> DEFINE new == Append(roster[a], p)
<1>3. /\ new \in Seq(Player) /\ IsInjective(new) /\ Len(new) > 1
      /\ Range(new) = Range(roster[a]) \union {p}
  <2>1. /\ roster[a] \in Seq(Player) /\ IsInjective(roster[a]) /\ p \notin Range(roster[a])
    BY <1>1 DEF PartiesAreWhole, SidesAgree, Members
  <2>2. /\ new \in Seq(Player) /\ IsInjective(new) /\ Len(new) = Len(roster[a]) + 1
        /\ Range(new) = Range(roster[a]) \union {p}
    BY <2>1, Joins
  <2>3. Len(roster[a]) \in Nat /\ Len(roster[a]) # 0
    BY <1>1, <2>1, EmptyRoster
  <2> HIDE DEF new
  <2>4. QED
    BY <2>2, <2>3
<1>4. roster' = [roster EXCEPT ![a] = new]
  BY <1>2
<1> HIDE DEF new
<1>5. \A b \in Address : roster'[b] = IF b = a THEN new ELSE roster[b]
  BY <1>4
<1>6. \A b \in Address : invites'[b] = IF b = a THEN invites[b] \ {p} ELSE invites[b]
  BY <1>2
<1>7. \A r \in Player : partyOf'[r] = IF r = p THEN a ELSE partyOf[r]
  BY <1>2
<1>8. \A r \in Player :
        invitedBy'[r] = IF r = p THEN invitedBy[r] \ {a} ELSE invitedBy[r]
  BY <1>2
<1>9. /\ share' \in [Address -> {"off", "active", "enabled"}]
      /\ \A b \in Address : b # a => share'[b] = share[b]
  BY <1>2 DEF SharedAfter
<1>10. PartyTypeOK'
  <2>1. roster' \in [Address -> Seq(Player)]
    BY <1>3, <1>4
  <2>2. invites' \in [Address -> SUBSET Player] /\ invitedBy' \in [Player -> SUBSET Address]
    BY <1>2
  <2>3. partyOf' \in [Player -> Address \union {None}]
    BY <1>1, <1>2
  <2>4. QED
    BY <1>1, <1>9, <2>1, <2>2, <2>3
<1>11. ASSUME NEW b \in Address
       PROVE  IsInjective(roster[b])' /\ Members(b)' = {r \in online' : partyOf'[r] = b}
  <2>1. IsInjective(roster[b]) /\ Members(b) = {r \in online : partyOf[r] = b}
    BY DEF PartiesAreWhole, SidesAgree
  <2>2. CASE b = a
    <3>1. roster'[b] = new
      BY <1>5, <2>2
    <3>2. Members(b)' = Members(b) \union {p}
      BY <1>3, <2>2, <3>1 DEF Members
    <3>3. \A r \in Player : partyOf'[r] = b <=> partyOf[r] = b \/ r = p
      BY <1>7, <2>2
    <3>4. QED
      BY <1>1, <1>3, <2>1, <3>1, <3>2, <3>3
  <2>3. CASE b # a
    <3>1. roster'[b] = roster[b]
      BY <1>5, <2>3
    <3>2. Members(b)' = Members(b)
      BY <3>1 DEF Members
    <3>3. \A r \in Player : partyOf'[r] = b <=> partyOf[r] = b
      BY <1>1, <1>7, <2>3
    <3>4. QED
      BY <1>1, <2>1, <3>1, <3>2, <3>3
  <2>4. QED
    BY <2>2, <2>3
<1>12. ASSUME NEW r \in Player, NEW b \in Address
       PROVE  b \in invitedBy'[r] <=> r \in invites'[b] /\ r \in online'
  <2>1. b \in invitedBy[r] <=> r \in invites[b] /\ r \in online
    BY DEF PartiesAreWhole, SidesAgree
  <2>2. b \in invitedBy'[r] <=> b \in invitedBy[r] /\ ~(r = p /\ b = a)
    <3>1. CASE r = p
      <4>1. invitedBy'[r] = invitedBy[r] \ {a}
        BY ONLY <1>8, <3>1, r \in Player
      <4>2. QED
        BY ONLY <3>1, <4>1
    <3>2. CASE r # p
      BY <1>8, <3>2
    <3>3. QED
      BY <3>1, <3>2
  <2>3. r \in invites'[b] <=> r \in invites[b] /\ ~(r = p /\ b = a)
    <3>1. CASE b = a
      BY <1>6, <3>1
    <3>2. CASE b # a
      BY <1>6, <3>2
    <3>3. QED
      BY <3>1, <3>2
  <2>4. QED
    BY <1>1, <2>1, <2>2, <2>3
<1>13. PartiesServeSomebody'
  <2>1. ASSUME NEW b \in Address, roster'[b] # <<>>
        PROVE  Len(roster'[b]) > 1 \/ invites'[b] # {}
    <3>1. b = a => Len(roster'[b]) > 1
      BY <1>3, <1>5
    <3>2. b # a => roster'[b] = roster[b] /\ invites'[b] = invites[b]
      BY <1>5, <1>6
    <3>3. QED
      BY <2>1, <3>1, <3>2 DEF PartiesAreWhole, PartiesServeSomebody, Parties
  <2>2. QED
    BY <2>1 DEF PartiesServeSomebody, Parties
<1>14. SharedWithMembers'
  <2>1. ASSUME NEW b \in Address, share'[b] = "enabled"
        PROVE  Len(roster'[b]) > 1
    <3>1. b = a => Len(roster'[b]) > 1
      BY <1>3, <1>5
    <3>2. b # a => roster'[b] = roster[b] /\ share'[b] = share[b]
      BY <1>5, <1>9
    <3>3. QED
      BY <2>1, <3>1, <3>2 DEF PartiesAreWhole, SharedWithMembers
  <2>2. QED
    BY <2>1 DEF SharedWithMembers
<1>15. HearersArePresent'
  BY <1>1 DEF HearersArePresent, PartiesAreWhole
<1>16. NothingLingers'
  <2>1. \A r \in Player \ online' : partyOf'[r] = None
    BY <1>1, <1>7 DEF NothingLingers
  <2>2. ASSUME NEW b \in Address
        PROVE  /\ invites'[b] \subseteq online'
               /\ invites'[b] \intersect Members(b)' = {}
               /\ roster'[b] = <<>> => invites'[b] = {}
    <3>1. /\ invites[b] \subseteq online /\ invites[b] \intersect Members(b) = {}
          /\ roster[b] = <<>> => invites[b] = {}
      BY DEF NothingLingers
    <3>2. CASE b = a
      <4>1. invites'[b] = invites[b] \ {p}
        BY <1>6, <3>2
      <4>2. Members(b)' = Members(b) \union {p}
        BY <1>3, <1>5, <3>2 DEF Members
      <4>3. roster'[b] # <<>>
        BY <1>3, <1>5, <3>2, EmptyRoster
      <4>4. QED
        BY <1>1, <3>1, <4>1, <4>2, <4>3
    <3>3. CASE b # a
      <4>1. invites'[b] = invites[b] /\ roster'[b] = roster[b]
        BY <1>5, <1>6, <3>3
      <4>2. Members(b)' = Members(b)
        BY <4>1 DEF Members
      <4>3. QED
        BY <1>1, <3>1, <4>1, <4>2
    <3>4. QED
      BY <3>2, <3>3
  <2>3. QED
    BY <2>1, <2>2 DEF NothingLingers
<1>17. QED
  BY <1>10, <1>11, <1>12, <1>13, <1>14, <1>15, <1>16 DEF PartiesAreWhole, SidesAgree

\* The new leader was listed, and so is the old one.
LEMMA PassLeadershipPreserves ==
  ASSUME PartyInv, NEW p \in Player, NEW q \in Player, PassLeadership(p, q)
  PROVE  PartyInv'
<1> USE DEF PartyInv, PartyTypeOK
<1> DEFINE a == partyOf[p]
           rest == RemoveFirst(roster[a], q)
           new == <<q>> \o rest
<1>1. /\ q \in online /\ a \in Address /\ partyOf[q] = a
      /\ UNCHANGED <<online, invites, partyOf, invitedBy, hears>>
  <2>1. /\ q \in online /\ a # None /\ partyOf[q] = a
        /\ UNCHANGED <<online, invites, partyOf, invitedBy, hears>>
    BY DEF PassLeadership, Leads
  <2>2. QED
    BY <2>1
<1>2. /\ roster' = [roster EXCEPT ![a] = new]
      /\ \E s \in SharedAfter(share[a], Len(roster[a])) :
           share' = [share EXCEPT ![a] = s]
  BY DEF PassLeadership
<1> HIDE DEF a
<1>3. /\ new \in Seq(Player) /\ IsInjective(new) /\ Len(new) = Len(roster[a])
      /\ Range(new) = Range(roster[a]) /\ Len(roster[a]) \in Nat
  <2>1. roster[a] \in Seq(Player) /\ IsInjective(roster[a]) /\ q \in Range(roster[a])
    BY <1>1 DEF PartiesAreWhole, SidesAgree, Members
  <2>2. /\ rest \in Seq(Player) /\ IsInjective(rest) /\ Len(rest) = Len(roster[a]) - 1
        /\ Range(rest) = Range(roster[a]) \ {q}
    BY <2>1, Leaves
  <2> HIDE DEF rest
  <2>3. /\ new \in Seq(Player) /\ IsInjective(new) /\ Len(new) = Len(rest) + 1
        /\ Range(new) = Range(rest) \union {q}
    BY <2>2, Joins
  <2> HIDE DEF new
  <2>4. Len(roster[a]) \in Nat
    BY <2>1, EmptyRoster
  <2>5. QED
    BY <2>1, <2>2, <2>3, <2>4
<1> HIDE DEF new, rest
<1>4. \A b \in Address : roster'[b] = IF b = a THEN new ELSE roster[b]
  BY <1>2
<1>5. \A b \in Address : /\ IsInjective(roster[b])' /\ Members(b)' = Members(b)
                         /\ Len(roster'[b]) = Len(roster[b])
                         /\ roster'[b] = <<>> <=> roster[b] = <<>>
  <2>1. ASSUME NEW b \in Address
        PROVE  /\ IsInjective(roster[b])' /\ Members(b)' = Members(b)
               /\ Len(roster'[b]) = Len(roster[b])
               /\ roster'[b] = <<>> <=> roster[b] = <<>>
    <3>1. IsInjective(roster[b])
      BY DEF PartiesAreWhole, SidesAgree
    <3>2. CASE b = a
      <4>1. new = <<>> <=> roster[a] = <<>>
        BY <1>1, <1>3, EmptyRoster
      <4>2. QED
        BY <1>3, <1>4, <3>2, <4>1 DEF Members
    <3>3. CASE b # a
      BY <1>4, <3>1, <3>3 DEF Members
    <3>4. QED
      BY <3>2, <3>3
  <2>2. QED
    BY <2>1
<1>6. /\ share' \in [Address -> {"off", "active", "enabled"}]
      /\ \A b \in Address : b # a => share'[b] = share[b]
      /\ share'[a] = "enabled" => Len(roster[a]) > 1
  BY <1>1, <1>2 DEF SharedAfter
<1>7. PartyTypeOK'
  <2>1. roster' \in [Address -> Seq(Player)]
    BY <1>2, <1>3
  <2>2. QED
    BY <1>1, <1>6, <2>1
<1>8. SidesAgree'
  BY <1>1, <1>5 DEF PartiesAreWhole, SidesAgree
<1>9. PartiesServeSomebody'
  BY <1>1, <1>5 DEF PartiesAreWhole, PartiesServeSomebody, Parties
<1>10. SharedWithMembers'
  BY <1>5, <1>6 DEF PartiesAreWhole, SharedWithMembers
<1>11. HearersArePresent'
  BY <1>1 DEF PartiesAreWhole, HearersArePresent
<1>12. NothingLingers'
  BY <1>1, <1>5 DEF NothingLingers
<1>13. QED
  BY <1>7, <1>8, <1>9, <1>10, <1>11, <1>12 DEF PartiesAreWhole

\* Nothing but a party's sharing changes.
LEMMA SharingPreserves ==
  ASSUME PartyInv, NEW a \in Address, NEW m \in {"off", "active", "enabled"},
         NEW s \in SharedAfter(m, Len(roster[a])),
         share' = [share EXCEPT ![a] = s],
         UNCHANGED <<online, roster, invites, partyOf, invitedBy, hears>>
  PROVE  PartyInv'
<1> USE DEF PartyInv, PartyTypeOK
<1>1. s \in {"off", "active", "enabled"} /\ (s = "enabled" => Len(roster[a]) > 1)
  BY DEF SharedAfter
<1>2. PartyTypeOK'
  BY <1>1
<1>3. SharedWithMembers'
  BY <1>1 DEF PartiesAreWhole, SharedWithMembers
<1>4. SidesAgree' /\ PartiesServeSomebody' /\ HearersArePresent' /\ NothingLingers'
  BY DEF PartiesAreWhole, SidesAgree, PartiesServeSomebody, HearersArePresent,
         NothingLingers, Members, Parties
<1>5. QED
  BY <1>2, <1>3, <1>4 DEF PartiesAreWhole

\* Nothing but the channels and who is in the game changes.
LEMMA HearingPreserves ==
  ASSUME PartyInv, online \subseteq online', online' \subseteq Player,
         hears' \in [Address -> SUBSET online'],
         UNCHANGED <<roster, invites, share, partyOf, invitedBy>>
  PROVE  PartyInv'
<1> USE DEF PartyInv, PartyTypeOK
<1>1. PartyTypeOK'
  OBVIOUS
<1>2. SidesAgree'
  <2>1. \A q \in Player \ online : partyOf[q] = None
    BY DEF NothingLingers
  <2>2. \A a \in Address : invites[a] \subseteq online
    BY DEF NothingLingers
  <2>3. ASSUME NEW a \in Address
        PROVE  {q \in online' : partyOf'[q] = a} = {q \in online : partyOf[q] = a}
    BY <2>1
  <2>4. ASSUME NEW q \in Player, NEW a \in Address
        PROVE  a \in invitedBy'[q] <=> q \in invites'[a] /\ q \in online'
    BY <2>2 DEF PartiesAreWhole, SidesAgree
  <2>5. QED
    BY <2>3, <2>4 DEF PartiesAreWhole, SidesAgree, Members
<1>3. PartiesServeSomebody' /\ SharedWithMembers' /\ NothingLingers'
  BY DEF PartiesAreWhole, PartiesServeSomebody, SharedWithMembers, NothingLingers,
         Members, Parties
<1>4. HearersArePresent'
  BY DEF HearersArePresent
<1>5. QED
  BY <1>1, <1>2, <1>3, <1>4 DEF PartiesAreWhole

\* What all requests keep, and what holds at the start.
LEMMA PartyStep == PartyInv /\ [PartyNext]_partyVars => PartyInv'
<1> SUFFICES ASSUME PartyInv, [PartyNext]_partyVars PROVE PartyInv'
  OBVIOUS
<1>1. ASSUME NEW p \in Player, NEW q \in Player, InviteToParty(p, q) PROVE PartyInv'
  BY <1>1, InvitePreserves
<1>2. ASSUME NEW p \in Player, NEW q \in Player, JoinParty(p, q) PROVE PartyInv'
  BY <1>2, JoinPreserves
<1>3. ASSUME NEW p \in Player, NEW q \in Player, RevokeInvitation(p, q) PROVE PartyInv'
  BY <1>3, RevokePreserves
<1>4. ASSUME NEW p \in Player, NEW q \in Player, PassLeadership(p, q) PROVE PartyInv'
  BY <1>4, PassLeadershipPreserves
<1>5. ASSUME NEW p \in Player, LeaveParty(p) PROVE PartyInv'
  BY <1>5, LeavePreserves
<1>6. ASSUME NEW p \in Player, partyOf[p] # None PROVE partyOf[p] \in Address
  BY <1>6 DEF PartyInv, PartyTypeOK
<1>7. ASSUME NEW p \in Player, UpdateSharedExperience(p) PROVE PartyInv'
  <2>1. partyOf[p] \in Address
    BY <1>6, <1>7 DEF UpdateSharedExperience
  <2>2. share[partyOf[p]] \in {"off", "active", "enabled"}
    BY <2>1 DEF PartyInv, PartyTypeOK
  <2>3. QED
    BY <1>7, <2>1, <2>2, SharingPreserves DEF UpdateSharedExperience
<1>8. ASSUME NEW p \in Player, NEW on \in BOOLEAN, SetSharedExperience(p, on)
      PROVE  PartyInv'
  <2>1. partyOf[p] \in Address
    BY <1>6, <1>8 DEF SetSharedExperience, Leads
  <2>2. (IF on THEN "active" ELSE "off") \in {"off", "active", "enabled"}
    OBVIOUS
  <2>3. QED
    BY <1>8, <2>1, <2>2, SharingPreserves DEF SetSharedExperience
<1>9. ASSUME NEW p \in Player, OpenPartyChannel(p) PROVE PartyInv'
  <2>1. partyOf[p] \in Address /\ p \in online
    BY <1>6, <1>9 DEF OpenPartyChannel
  <2>2. hears' \in [Address -> SUBSET online']
    BY <1>9, <2>1 DEF OpenPartyChannel, PartyInv, PartyTypeOK, PartiesAreWhole, HearersArePresent
  <2>3. QED
    BY <1>9, <2>2, HearingPreserves DEF OpenPartyChannel, PartyInv, PartyTypeOK
<1>10. ASSUME NEW p \in Player, ClosePartyChannel(p) PROVE PartyInv'
  <2>1. hears' \in [Address -> SUBSET online']
    BY <1>10 DEF ClosePartyChannel, PartyInv, PartyTypeOK, PartiesAreWhole, HearersArePresent
  <2>2. QED
    BY <1>10, <2>1, HearingPreserves DEF ClosePartyChannel, PartyInv, PartyTypeOK
<1>11. ASSUME NEW p \in Player, LogoutOfParty(p) PROVE PartyInv'
  BY <1>11, LogoutPreserves
<1>12. ASSUME NEW p \in Player, LoginToParty(p) PROVE PartyInv'
  <2>1. hears' \in [Address -> SUBSET online']
    BY <1>12 DEF LoginToParty, PartyInv, PartyTypeOK, PartiesAreWhole, HearersArePresent
  <2>2. QED
    BY <1>12, <2>1, HearingPreserves DEF LoginToParty, PartyInv, PartyTypeOK
<1>13. ASSUME NEW p \in Player, TakeOverInParty(p) PROVE PartyInv'
  <2>1. hears' \in [Address -> SUBSET online']
    BY <1>13 DEF TakeOverInParty, PartyInv, PartyTypeOK, PartiesAreWhole, HearersArePresent
  <2>2. QED
    BY <1>13, <2>1, HearingPreserves DEF TakeOverInParty, PartyInv, PartyTypeOK
<1>14. CASE UNCHANGED partyVars
  <2>1. hears' \in [Address -> SUBSET online']
    BY <1>14 DEF partyVars, PartyInv, PartyTypeOK, PartiesAreWhole, HearersArePresent
  <2>2. QED
    BY <1>14, <2>1, HearingPreserves DEF partyVars, PartyInv, PartyTypeOK
<1>15. QED
  BY <1>1, <1>2, <1>3, <1>4, <1>5, <1>7, <1>8, <1>9, <1>10, <1>11, <1>12, <1>13, <1>14
     DEF PartyNext

LEMMA PartyStart == online = Player /\ PartyInit => PartyInv
<1> SUFFICES ASSUME online = Player, PartyInit PROVE PartyInv
  OBVIOUS
<1>1. PartyTypeOK
  BY EmptyRoster DEF PartyInit, PartyTypeOK
<1>2. SidesAgree
  BY EmptyRoster DEF PartyInit, SidesAgree, Members
<1>3. PartiesServeSomebody /\ SharedWithMembers /\ HearersArePresent
  BY DEF PartyInit, PartiesServeSomebody, SharedWithMembers, HearersArePresent, Parties
<1>4. NothingLingers
  BY EmptyRoster DEF PartyInit, NothingLingers, Members
<1>5. QED
  BY <1>1, <1>2, <1>3, <1>4 DEF PartyInv, PartiesAreWhole

\* Players and parties name each other on both sides, no party outlasts its
\* use, a leader shares with nobody but members, and a party's channel points
\* only to players in the game: Party::join, leave, revoke and disband and
\* Player::onCreatureDisappear together keep it so.
THEOREM PartiesSafe == PartySpec => []PartiesAreWhole
<1>1. PartyInv => PartiesAreWhole
  BY DEF PartyInv
<1>2. QED
  BY <1>1, PartyStart, PartyStep, PTL DEF PartySpec

=============================================================================
