------------------------------- MODULE Balls -------------------------------
(***************************************************************************)
(* The balls of a player and the pokémon that is out of one of them: using *)
(* a ball (actions/scripts/pokemon/goback.lua), the two bars that change   *)
(* balls (talkactions/scripts/pokemon/pbar.lua and cdbar.lua), and what    *)
(* death, logout, revives and nurses do to a ball.  None of these is told  *)
(* which ball a pokémon came from: they write to the ball in the slot of   *)
(* the feet, or to the one that was used.  A ball is its content, which a  *)
(* change of balls moves from item to item, so it is named by its pokémon. *)
(* Left out: duels, teams, controlled minds, evolution, mounts, nested     *)
(* bags and a bag without room.                                            *)
(***************************************************************************)
EXTENDS Naturals, FiniteSets, SequencesExt

CONSTANTS
  Pokemon,       \* the pokémon of the player, each in a ball of its own
  Spare,         \* bound: the slots that may hold nothing else
  MaxOut         \* bound: pokémon out at a time

\* slots_t: those that take a ball, in the order in which a free one is looked for.
Slots == <<"right", "left", "feet", "ammo">>

ASSUME BallsAssumption == Spare \subseteq ToSet(Slots) \ {"feet"} /\ MaxOut \in Nat \ {0}

VARIABLE team

\* later: the changes of balls that are due; history: tidy, no ball in use has
\* left the feet since all was settled.
BallsInit ==
  \E vacant \in SUBSET Spare :
    team = [vacant |-> vacant \union {"feet"},
            place |-> [p \in Pokemon |-> "bag"],
            ball |-> [p \in Pokemon |-> "alive"],   \* alive, inuse or dead
            fit |-> [p \in Pokemon |-> TRUE],       \* its attribute hp is not 0
            out |-> <<>>, later |-> <<>>, tidy |-> TRUE]

Held(t, slot) == {p \in Pokemon : t.place[p] = slot}
InUse(t) == {p \in Pokemon : t.ball[p] = "inuse"}
Exhausted == \E i \in DOMAIN team.later : team.later[i].first

HealthShown(t) == \A p \in Pokemon : t.ball[p] = "dead" <=> ~t.fit[p]
AllBack(t) == t.out = <<>> /\ InUse(t) = {} /\ HealthShown(t)
Tidied(t) ==
  [t EXCEPT !.tidy = InUse(t) \subseteq Held(t, "feet") /\ (@ \/ AllBack(t))]
Turns(t) == team' = Tidied(t)

\* doPlayerAddItem, internalPlayerAddItem: the first free slot, or the bag.
Free(t) == {s \in t.vacant : Held(t, s) = {}}
FirstFree(t) ==
  IF Free(t) = {} THEN "bag" ELSE Slots[Min({i \in DOMAIN Slots : Slots[i] \in Free(t)})]
TakenOff(t, p) == [t EXCEPT !.place[p] = "nowhere"]
Added(t, p) == [t EXCEPT !.place[p] = FirstFree(t)]

Faint(t, p) == [t EXCEPT !.ball[p] = "dead", !.fit[p] = FALSE]
Heal(t, p) == [t EXCEPT !.ball[p] = "alive", !.fit[p] = TRUE]

\* doReturnPokemon into the ball of p: it takes the health of the first one out.
Recall(t, p) == [Heal(t, p) EXCEPT !.out = Tail(@)]

\* doSummonMonster and what follows it: a pokémon that found no room leaves the
\* ball in use if another one is out, which then takes the health of this ball.
Summon(t, p, placed) ==
  LET out == IF placed THEN Append(t.out, p) ELSE t.out
  IN  IF out = <<>> THEN t ELSE [t EXCEPT !.out = out, !.ball[p] = "inuse"]

Go(t, p, placed) == IF t.fit[p] THEN Summon(t, p, placed) ELSE Faint(t, p)
RoomFor(placed, t) == placed => Len(t.out) < MaxOut

-----------------------------------------------------------------------------
\* goback.lua, onUse.  A pokémon that may not return (it fought a player, is
\* invisible) or not go (level, clan, equals) leaves all as it is.
UseBall(p, placed) ==
  /\ ~Exhausted /\ RoomFor(placed, team)
  /\ \/ team.ball[p] = "inuse" /\ Turns(IF team.out = <<>> THEN Faint(team, p)
                                          ELSE Recall(team, p))
     \/ team.ball[p] = "alive" /\ team.place[p] = "feet" /\ Turns(Go(team, p, placed))

\* volta of pbar.lua for the ball at the feet: back, and out if init.
Volta(t, init, returns, placed) ==
  LET back(p) == IF t.out = <<>> THEN Faint(t, p) ELSE IF returns THEN Recall(t, p) ELSE t
      go(p) == Go(t, p, placed /\ t.out = <<>>)
      turned(p) == IF t.ball[p] = "inuse" THEN back(p)
                   ELSE IF t.ball[p] = "alive" /\ init THEN go(p) ELSE t
  IN  IF Exhausted \/ Held(t, "feet") = {} THEN t
      ELSE turned(CHOOSE p \in Pokemon : t.place[p] = "feet")

\* Game::doMoveBar: both balls are taken out and added anew, wherever there is a
\* free slot.  A ball of the ammunition changes with that of the feet by two
\* moves, of which a player who may not act yet keeps only the second, for later.
MoveBar(t, f, q, acts) ==
  LET off == TakenOff(TakenOff(t, f), q)
  IN  IF t.place[q] = "bag" THEN Added(Added(off, q), f)
      ELSE IF t.place[q] # "ammo" THEN t
      ELSE IF acts THEN [t EXCEPT !.place[f] = "ammo", !.place[q] = "feet"]
      ELSE Added(Added(off, f), q)

\* pbar.lua, onSay with the number of q in the bar.
Bar(q, returns, placed, acts) ==
  \E f \in Held(team, "feet") :
    LET changed == MoveBar(Volta(team, FALSE, returns, placed), f, q, acts)
    IN  /\ RoomFor(placed, team)
        /\ Turns(Volta(IF f = q THEN team ELSE changed, TRUE, returns, placed))

\* playerMoveItem: only what comes out of the bag changes places with a ball.
MoveBallOnto(p, to) ==
  /\ to \in team.vacant \union {"bag"} /\ team.place[p] # to
  /\ team.place[p] # "bag" /\ to # "bag" => Held(team, to) = {}
  /\ Turns([team EXCEPT !.place[p] = to])
MoveBall(p, to) ==
  /\ to \in team.vacant \union {"bag"} /\ team.place[p] # to
  /\ team.place[p] # "bag" /\ to # "bag" => Held(team, to) = {}
  /\ Turns([team EXCEPT !.place = [q \in Pokemon |->
                IF q = p THEN to
                ELSE IF @[q] = to /\ to # "bag" THEN "bag" ELSE @[q]]])

\* cdbar.lua, /goaction: return after 100 ms and change after 1.2 s, or change
\* after 100 ms; nothing else is done with balls for at least the first of them.
GoAction(q) ==
  /\ team.later = <<>> /\ (team.out # <<>> => Held(team, "feet") # {})
  /\ LET event(what, p, first) == [what |-> what, of |-> p, first |-> first]
         change == IF team.place[q] = "feet" THEN <<>> ELSE <<event("change", q, FALSE)>>
     IN  team' = [team EXCEPT !.later =
                    IF team.out = <<>> THEN <<event("change", q, TRUE)>>
                    ELSE <<event("return", Head(team.out), TRUE)>> \o change]

\* doReturnPokemon into the ball that is then at the feet.
ReturnLater(returns) ==
  /\ team.later # <<>> /\ Head(team.later).what = "return"
  /\ LET done == [team EXCEPT !.later = Tail(@)]
         p == Head(team.later).of
         gone == [done EXCEPT !.out = RemoveAt(@, CHOOSE i \in DOMAIN @ : @[i] = p)]
     IN  Turns(IF ~returns \/ p \notin ToSet(team.out) THEN done
                 ELSE IF Held(team, "feet") = {} THEN gone
                 ELSE Heal(gone, CHOOSE f \in Pokemon : team.place[f] = "feet"))

\* doChangeBalls, unless the bar was numbered anew; refused: doGoPokemon.
ChangeLater(found, returns, refused, placed) ==
  /\ team.later # <<>> /\ Head(team.later).what = "change" /\ RoomFor(placed, team)
  /\ LET q == Head(team.later).of
         done == [team EXCEPT !.later = Tail(@)]
         equal == team.place[q] = "feet"
         swapped == [done EXCEPT !.place = [p \in Pokemon |->
                       IF p = q THEN "feet" ELSE IF @[p] = "feet" THEN "bag" ELSE @[p]]]
         put == IF equal \/ Held(team, "feet") # {} THEN swapped ELSE Added(TakenOff(done, q), q)
     IN  Turns(
           IF \/ ~found \/ team.place[q] \notin {"feet", "bag"}
              \/ equal /\ (~Head(team.later).first \/ (team.out # <<>> /\ ~returns))
           THEN done
           ELSE IF equal /\ team.out # <<>> THEN Recall(done, q)
           ELSE IF refused \/ put.place[q] # "feet" THEN put
           ELSE Go(put, q, placed))

-----------------------------------------------------------------------------
\* goback.lua, onDeath of the i-th pokémon out: the others of a team go with it.
SummonDeathUnnoticed(i) == Turns([team EXCEPT !.out = RemoveAt(@, i)])
SummonDeath(i) ==
  LET rest == IF Held(team, "feet") = {} THEN RemoveAt(team.out, i)
              ELSE IF i = 1 THEN <<>> ELSE <<Head(team.out)>>
      t == [team EXCEPT !.out = rest]
  IN  Turns(IF Held(t, "feet") = {} THEN t
              ELSE Faint(t, CHOOSE f \in Pokemon : t.place[f] = "feet"))

\* goback.lua, onLogout; who leaves takes with him every pokémon that is out.
LogoutWithPokemon ==
  LET t == [team EXCEPT !.out = <<>>, !.later = <<>>]
  IN  Turns(IF team.out = <<>> \/ Held(t, "feet") = {} THEN t
              ELSE Heal(t, CHOOSE f \in Pokemon : t.place[f] = "feet"))

\* onPokeHealthChange: the ball at the feet shows the health of the first one out.
HealthChange ==
  /\ team.out # <<>>
  /\ \E f \in Held(team, "feet") : Turns([team EXCEPT !.fit[f] = TRUE])

\* revive.lua: not on a ball in use.
Revive(p) == team.ball[p] \in {"alive", "dead"} /\ Turns(Heal(team, p))

\* heal.lua: the balls in the bag, and the one at the feet unless one is out.
NurseHealsBalls ==
  LET cared(p) == team.place[p] = "bag" \/ (team.place[p] = "feet" /\ team.out = <<>>)
  IN  Turns([team EXCEPT
                 !.ball = [p \in Pokemon |-> IF cared(p) THEN "alive" ELSE @[p]],
                 !.fit = [p \in Pokemon |-> cared(p) \/ @[p]]])

BallsNext ==
  \/ \E p \in Pokemon, placed \in BOOLEAN : UseBall(p, placed)
  \/ \E q \in Pokemon, returns, placed, acts \in BOOLEAN : Bar(q, returns, placed, acts)
  \/ \E p \in Pokemon, to \in ToSet(Slots) \union {"bag"} : MoveBall(p, to)
  \/ \E q \in Pokemon : GoAction(q) \/ Revive(q)
  \/ \E returns \in BOOLEAN : ReturnLater(returns)
  \/ \E found, returns, refused, placed \in BOOLEAN :
       ChangeLater(found, returns, refused, placed)
  \/ \E i \in DOMAIN team.out : SummonDeath(i)
  \/ LogoutWithPokemon \/ HealthChange \/ NurseHealsBalls

BallsSpec == BallsInit /\ [][BallsNext]_team

-----------------------------------------------------------------------------
BallsTypeOK ==
  /\ team.place \in [Pokemon -> ToSet(Slots) \union {"bag"}]
  /\ team.ball \in [Pokemon -> {"alive", "inuse", "dead"}]
  /\ team.fit \in [Pokemon -> BOOLEAN] /\ team.tidy \in BOOLEAN
  /\ team.out \in SeqOf(Pokemon, MaxOut) /\ Len(team.later) <= 2

\* Whatever the bars change, each slot holds one ball.
OneBallASlot ==
  \A p, q \in Pokemon : p # q /\ team.place[p] = team.place[q] => team.place[p] = "bag"

\* As long as no ball in use leaves the feet, balls and pokémon tell the same
\* story: one pokémon is out, of the one ball in use, at the feet; no fainted one
\* is out, and what the balls show of their health is true.  Every way in and out
\* keeps it, with the events of the bar due in between.
BallsTellTheTruth ==
  team.tidy =>
    /\ Len(team.out) <= 1 /\ InUse(team) = ToSet(team.out)
    /\ InUse(team) \subseteq Held(team, "feet") /\ HealthShown(team)

\* A player's pokémon are each in one place and in one state (goback.lua,
\* pbar.lua, cdbar.lua: the calls of setPhysicalPokemonBall and doRemoveCreature).
BallsAgree == OneBallASlot /\ BallsTellTheTruth

=============================================================================
