----------------------------- MODULE Creatures -----------------------------
(***************************************************************************)
(* The lives of creatures: the vectors of Game::checkCreatures, the target *)
(* lists of monsters, masters and summons, and the references that keep    *)
(* their objects (Src/game.cpp, creature.cpp, monster.cpp).                *)
(*                                                                         *)
(* A handler runs many functions that change several creatures, each in    *)
(* turn: they are operators from a world to a world.  Left out are friend  *)
(* lists and guardians, which are kept like target lists and summons.      *)
(***************************************************************************)
EXTENDS Players, Integers, FiniteSets, FiniteSetsExt, SequencesExt

CONSTANTS
  Hunter,    \* bound: the players who are about
  Monster    \* bound: the monsters that exist at a time

ASSUME CreaturesAssumption ==
  /\ Hunter \subseteq Player
  /\ None \notin Monster /\ Player \intersect Monster = {}
  /\ IsFiniteSet(Hunter \union Monster)

Creature == Hunter \union Monster

VARIABLES
  world,
  hurried    \* history: a monster was removed between its death and onDeath

creatureVars == <<online, world, hurried>>

\* An object that does not exist (any more); new Monster and new Player.
CreaturesInit ==
  /\ hurried = FALSE
  /\ world = [
    stage |-> [c \in Creature |-> "free"],        \* "placed" on the map, "removed"
    dead |-> [c \in Creature |-> FALSE],          \* health is 0
    checked |-> [c \in Creature |-> FALSE],
    vector |-> [c \in Creature |-> "out"],        \* checkVector: "new", to be added
    targets |-> [m \in Monster |-> {}],           \* targetList
    idle |-> [m \in Monster |-> TRUE],
    master |-> [m \in Monster |-> None],
    summons |-> [c \in Creature |-> {}],
    refs |-> [c \in Creature |-> 0],
    releasing |-> {}]                             \* releaseThings

Placed(w) == {c \in Creature : w.stage[c] = "placed"}
Alive(w) == {c \in Placed(w) : ~w.dead[c]}

-----------------------------------------------------------------------------
(* References.                                                             *)

Refer(w, C, n) ==
  IF C = {} THEN w
  ELSE [w EXCEPT !.refs = [c \in Creature |-> IF c \in C THEN @[c] + n ELSE @[c]]]

\* unRef deletes what nobody refers to; a destructor releases in turn.
Unwanted(w) == {c \in Creature : w.stage[c] = "removed" /\ w.refs[c] <= 0}
Destroy(w) ==
  LET D == Unwanted(w)
      Freed(f, nothing) == [c \in DOMAIN f |-> IF c \in D THEN nothing ELSE f[c]]
      Held(c) == {d \in D : c \in w.summons[d]}
                   \union {d \in D \intersect Monster : c \in w.targets[d]}
  IN [w EXCEPT
       !.stage = Freed(@, "free"), !.dead = Freed(@, FALSE),
       !.targets = Freed(@, {}), !.summons = Freed(@, {}), !.idle = Freed(@, TRUE),
       !.master = [m \in Monster |->
          IF m \in D \/ @[m] \in D THEN None ELSE @[m]],
       !.refs = [c \in Creature |->
          IF c \in D THEN 0 ELSE @[c] - Cardinality(Held(c))]]
Settled(w) ==
  IF Unwanted(w) = {} THEN w
  ELSE FoldSet(LAMBDA c, v : IF Unwanted(v) = {} THEN v ELSE Destroy(v), w, Creature)

\* Game::cleanup.
Cleanup(w) == [Refer(w, w.releasing, -1) EXCEPT !.releasing = {}]

-----------------------------------------------------------------------------
(* Who is checked, and who is idle.                                        *)

AddCreatureCheck(w, c) ==
  IF w.stage[c] = "removed" THEN w
  ELSE IF w.vector[c] # "out" THEN [w EXCEPT !.checked[c] = TRUE]
  ELSE [Refer(w, {c}, 1) EXCEPT !.checked[c] = TRUE, !.vector[c] = "new"]

RemoveCreatureCheck(w, c) == [w EXCEPT !.checked[c] = FALSE]

ClearUnreleased(w, m) == [w EXCEPT !.targets[m] = {}]

ClearTargetList(w, m) == [Refer(w, w.targets[m], -1) EXCEPT !.targets[m] = {}]

\* As if going idle only stopped the checks.
SetIdleOnly(w, m, idle) ==
  IF w.stage[m] = "removed" \/ w.dead[m] THEN w
  ELSE IF idle THEN RemoveCreatureCheck([w EXCEPT !.idle[m] = TRUE], m)
  ELSE AddCreatureCheck([w EXCEPT !.idle[m] = FALSE], m)

\* A dead or removed monster keeps the state it has.
SetIdle(w, m, idle) ==
  IF w.stage[m] = "removed" \/ w.dead[m] THEN w
  ELSE IF idle
  THEN RemoveCreatureCheck(ClearTargetList([w EXCEPT !.idle[m] = TRUE], m), m)
  ELSE AddCreatureCheck([w EXCEPT !.idle[m] = FALSE], m)

\* updateIdleStatus.  Those in asleep have no condition and, if they are
\* summons, a master who is out of sight or idle.
UpdateIdle(w, m, asleep) ==
  SetIdle(w, m, m \in asleep /\ (w.master[m] # None \/ w.targets[m] = {}))

-----------------------------------------------------------------------------
(* What monsters see.                                                      *)

IsOpponent(w, m, c) ==
  \/ c \in Hunter
  \/ w.master[m] \in Hunter \/ w.master[c] \in Hunter

Found(w, m, c, asleep) ==
  UpdateIdle(IF ~IsOpponent(w, m, c) \/ c \in w.targets[m] THEN w
             ELSE [Refer(w, {c}, 1) EXCEPT !.targets[m] = @ \union {c}],
             m, asleep)

\* onCreatureLeave.  Who is no opponent any more is not looked for.
Left(w, m, c, asleep) ==
  IF ~IsOpponent(w, m, c) \/ c \notin w.targets[m] THEN w
  ELSE LET v == [Refer(w, {c}, -1) EXCEPT !.targets[m] = @ \ {c}]
       IN IF v.targets[m] = {} THEN UpdateIdle(v, m, asleep) ELSE v

FoundBy(w, M, c, asleep) == FoldSet(LAMBDA m, v : Found(v, m, c, asleep), w, M)
LeftBy(w, M, c, asleep) == FoldSet(LAMBDA m, v : Left(v, m, c, asleep), w, M)

\* updateTargetList of a monster that sees V.
Look(w, m, V, asleep) ==
  LET gone == {c \in w.targets[m] : w.dead[c] \/ c \notin V}
      v == [Refer(w, gone, -1) EXCEPT !.targets[m] = @ \ gone]
  IN UpdateIdle(FoldSet(LAMBDA c, u : Found(u, m, c, asleep), v, V), m, asleep)

\* placeCreature, where V see each other.
Place(w, c, V, asleep) ==
  LET v == Refer([w EXCEPT !.stage[c] = "placed"], {c}, 1)
      u == IF c \in Monster THEN Look(v, c, V, asleep) ELSE v
  IN AddCreatureCheck(FoundBy(u, V \intersect Monster, c, asleep), c)

-----------------------------------------------------------------------------
(* Masters and summons.                                                    *)

AddSummon(w, c, m) ==
  [Refer(w, {m}, 1) EXCEPT !.master[m] = c, !.summons[c] = @ \union {m}]

\* As if the summon were not told.
RemoveSummonSilently(w, c, m) ==
  IF m \notin w.summons[c] THEN w
  ELSE [Refer(w, {m}, -1) EXCEPT !.summons[c] = @ \ {m}]

RemoveSummon(w, c, m) ==
  IF m \notin w.summons[c] THEN w
  ELSE [Refer(w, {m}, -1) EXCEPT !.master[m] = None, !.summons[c] = @ \ {m}]

\* As if it did not.
KillAsleep(w, c) == [w EXCEPT !.dead[c] = TRUE]

\* changeHealth wakes a monster first.
Kill(w, c) ==
  [(IF c \in Monster THEN SetIdle(w, c, FALSE) ELSE w) EXCEPT !.dead[c] = TRUE]

DestroySummons(w, c) ==
  FoldSet(LAMBDA m, v : RemoveSummon(Kill(v, m), c, m), w, w.summons[c])

-----------------------------------------------------------------------------
(* Leaving the map.                                                        *)

OffTheMap(w, c) ==
  [(IF c \in Monster THEN SetIdle(w, c, TRUE) ELSE w) EXCEPT !.stage[c] = "removed"]
LostByMaster(w, c) ==
  IF c \in Monster /\ w.master[c] \in Placed(w) THEN RemoveSummon(w, w.master[c], c) ELSE w
Releasing(w, c) ==
  RemoveCreatureCheck([w EXCEPT !.releasing = @ \union {c}], c)

\* removeCreature, but for the summons.
Disappear(w, c, asleep) ==
  IF w.stage[c] # "placed" THEN w
  ELSE LET left == LeftBy(w, (Placed(w) \intersect Monster) \ {c}, c, asleep)
       IN Releasing(LostByMaster(OffTheMap(left, c), c), c)

\* Summons have no summons.
Remove2(w, c, asleep) ==
  IF w.stage[c] # "placed" THEN w
  ELSE FoldSet(LAMBDA m, u : Disappear(u, m, asleep), Disappear(w, c, asleep), w.summons[c])

\* As if the target list were left to the destructor.
DieHolding(w, c, asleep) ==
  IF c \in Hunter THEN Remove2(w, c, asleep)
  ELSE LET v == IF w.master[c] = None THEN w ELSE RemoveSummon(w, w.master[c], c)
       IN Remove2(DestroySummons(v, c), c, asleep)

\* onDeath.
Die(w, c, asleep) ==
  IF c \in Hunter THEN Remove2(w, c, asleep)
  ELSE LET v == IF w.master[c] = None THEN w ELSE RemoveSummon(w, w.master[c], c)
       IN Remove2(ClearTargetList(DestroySummons(v, c), c), c, asleep)

-----------------------------------------------------------------------------
(* The tasks.                                                              *)

Becomes(w) == world' = Settled(w)

\* A monster of a spawn, a raid or a script.
PlaceMonster(m, V, asleep) ==
  /\ world.stage[m] = "free"
  /\ Becomes(Place(world, m, V, asleep))
  /\ UNCHANGED <<online, hurried>>

LoginCreature(p, V, asleep) ==
  /\ world.stage[p] = "free"
  /\ Becomes(Place(world, p, V, asleep))
  /\ online' = online \union {p} /\ UNCHANGED hurried

PlaceSummon(p, m, V, asleep) ==
  /\ p \in Alive(world) /\ world.stage[m] = "free"
  /\ Becomes(Place(AddSummon(world, p, m), m, V, asleep))
  /\ UNCHANGED <<online, hurried>>

\* A step of checkCreatureWalk, after which c sees V and V has found c.
Walk(c, V, asleep) ==
  /\ c \in Alive(world)
  /\ LET others == Monster \ {c}
         w == LeftBy(world, (others \intersect Placed(world)) \ V, c, asleep)
         v == FoundBy(w, others \intersect V, c, asleep)
     IN Becomes(Cleanup(IF c \in Monster THEN Look(v, c, V, asleep) ELSE v))
  /\ UNCHANGED <<online, hurried>>

Harm(c, lethal) ==
  /\ c \in Alive(world)
  /\ Becomes(IF lethal THEN Kill(world, c)
             ELSE IF c \in Monster THEN SetIdle(world, c, FALSE) ELSE world)
  /\ UNCHANGED <<online, hurried>>

\* The monsters that see it look about again.
ConvinceCreature(p, m, V, asleep) ==
  /\ p \in Alive(world) /\ m \in Placed(world)
  /\ world.master[m] \notin Hunter
  /\ LET old == world.master[m]
         w == IF old = None THEN world ELSE RemoveSummon(world, old, m)
         v == AddSummon(DestroySummons(w, m), p, m)
         u == UpdateIdle(Look(v, m, V, asleep), m, asleep)
     IN Becomes(FoldSet(LAMBDA o, t : Look(t, o, t.targets[o] \union {m}, asleep),
                        u, V \intersect Monster))
  /\ UNCHANGED <<online, hurried>>

\* A player earns a black skull.
BlackSkull(p) ==
  /\ p \in Placed(world)
  /\ Becomes(DestroySummons(world, p))
  /\ UNCHANGED <<online, hurried>>

\* A logout, a kick, or a script.
RemoveCreature(c, asleep) ==
  /\ c \in Placed(world)
  /\ Becomes(Remove2(world, c, asleep))
  /\ hurried' = (hurried \/ (c \in Monster /\ world.dead[c]))
  /\ online' = online \ {c}

\* What becomes of c in checkCreatures.  Those who leave despawn or are logged
\* out by onThink; a dead player of them loses nothing, is healed and stays.
\* Whose death a script denies stays as it is, like those of other vectors.
Check(w, c, leaves, asleep) ==
  IF ~w.checked[c]
  THEN [Refer(w, {c}, -1) EXCEPT !.vector[c] = "out"]
  ELSE IF w.dead[c] THEN
    IF c \in Hunter /\ leaves THEN [w EXCEPT !.dead[c] = FALSE]
    ELSE Die(w, c, asleep)
  ELSE IF leaves THEN Remove2(w, c, asleep)
  ELSE IF c \in Hunter THEN w
  ELSE UpdateIdle(w, c, asleep)

\* checkCreatures, of the vector that holds those of the sequence check.
CheckCreatures(check, leave, asleep) ==
  LET w == [world EXCEPT !.vector =
              [c \in Creature |-> IF @[c] = "new" THEN "in" ELSE @[c]]]
      v == FoldLeft(LAMBDA u, c : Check(u, c, leave, asleep), w, check)
  IN /\ \A c \in Range(check) : w.vector[c] = "in"
     /\ Becomes(Cleanup(v))
     /\ online' = {p \in online : v.stage[p] = "placed"}
     /\ UNCHANGED hurried

\* onThinkDefense of a monster that is no summon.
CastSummon(c, m, V, asleep) ==
  /\ c \in Alive(world) \intersect Monster /\ world.master[c] = None
  /\ world.stage[m] = "free"
  /\ Becomes(Place(AddSummon(world, c, m), m, V, asleep))
  /\ UNCHANGED <<online, hurried>>

\* Bounds: monsters fall asleep together; those who may leave do so together;
\* two of a vector at a time.
CreaturesNext ==
  \/ \E V \in SUBSET Placed(world), asleep \in {{}, Monster} :
       \/ \E m \in Monster :
            \/ PlaceMonster(m, V, asleep)
            \/ \E p \in V \intersect Hunter :
                 PlaceSummon(p, m, V, asleep) \/ ConvinceCreature(p, m, V \ {m}, asleep)
            \/ \E c \in V \intersect Monster : CastSummon(c, m, V, asleep)
       \/ \E p \in Hunter : LoginCreature(p, V, asleep)
       \/ \E c \in Creature \ V : Walk(c, V, asleep)
  \/ \E p \in Hunter : BlackSkull(p)
  \/ \E c \in Creature, lethal \in BOOLEAN : Harm(c, lethal)
  \/ \E asleep \in {{}, Monster} :
       \/ \E c \in Creature : RemoveCreature(c, asleep)
       \/ \E check \in BoundedSeq({c \in Creature : world.vector[c] # "out"}, 2) :
            \E leave \in BOOLEAN : IsInjective(check) /\ CheckCreatures(check, leave, asleep)

CreaturesSpec == online = {} /\ CreaturesInit /\ [][CreaturesNext]_creatureVars

-----------------------------------------------------------------------------
(* Properties.                                                             *)

\* The types of the state.
CreaturesTypeOK ==
  /\ world.stage \in [Creature -> {"free", "placed", "removed"}]
  /\ world.vector \in [Creature -> {"out", "new", "in"}]
  /\ world.targets \in [Monster -> SUBSET Creature]
  /\ world.master \in [Monster -> Creature \union {None}]
  /\ world.summons \in [Creature -> SUBSET Monster]
  /\ world.refs \in [Creature -> Nat]
  /\ online = Placed(world) \intersect Hunter
  /\ hurried \in BOOLEAN
  /\ \A m \in Monster : world.master[m] # None => world.summons[m] = {}

\* The references of every object are those that are kept: by the map, the
\* vectors, the target lists, its master and what is to be released.
Holders(w, c) ==
  Cardinality({m \in Monster : c \in w.targets[m]})
    + Cardinality({d \in Creature : c \in w.summons[d]})
    + (IF w.vector[c] = "out" THEN 0 ELSE 1)
    + (IF w.stage[c] = "placed" \/ c \in w.releasing THEN 1 ELSE 0)
ReferencesAreCounted ==
  \A c \in Creature : world.refs[c] = Holders(world, c)
     /\ (world.refs[c] = 0 <=> world.stage[c] = "free")

\* A summon points to its master without a reference: the master's object is
\* there, and knows of it.
MastersKnowTheirSummons ==
  \A m \in Monster, c \in Creature :
    world.master[m] = c <=> m \in world.summons[c]

\* All who are on the map without health will be found: checkCreatures looks
\* after them, though they were idle, or their master fell before them.
DeadAreChecked ==
  \A c \in Placed(world) :
    world.dead[c] \/ c \in Hunter => world.checked[c] /\ world.vector[c] # "out"

\* A monster that is not checked has nobody to attack: whoever has targets, by
\* their coming, its own walk or a convincing, is awake.
IdlersHaveNoTargets ==
  \A m \in Alive(world) \intersect Monster :
    /\ world.idle[m] => world.targets[m] = {}
    /\ ~world.idle[m] => world.checked[m] /\ world.vector[m] # "out"

\* checkCreatures looks after everyone who still has something to do or to
\* suffer.
MonstersAreWatched == DeadAreChecked /\ IdlersHaveNoTargets

\* No objects keep each other for ever: among any that have left the map, some
\* is kept from outside, or will be released.  A monster that a script removes
\* before its onDeath is the exception.
NothingLeaks ==
  hurried \/
  \A D \in (SUBSET {c \in Creature : world.stage[c] = "removed"}) \ {{}} :
    \E c \in D :
      \/ c \in world.releasing \/ world.vector[c] # "out"
      \/ \E d \in Creature \ D : c \in world.summons[d]
      \/ \E m \in Monster \ D : c \in world.targets[m]

\* No creature's object is deleted too early or kept for ever, counted and
\* uncounted pointers together.
ReferencesAreExact ==
  /\ ReferencesAreCounted
  /\ MastersKnowTheirSummons
  /\ NothingLeaks

\* Those on the map are looked after, and those off it are let go
\* (Game::checkCreatures, Monster::onThink, Game::freeThing).
CreaturesAreKept == MonstersAreWatched /\ ReferencesAreExact

=============================================================================
