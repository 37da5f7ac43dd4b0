------------------------------- MODULE Spawns -------------------------------
(***************************************************************************)
(* One spawn (Src/spawn.cpp): its blocks, each with a monster to keep      *)
(* there, and the check that refills them.  Monsters keep a plain pointer  *)
(* to their spawn.                                                         *)
(***************************************************************************)
EXTENDS Players, Naturals, FiniteSets

CONSTANTS
  Block,         \* the keys of spawnMap
  Beast,         \* bound: the monsters that exist at a time
  RateSpawn      \* rateSpawn: monsters placed by one check

ASSUME SpawnsAssumption ==
  /\ None # "stray" /\ {None, "stray"} \intersect Block = {}
  /\ RateSpawn \in Nat \ {0}
  /\ IsFiniteSet(Block) /\ IsFiniteSet(Beast)

VARIABLES
  life,          \* of each monster: "unborn", "alive", "removed"
  key,           \* its key in spawnedMap, "stray" for 0, None if it is not there
  atSpawn,       \* the monsters with Monster::spawn
  checkSpawn,    \* checkSpawnEvent is not 0
  started,       \* "no", "yes", and "over" when clear has deleted the spawn
  neglected      \* history: a block was vacated in a way that starts no check

spawnVars == <<online, life, key, atSpawn, checkSpawn, started, neglected>>

Spawned == {m \in Beast : key[m] # None}
Taken(b) == \E m \in Beast : key[m] = b

SpawnsInit ==
  /\ life = [m \in Beast |-> "unborn"] /\ key = [m \in Beast |-> None]
  /\ atSpawn = {} /\ checkSpawn = FALSE
  /\ started = "no" /\ neglected = FALSE

\* spawnMonster of the blocks B, each with a monster of its own, f[b].
Spawn(f, B, k) ==
  LET New == {f[b] : b \in B}
      BlockOf(m) == CHOOSE b \in B : f[b] = m
  IN /\ New \subseteq {m \in Beast : life[m] = "unborn"}
     /\ \A b, c \in B : f[b] = f[c] => b = c
     /\ life' = [m \in Beast |-> IF m \in New THEN "alive" ELSE life[m]]
     /\ key' = [m \in Beast |-> IF m \in New THEN BlockOf(m) ELSE k[m]]
     /\ atSpawn' = atSpawn \union New

\* Spawns::startup.  There may be no room for a monster; no check is started.
StartupSpawn ==
  /\ started = "no" /\ started' = "yes"
  /\ \E B \in SUBSET Block : \E f \in [B -> Beast] :
       Spawn(f, B, key) /\ neglected' = (B # Block)
  /\ UNCHANGED <<online, checkSpawn>>

\* As if the blocks were not asked for their monster.
CheckSpawnTwice ==
  /\ started = "yes" /\ checkSpawn
  /\ \E B \in SUBSET Block : \E f \in [B -> Beast] : Spawn(f, B, key)
  /\ checkSpawn' = (Cardinality(Spawned') < Cardinality(Block))
  /\ neglected' = FALSE
  /\ UNCHANGED <<online, started>>

\* checkSpawn: the removed are forgotten, those out of the zone become strays,
\* and the blocks without monster whose interval is over are filled.
CheckSpawn ==
  /\ started = "yes" /\ checkSpawn
  /\ \E Out \in SUBSET {m \in Spawned : life[m] = "alive"} :
       LET k == [m \in Beast |->
             IF life[m] = "removed" THEN None
             ELSE IF m \in Out THEN "stray" ELSE key[m]]
           Vacant == {b \in Block : \A m \in Beast : k[m] # b}
       IN \E B \in SUBSET Vacant : \E f \in [B -> Beast] :
            /\ Cardinality(B) <= RateSpawn
            /\ Spawn(f, B, k)
  /\ checkSpawn' = (Cardinality(Spawned') < Cardinality(Block))
  /\ neglected' = FALSE
  /\ UNCHANGED <<online, started>>

\* As if the spawn were not told.
VanishUnnoticed(m) ==
  /\ life[m] = "alive"
  /\ life' = [life EXCEPT ![m] = "removed"]
  /\ UNCHANGED <<online, key, atSpawn, checkSpawn, started, neglected>>

\* Monster::onCreatureDisappear: killed, caught, despawned.
Vanish(m) ==
  /\ life[m] = "alive"
  /\ life' = [life EXCEPT ![m] = "removed"]
  /\ checkSpawn' = (checkSpawn \/ m \in atSpawn)
  /\ UNCHANGED <<online, key, atSpawn, started, neglected>>

\* convinceCreature: removeMonster, without a check.
Convince(m) ==
  /\ life[m] = "alive" /\ m \in atSpawn
  /\ key' = [key EXCEPT ![m] = None]
  /\ atSpawn' = atSpawn \ {m}
  /\ neglected' = TRUE
  /\ UNCHANGED <<online, life, checkSpawn, started>>

\* The object of a removed monster is deleted when nobody refers to it.
Forget(m) ==
  /\ life[m] = "removed" /\ m \notin Spawned
  /\ life' = [life EXCEPT ![m] = "unborn"]
  /\ atSpawn' = atSpawn \ {m}
  /\ UNCHANGED <<online, key, checkSpawn, started, neglected>>

\* As if the monsters kept their pointer.
ClearEventOnly ==
  /\ started = "yes" /\ started' = "over"
  /\ checkSpawn' = FALSE
  /\ key' = [m \in Beast |-> None]
  /\ UNCHANGED <<online, life, atSpawn, neglected>>

\* Spawns::clear, on shutdown.
ClearSpawn ==
  /\ started = "yes" /\ started' = "over"
  /\ checkSpawn' = FALSE
  /\ atSpawn' = atSpawn \ Spawned
  /\ key' = [m \in Beast |-> None]
  /\ UNCHANGED <<online, life, neglected>>

SpawnsNext ==
  \/ StartupSpawn \/ CheckSpawn \/ ClearSpawn
  \/ \E m \in Beast : Vanish(m) \/ Convince(m) \/ Forget(m)

SpawnsSpec == online = {} /\ SpawnsInit /\ [][SpawnsNext]_spawnVars

-----------------------------------------------------------------------------
(* Properties.                                                             *)

\* The types of the state.
SpawnsTypeOK ==
  /\ life \in [Beast -> {"unborn", "alive", "removed"}]
  /\ key \in [Beast -> Block \union {None, "stray"}]
  /\ atSpawn \subseteq Beast
  /\ {checkSpawn, neglected} \subseteq BOOLEAN
  /\ started \in {"no", "yes", "over"}

\* A block never has two monsters at a time, though they stray, are replaced
\* and come home.
OneMonsterPerBlock ==
  \A m, n \in Beast : key[m] = key[n] /\ key[m] \in Block => m = n

\* A monster that lives points to its spawn only while it is in the map that
\* clear goes through, so none is left with a pointer to a deleted spawn.
SpawnsAreKnown ==
  \A m \in atSpawn : life[m] = "alive" => started = "yes" /\ m \in Spawned

\* A spawn that lacks monsters looks after them: a check is due, unless blocks
\* were vacated by convincing since the last, or never filled at startup.
MissingAreMissed ==
  started = "yes" /\ ~neglected
    /\ Cardinality({m \in Spawned : life[m] = "alive"}) < Cardinality(Block)
      => checkSpawn

\* Every place of a spawn is filled by one monster, or its filling is due.
SpawnsAreExact ==
  /\ OneMonsterPerBlock
  /\ SpawnsAreKnown
  /\ MissingAreMissed

=============================================================================
