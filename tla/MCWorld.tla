------------------------------ MODULE MCWorld ------------------------------
(***************************************************************************)
(* The parts of the world that share nothing but who is in the game.  Each *)
(* behaviour plays one scene: one part moves, from its own initial state,  *)
(* and the others stand still.  No property speaks of two parts, so what   *)
(* the others do between two steps of one changes nothing for it, and the  *)
(* states to visit are the sum of the parts, not their product.            *)
(***************************************************************************)
EXTENDS Party, Chat, Reports, House, Rent, Raids, Spawns, Creatures, Pvp, Decay,
        Ailments, Balls, Containers, TLC

CONSTANTS p1, p2, p3, raidOfNobody, raidOnce, raidInTurn,
          unlit, lit, stub, sconce, corpse, bones, bag, pouch

MCRefType == raidOfNobody :> "none" @@ raidOnce :> "single" @@ raidInTurn :> "block"

\* A week may end within a month, and the year with the month.
MCToRed == [day |-> 1, week |-> 2, month |-> 2]
MCToBlack == [day |-> 2, week |-> 3, month |-> 3]

\* A light that is put out and lit again, one that goes out into it, and a corpse.
MCDecayTo ==
  [t \in Type |->
     CASE t = unlit -> Lasts [] t = lit -> stub [] t = sconce -> unlit
       [] t = corpse -> bones [] OTHER -> Vanishes]
MCDecayTime ==
  unlit :> 0 @@ lit :> 4 @@ stub :> 2 @@ sconce :> 1 @@ corpse :> 3 @@ bones :> 1
MCKind == [t \in Type |-> IF t = corpse THEN "container" ELSE "plain"]
MCUses == {<<unlit, lit>>, <<lit, unlit>>, <<stub, lit>>}

\* A bag of two and one of one, so that room runs out; two windows for the
\* player with the inventory, so that two may be on one bag.
MCCapacity == bag :> 2 @@ pouch :> 1
MCCid == p1 :> {0, 1} @@ p2 :> {0}

VARIABLE scene

Parts == {"party", "chat", "reports", "house", "rent", "raids", "spawns", "creatures",
          "pvp", "decay", "ailments", "balls", "containers"}

partyOnly == <<roster, invites, share, partyOf, invitedBy, hears>>
chatOnly == <<owner, users, asked, chatAlive>>
reportsOnly == <<desk, report, listed>>
houseOnly == <<rights, beds, inside, kicks, unswept>>
rentOnly == <<today, tenant, paidUntil, lastWarning, rentWarnings, funds, ultimatum>>
raidsOnly == <<running, eventCount, nextEvent, due, raidOf, raidsAlive>>
spawnsOnly == <<life, key, atSpawn, checkSpawn, started, neglected>>
creaturesOnly == <<world, hurried>>
pvpOnly == <<clock, markVars, tallyVars, fighting>>
decayOnly == <<decay, lastBucket, stored>>

worldVars == <<scene, online, partyOnly, chatOnly, reportsOnly, houseOnly, rentOnly,
               raidsOnly, spawnsOnly, creaturesOnly, pvpOnly, decayOnly, patient, team, goods>>

WorldInit ==
  /\ scene \in Parts
  /\ online = IF scene \in {"raids", "spawns", "creatures"} THEN {} ELSE Player
  /\ PartyInit /\ ChatInit /\ ReportsInit /\ HouseInit /\ RentInit
  /\ RaidsInit /\ SpawnsInit /\ CreaturesInit /\ PvpInit /\ DecayInit
  /\ AilmentsInit /\ (scene # "ailments" => patient.kind = "player")
  /\ BallsInit /\ (scene # "balls" => team.vacant = {"feet"})
  /\ ContainersInit

Except(part, vars) == IF scene = part THEN TRUE ELSE UNCHANGED vars

WorldNext ==
  /\ UNCHANGED scene
  /\ Except("party", partyOnly) /\ Except("chat", chatOnly)
  /\ Except("reports", reportsOnly) /\ Except("house", houseOnly)
  /\ Except("rent", rentOnly) /\ Except("raids", raidsOnly)
  /\ Except("spawns", spawnsOnly) /\ Except("creatures", creaturesOnly)
  /\ Except("pvp", pvpOnly) /\ Except("decay", decayOnly)
  /\ Except("ailments", patient) /\ Except("balls", team)
  /\ Except("containers", goods)
  /\ (scene \in {"ailments", "balls", "containers"} => UNCHANGED online)
  /\ \/ scene = "party" /\ PartyNext
     \/ scene = "chat" /\ ChatNext
     \/ scene = "reports" /\ ReportsNext
     \/ scene = "house" /\ HouseNext
     \/ scene = "rent" /\ RentNext
     \/ scene = "raids" /\ RaidsNext
     \/ scene = "spawns" /\ SpawnsNext
     \/ scene = "creatures" /\ CreaturesNext
     \/ scene = "pvp" /\ PvpNext
     \/ scene = "decay" /\ DecayNext
     \/ scene = "ailments" /\ AilmentsNext
     \/ scene = "balls" /\ BallsNext
     \/ scene = "containers" /\ ContainersNext

WorldSpec == WorldInit /\ [][WorldNext]_worldVars

\* What a scene may change.  The other parts stand in their initial states, so no
\* two states of a scene have the same view.
WorldView ==
  <<scene, online,
    CASE scene = "party" -> partyOnly [] scene = "chat" -> chatOnly
      [] scene = "reports" -> reportsOnly [] scene = "house" -> houseOnly
      [] scene = "rent" -> rentOnly [] scene = "raids" -> raidsOnly
      [] scene = "spawns" -> spawnsOnly [] scene = "creatures" -> creaturesOnly
      [] scene = "pvp" -> pvpOnly [] scene = "decay" -> decayOnly
      [] scene = "ailments" -> patient [] scene = "balls" -> team
      [] scene = "containers" -> goods>>

\* The types of the state of the part that moves.
WorldTypeOK ==
  CASE scene = "party" -> PartyTypeOK [] scene = "chat" -> ChatTypeOK
    [] scene = "reports" -> ReportsTypeOK [] scene = "house" -> HouseTypeOK
    [] scene = "rent" -> RentTypeOK [] scene = "raids" -> RaidsTypeOK
    [] scene = "spawns" -> SpawnsTypeOK [] scene = "creatures" -> CreaturesTypeOK
    [] scene = "pvp" -> PvpTypeOK [] scene = "decay" -> DecayTypeOK
    [] scene = "ailments" -> AilmentsTypeOK [] scene = "balls" -> BallsTypeOK
    [] scene = "containers" -> ContainersTypeOK

=============================================================================
