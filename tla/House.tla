------------------------------- MODULE House -------------------------------
(***************************************************************************)
(* Who may be in a house, and who sleeps there (Src/house.cpp, beds.cpp,   *)
(* housetile.cpp).  One house without guild; every operation is a task of  *)
(* the dispatcher, hence one step.                                         *)
(***************************************************************************)
EXTENDS Players, Naturals

CONSTANTS
  Tenant,   \* bound: the players who have to do with the house
  Bed,      \* the beds of the house, each a pair of items
  Editor    \* players with PlayerFlag_CanEditHouses

ASSUME HouseAssumption == 
  None \notin Bed /\ Tenant \subseteq Player /\ Editor \subseteq Tenant

VARIABLES
  houseOwner, subOwnerList, guestList,
  inside,        \* players on a tile of the house
  sleeper,       \* BedItem::sleeper
  bedOf,         \* Beds::BedSleepersMap
  kicks,         \* players a kick is scheduled for, SCHEDULER_MINTICKS later
  unswept,       \* history: owners who lost the house without a clean
  appointed      \* history: players listed since somebody lost the house

rights == <<houseOwner, subOwnerList, guestList, appointed>>
beds == <<sleeper, bedOf>>
houseVars == <<online, rights, beds, inside, kicks, unswept>>

HouseInit ==
  /\ houseOwner = None /\ subOwnerList = {} /\ guestList = {}
  /\ inside = {}
  /\ sleeper = [b \in Bed |-> None] /\ bedOf = [p \in Player |-> None]
  /\ kicks = {} /\ unswept = {} /\ appointed = {}

\* getHouseAccessLevel: not invited, guest, subowner, owner.
Level(p) ==
  IF p \in Editor \/ p = houseOwner THEN 3
  ELSE IF houseOwner = None THEN 0
  ELSE IF p \in subOwnerList THEN 2
  ELSE IF p \in guestList THEN 1 ELSE 0
IsInvited(p) == Level(p) > 0

-----------------------------------------------------------------------------
(* Going in and out.                                                       *)

\* Those of the house who stay are In.
Stay(In) == inside' = In /\ unswept' = unswept \intersect In

Enter(p) ==
  /\ p \in online \ inside
  /\ IsInvited(p)
  /\ Stay(inside \union {p})
  /\ UNCHANGED <<online, rights, beds, kicks>>

GoOut(p) ==
  /\ p \in inside
  /\ Stay(inside \ {p})
  /\ UNCHANGED <<online, rights, beds, kicks>>

\* House::kickPlayer; a player may always kick herself.
KickOut(p, q) ==
  /\ p \in online /\ q \in inside
  /\ p # q => Level(p) >= Level(q) /\ q \notin Editor
  /\ Stay(inside \ {q})
  /\ UNCHANGED <<online, rights, beds, kicks>>

\* setAccessList, by those canEditAccessList lets; removePlayers(false).
EditGuests(p, list) ==
  /\ p \in online /\ Level(p) >= 2
  /\ guestList' = list /\ UNCHANGED <<houseOwner, subOwnerList>>
  /\ appointed' = appointed \union list
  /\ Stay({q \in inside : IsInvited(q)'})
  /\ UNCHANGED <<online, beds, kicks>>

\* As if only the entry were forbidden.
EditEntryOnly(p, list) ==
  /\ p \in online /\ Level(p) = 3
  /\ subOwnerList' = list /\ UNCHANGED <<houseOwner, guestList>>
  /\ appointed' = appointed \union list
  /\ UNCHANGED <<online, beds, inside, kicks, unswept>>

EditSubOwners(p, list) ==
  /\ p \in online /\ Level(p) = 3
  /\ subOwnerList' = list /\ UNCHANGED <<houseOwner, guestList>>
  /\ appointed' = appointed \union list
  /\ Stay({q \in inside : IsInvited(q)'})
  /\ UNCHANGED <<online, beds, kicks>>

-----------------------------------------------------------------------------
(* Owners.                                                                 *)

\* As if the register were not told.
WakeBedOnly(B) ==
  /\ sleeper' = [b \in Bed |-> IF b \in B THEN None ELSE sleeper[b]]
  /\ UNCHANGED bedOf

\* wakeUp of the beds B: each forgets its sleeper, and the register her bed,
\* whichever that is by now.
WakeUp(B) ==
  /\ sleeper' = [b \in Bed |-> IF b \in B THEN None ELSE sleeper[b]]
  /\ bedOf' = [p \in Player |->
       IF \E b \in B : sleeper[b] = p THEN None ELSE bedOf[p]]

\* As if the lists came with the house.
NewOwnerOldFriends(o) ==
  /\ o # houseOwner
  /\ houseOwner' = o
  /\ UNCHANGED <<subOwnerList, guestList>>
  /\ appointed' = IF houseOwner = None THEN appointed ELSE {}

\* setOwnerEx.  A house that belonged to somebody loses its lists.
NewOwner(o) ==
  /\ o # houseOwner
  /\ houseOwner' = o
  /\ IF houseOwner = None
     THEN UNCHANGED <<subOwnerList, guestList, appointed>>
     ELSE subOwnerList' = {} /\ guestList' = {} /\ appointed' = {}

\* With transfer: the beds are woken and everybody has to leave.
SetOwnerEx(o) ==
  /\ NewOwner(o)
  /\ IF houseOwner = None
     THEN UNCHANGED <<beds, inside, unswept>>
     ELSE WakeUp(Bed) /\ Stay(inside \intersect Editor)
  /\ UNCHANGED <<online, kicks>>

\* Without, by an administrator or a script: those who lose their right leave
\* as the lists are emptied, but the owner has it until the end of the call.
SetOwnerUnswept(o) ==
  /\ NewOwner(o)
  /\ IF houseOwner = None
     THEN UNCHANGED <<inside, unswept>>
     ELSE /\ inside' = inside \intersect (Editor \union {houseOwner})
          /\ unswept' = (unswept \union {houseOwner}) \intersect inside'
  /\ UNCHANGED <<online, beds, kicks>>

-----------------------------------------------------------------------------
(* Beds.                                                                   *)

\* A free bed within reach takes everybody; the player is put on it without
\* being asked for a right, and kicked.
Sleep(p, b) ==
  /\ p \in online
  /\ sleeper[b] = None
  /\ sleeper' = [sleeper EXCEPT ![b] = p]
  /\ bedOf' = [bedOf EXCEPT ![p] = b]
  /\ Stay(inside \union {p})
  /\ kicks' = kicks \union {p}
  /\ UNCHANGED <<online, rights>>

\* canUse of a bed that is taken: the sleeper is woken.
WakeSleeper(p, b) ==
  /\ p \in online
  /\ sleeper[b] # None
  /\ Level(p) = 3 \/ Level(sleeper[b]) <= Level(p)
  /\ WakeUp({b})
  /\ UNCHANGED <<online, rights, inside, kicks, unswept>>

-----------------------------------------------------------------------------
(* Players come and go.                                                    *)

\* As if the kick found its player again.
LeaveGameUnkicked(p) ==
  /\ online' = online \ {p}
  /\ Stay(inside \ {p})
  /\ UNCHANGED <<rights, beds, kicks>>

LeaveGame(p) ==
  /\ online' = online \ {p}
  /\ kicks' = kicks \ {p}
  /\ Stay(inside \ {p})
  /\ UNCHANGED <<rights, beds>>
LogoutOfHouse(p) == p \in online /\ LeaveGame(p)
\* Game::kickPlayer of a sleeper; no script on logging out objects.
KickSleeper(p) == p \in kicks /\ LeaveGame(p)

\* The login position may be inside; onCreatureAppear wakes the own bed.
LoginToHouse(p) ==
  /\ p \notin online
  /\ online' = online \union {p}
  /\ Stay(inside) \/ (IsInvited(p) /\ Stay(inside \union {p}))
  /\ IF bedOf[p] = None THEN UNCHANGED beds ELSE WakeUp({bedOf[p]})
  /\ UNCHANGED <<rights, kicks>>

HouseNext ==
  \/ \E p \in Tenant :
       \/ Enter(p) \/ GoOut(p) \/ KickSleeper(p)
       \/ LogoutOfHouse(p) \/ LoginToHouse(p)
       \/ \E q \in Tenant : KickOut(p, q)
       \/ \E list \in SUBSET Tenant : EditGuests(p, list) \/ EditSubOwners(p, list)
       \/ \E b \in Bed : Sleep(p, b) \/ WakeSleeper(p, b)
  \/ \E o \in Tenant \union {None} : SetOwnerEx(o) \/ SetOwnerUnswept(o)

HouseSpec == online = Player /\ HouseInit /\ [][HouseNext]_houseVars

-----------------------------------------------------------------------------
(* Properties.                                                             *)

\* The types of the state.
HouseTypeOK ==
  /\ online \subseteq Player
  /\ houseOwner \in Player \union {None}
  /\ subOwnerList \subseteq Player /\ guestList \subseteq Player
  /\ appointed \subseteq Player
  /\ inside \subseteq online /\ kicks \subseteq online
  /\ sleeper \in [Bed -> Player \union {None}]
  /\ bedOf \in [Player -> Bed \union {None}]
  /\ unswept \subseteq inside

\* Nobody stays in a house without a right to be there, through every change
\* of its lists and owners, but for sleepers about to be kicked and owners it
\* was taken from without a clean.
StrangersStayOut ==
  \A p \in inside : IsInvited(p) \/ p \in kicks \/ p \in unswept

\* Nobody keeps a right to a house that was given by an owner before: all who
\* are on a list have been put there since.
FriendsGoWithTheOwner == subOwnerList \union guestList \subseteq appointed

\* The register of sleepers never leads a player to a bed that is free or
\* another's, so logging in wakes nobody else.
RegisterOfSleepers ==
  \A p \in Player : bedOf[p] # None => sleeper[bedOf[p]] = p

\* Who is in the house, who may be and who sleeps there agree, however lists
\* and owners change.
HouseIsKept ==
  /\ StrangersStayOut
  /\ FriendsGoWithTheOwner
  /\ RegisterOfSleepers

\* Together they are inductive.
HouseInvariant ==
  /\ HouseTypeOK /\ StrangersStayOut /\ FriendsGoWithTheOwner
  /\ RegisterOfSleepers

=============================================================================
