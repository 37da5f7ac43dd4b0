------------------------------- MODULE Trade -------------------------------
(***************************************************************************)
(* Trading between two players: Game::playerRequestTrade,                  *)
(* playerAcceptTrade and playerCloseTrade (Src/game.cpp), the hooks of     *)
(* Player (Src/player.cpp) that close a trade when its goods or its        *)
(* players move, and the sale of a house (Src/talkaction.cpp, house.cpp),  *)
(* a trade whose goods are the house's transfer document.                  *)
(*                                                                         *)
(* Every handler runs as one task of the dispatcher, so it is one step.    *)
(* A transfer document <<h, p>> is the one its seller p offers for house h;*)
(* it lies in p's transferContainer and is gone when the trade is over.    *)
(*                                                                         *)
(* Bounds: a place is a number on a line; bags nest two deep; an inventory *)
(* and a bag hold so many things, and weight does not count; nothing is    *)
(* dropped in a house; no guild halls.                                     *)
(***************************************************************************)
EXTENDS Integers, FiniteSets

CONSTANTS
  Player, Item, House,
  Bag,        \* the items that are containers
  Spot,       \* the places of the map
  HouseSpot,  \* where the inside of a house is
  Entry,      \* and the place before its door
  Slots,      \* capacity of an inventory
  BagSlots,   \* and of a bag
  None

ASSUME TradeAssumption ==
  /\ Bag \subseteq Item
  /\ Spot \subseteq Int
  /\ HouseSpot \in [House -> Spot]
  /\ Entry \in [House -> Spot]
  /\ \A h, k \in House : Entry[h] # HouseSpot[k]
  /\ Slots \in Nat /\ BagSlots \in Nat
  /\ None \notin Player \union Item \union (House \X Player)
  /\ Player \intersect (Item \union Spot) = {}
  /\ Item \intersect (Spot \union (House \X Player)) = {}

VARIABLES
  online,
  spot,          \* where each player stands
  at,            \* the parent of each item: a player, a bag or a place
  tradeState, tradePartner, tradeItem,
  tradeItems,    \* the game's register of offered goods
  attached,      \* whose transferContainer has its player as parent
  houseOwner,
  shown          \* what each client's trade window lists

vars == <<online, spot, at, tradeState, tradePartner, tradeItem, tradeItems,
          attached, houseOwner, shown>>
offers == <<tradeState, tradePartner, tradeItem, tradeItems, attached, shown>>

Deed == House \X Player
Goods == Item \union Deed
Places == Player \union Bag \union Spot
States == {"NONE", "INITIATED", "ACCEPT", "ACKNOWLEDGE"}
Closed == [own |-> {}, theirs |-> {}]
HouseSpots == {HouseSpot[h] : h \in House}

Init ==
  /\ online = Player
  /\ spot \in [Player -> Spot \ HouseSpots]
  /\ at \in [Item -> Player]
  /\ tradeState = [p \in Player |-> "NONE"]
  /\ tradePartner = [p \in Player |-> None]
  /\ tradeItem = [p \in Player |-> None]
  /\ tradeItems = [g \in Goods |-> None]
  /\ attached = [p \in Player |-> FALSE]
  /\ houseOwner = [h \in House |-> None]
  /\ shown = [p \in Player |-> Closed]

-----------------------------------------------------------------------------
(* Things and where they are.                                              *)

Apart(s, t) == IF s > t THEN s - t ELSE t - s

\* Container::isHoldingItem, at any depth.
Holds(b, i) ==
  /\ b \in Bag /\ i \in Item
  /\ at[i] = b \/ (at[i] \in Bag /\ at[at[i]] = b)

\* The player or the place a thing is with in the end.
TopParent(x) ==
  IF x \notin Bag THEN x ELSE IF at[x] \notin Bag THEN at[x] ELSE at[at[x]]
Holder(i) == TopParent(at[i])

\* getPosition, when the players stand as sp says.
Position(i, sp) == IF Holder(i) \in Player THEN sp[Holder(i)] ELSE Holder(i)

\* What a trade window lists for an offer.
Contents(g) == {g} \union {i \in Item : Holds(g, i)}

\* __queryAdd: room in c, and a bag is not put inside itself.
MayHold(c, i) ==
  /\ c \in Player => Cardinality({j \in Item : at[j] = c}) < Slots
  /\ c \in Bag =>
       /\ Cardinality({j \in Item : at[j] = c}) < BagSlots
       /\ c # i /\ ~Holds(i, c)
       /\ at[c] \in Bag => at[at[c]] \notin Bag /\ i \notin Bag
       /\ ~\E j \in Item : at[j] \in Bag /\ at[at[j]] = i

\* Player::__queryDestination: a free slot, else a bag that is not offered
\* nor inside the offered one.
Destination(p, g) ==
  IF MayHold(p, g) THEN {p}
  ELSE {b \in Bag : /\ Holder(b) = p
                    /\ b # tradeItem[p] /\ ~Holds(tradeItem[p], b)
                    /\ MayHold(b, g)}

-----------------------------------------------------------------------------
(* Opening a trade.                                                        *)

\* internalStartTrade refuses a player who deals with somebody else.
MayStart(p, q) ==
  /\ \/ tradeState[p] = "NONE"
     \/ tradeState[p] = "ACKNOWLEDGE" /\ tradePartner[p] = q
  /\ tradeState[q] = "NONE" \/ tradePartner[q] = p

StartTrade(p, q, g) ==
  /\ MayStart(p, q)
  /\ tradeItem' = [tradeItem EXCEPT ![p] = g]
  /\ tradeItems' = [tradeItems EXCEPT ![g] = p]
  /\ tradePartner' = [tradePartner EXCEPT ![p] = q, ![q] = p]
  /\ IF tradeState[q] = "NONE"
     THEN /\ tradeState' = [tradeState EXCEPT ![p] = "INITIATED",
                                              ![q] = "ACKNOWLEDGE"]
          /\ shown' = [shown EXCEPT ![p].own = Contents(g)]
     ELSE /\ tradeState' = [tradeState EXCEPT ![p] = "INITIATED"]
          /\ shown' = [shown EXCEPT
                         ![p] = [own |-> Contents(g),
                                 theirs |-> Contents(tradeItem[q])],
                         ![q].theirs = Contents(g)]

\* No registered offer is the item, lies in it or holds it.
NotTradedShallow(i) ==
  \A o \in Goods : tradeItems[o] # None => o # i /\ ~Holds(i, o)

NotTraded(i) ==
  \A o \in Goods : tradeItems[o] # None => o # i /\ ~Holds(i, o) /\ ~Holds(o, i)

\* playerRequestTrade, when the player stands close enough not to walk first.
\* The trade scripts may refuse, which changes nothing.
RequestTrade(p, q, i) ==
  /\ {p, q} \subseteq online /\ p # q
  /\ Apart(spot[p], spot[q]) <= 2
  /\ Holder(i) \notin Player \ {p}
  /\ Apart(Position(i, spot), spot[p]) <= 1
  /\ NotTraded(i)
  /\ StartTrade(p, q, i)
  /\ UNCHANGED <<online, spot, at, attached, houseOwner>>

HousesOf(p) == {h \in House : houseOwner[h] = p}

\* TalkAction::houseSell.  A refused offer takes its document back, and with
\* it the parent of the container that may hold the one offered before.
SellHouse(p, q, h) ==
  /\ {p, q} \subseteq online /\ p # q
  /\ houseOwner[h] = p
  /\ HousesOf(q) = {}
  /\ Apart(spot[p], spot[q]) <= 3
  /\ \/ /\ StartTrade(p, q, <<h, p>>)
        /\ attached' = [attached EXCEPT ![p] = TRUE]
     \/ /\ ~MayStart(p, q)
        /\ attached' = [attached EXCEPT ![p] = FALSE]
        /\ UNCHANGED <<tradeState, tradePartner, tradeItem, tradeItems, shown>>
  /\ UNCHANGED <<online, spot, at, houseOwner>>

-----------------------------------------------------------------------------
(* Closing a trade.                                                        *)

WithPartners(S) == S \union ({tradePartner[p] : p \in S} \ {None})

\* What is left of the trades when those of the players in T are over.
EndTradesKeepRegister(T) ==
  /\ tradeState' = [p \in Player |-> IF p \in T THEN "NONE" ELSE tradeState[p]]
  /\ tradePartner' = [p \in Player |-> IF p \in T THEN None ELSE tradePartner[p]]
  /\ tradeItem' = [p \in Player |-> IF p \in T THEN None ELSE tradeItem[p]]
  /\ shown' = [p \in Player |-> IF p \in T THEN Closed ELSE shown[p]]
  /\ UNCHANGED <<tradeItems, attached>>

EndTrades(T) ==
  /\ tradeState' = [p \in Player |-> IF p \in T THEN "NONE" ELSE tradeState[p]]
  /\ tradePartner' = [p \in Player |-> IF p \in T THEN None ELSE tradePartner[p]]
  /\ tradeItem' = [p \in Player |-> IF p \in T THEN None ELSE tradeItem[p]]
  /\ tradeItems' = [g \in Goods |-> IF \E p \in T : tradeItem[p] = g
                                    THEN None ELSE tradeItems[g]]
  /\ attached' = [p \in Player |-> /\ attached[p]
                                   /\ ~(p \in T /\ tradeItem[p] \in Deed)]
  /\ shown' = [p \in Player |-> IF p \in T THEN Closed ELSE shown[p]]

\* internalCloseTrade of each player in S.
CloseOwnSide(S) == EndTrades(S)

CloseTrades(S) == EndTrades(WithPartners(S))

CloseTrade(p) ==
  /\ p \in online
  /\ CloseTrades({p})
  /\ UNCHANGED <<online, spot, at, houseOwner>>

Logout(p) ==
  /\ p \in online
  /\ online' = online \ {p}
  /\ CloseTrades({p})
  /\ UNCHANGED <<spot, at, houseOwner>>

Login(p) ==
  /\ p \notin online
  /\ online' = online \union {p}
  /\ UNCHANGED <<spot, at, houseOwner>> /\ UNCHANGED offers

\* onCreatureMove: a player on the move looks after the own offer and the
\* partner.  A document whose container lost its parent is nowhere.
OutOfReachOfPartner(p, sp) ==
  tradePartner[p] # None /\ Apart(sp[tradePartner[p]], sp[p]) > 2

OutOfReach(p, sp) ==
  \/ /\ tradeItem[p] # None
     /\ IF tradeItem[p] \in Deed
        THEN ~attached[p]
        ELSE Apart(Position(tradeItem[p], sp), sp[p]) > 1
  \/ tradePartner[p] # None /\ Apart(sp[tradePartner[p]], sp[p]) > 2

Walk(p, s) ==
  /\ p \in online /\ s # spot[p]
  /\ \A h \in House : HouseSpot[h] = s => houseOwner[h] = p
  /\ spot' = [spot EXCEPT ![p] = s]
  /\ CloseTrades({r \in {p} : OutOfReach(r, spot')})
  /\ UNCHANGED <<online, at, houseOwner>>

\* Who hears that something is taken from or put into c.
Hears(p, c) ==
  /\ p \in online
  /\ c \in Player => p = c
  /\ c \in Bag => Apart(spot[p], Position(c, spot)) <= 2

\* onRemoveTileItem, onRemoveInventoryItem and onRemoveContainerItem: an
\* offer ends when it, something in it or something around it is taken.
Disturbed(o, i, c) ==
  \/ o = i \/ Holds(o, i)
  \/ c \notin Bag /\ Holds(i, o)
  \/ c \in Bag /\ at[o] # c /\ Holds(c, o)

\* onAddContainerItem.
FilledDirectly(o, c) == c \in Bag /\ o = c

Filled(o, c) == c \in Bag /\ (o = c \/ Holds(o, c))

\* internalMoveItem of a thing within reach.
MoveItemIntoItself(p, i, c) ==
  /\ p \in online
  /\ Holder(i) \notin Player \ {p} /\ Apart(Position(i, spot), spot[p]) <= 1
  /\ c \in Bag /\ c = i
  /\ at' = [at EXCEPT ![i] = c]
  /\ CloseTrades({})
  /\ UNCHANGED <<online, spot, houseOwner>>

MoveItem(p, i, c) ==
  /\ p \in online
  /\ Holder(i) \notin Player \ {p} /\ Apart(Position(i, spot), spot[p]) <= 1
  /\ TopParent(c) \notin (Player \ {p}) \union HouseSpots
  /\ c \in Bag => Apart(Position(c, spot), spot[p]) <= 1
  /\ MayHold(c, i)
  /\ at' = [at EXCEPT ![i] = c]
  /\ CloseTrades({r \in Player :
                    /\ tradeItem[r] \in Item
                    /\ \/ Hears(r, at[i]) /\ Disturbed(tradeItem[r], i, at[i])
                       \/ Hears(r, c) /\ Filled(tradeItem[r], c)})
  /\ UNCHANGED <<online, spot, houseOwner>>

-----------------------------------------------------------------------------
(* Accepting.                                                              *)

\* The client enables its button when it shows both offers.
BothShown(p) == shown[p].own # {} /\ shown[p].theirs # {}

MayAccept(p) ==
  /\ p \in online
  /\ tradeState[p] \in {"ACKNOWLEDGE", "INITIATED"}
  /\ BothShown(p)

PartnerAccepted(p) == tradeState[tradePartner[p]] = "ACCEPT"

\* The first to accept waits for the other.  So does the second one whose
\* accept a script refuses, and neither can accept again.
AcceptAndWait(p) ==
  /\ MayAccept(p)
  /\ tradeState' = [tradeState EXCEPT ![p] = "ACCEPT"]
  /\ UNCHANGED <<online, spot, at, tradePartner, tradeItem, tradeItems,
                 attached, houseOwner, shown>>

\* Both have accepted, and one has no room for what the other gives.
AcceptWithoutRoom(p) ==
  /\ MayAccept(p) /\ PartnerAccepted(p)
  /\ LET q == tradePartner[p]
     IN Destination(q, tradeItem[p]) = {} \/ Destination(p, tradeItem[q]) = {}
  /\ CloseTrades({p})
  /\ UNCHANGED <<online, spot, at, houseOwner>>

\* onTradeEvent(ON_TRADE_TRANSFER) of what the player r receives.
Transfer(owner, g, r) ==
  [h \in House |-> IF g \in Deed /\ g[1] = h THEN r ELSE owner[h]]

\* House::setOwnerEx clears a house that somebody owned: whoever is inside
\* finds himself before the door, perhaps out of reach.
Clear(H) ==
  spot' = [p \in Player |->
             IF p \in online /\ \E h \in H : spot[p] = HouseSpot[h]
             THEN Entry[CHOOSE h \in H : spot[p] = HouseSpot[h]]
             ELSE spot[p]]
Lost(before, after) == {h \in House : before[h] \notin {None, after[h]}}
Displaced == {p \in Player : spot'[p] # spot[p] /\ OutOfReach(p, spot')}

\* Both have accepted and both have room: the goods change hands, and a
\* document turns its taker into the owner of the house.
AcceptAndSwapHalf(p) ==
  /\ MayAccept(p) /\ PartnerAccepted(p)
  /\ LET q == tradePartner[p]
     IN \E dq \in Destination(q, tradeItem[p]) :
        /\ at' = [i \in Item |-> IF i = tradeItem[p] THEN dq ELSE at[i]]
        /\ CloseTrades({p})
  /\ UNCHANGED <<online, spot, houseOwner>>

AcceptAndSwap(p) ==
  /\ MayAccept(p) /\ PartnerAccepted(p)
  /\ LET q == tradePartner[p]
         mine == tradeItem[p]
         theirs == tradeItem[q]
         between == Transfer(houseOwner, mine, q)
     IN \E dq \in Destination(q, mine), dp \in Destination(p, theirs) :
        /\ at' = [i \in Item |-> IF i = mine THEN dq
                                 ELSE IF i = theirs THEN dp ELSE at[i]]
        /\ houseOwner' = Transfer(between, theirs, p)
        /\ Clear(Lost(houseOwner, between) \union Lost(between, houseOwner'))
        /\ CloseTrades({p} \union (Displaced \ {p, q}))
  /\ UNCHANGED online

-----------------------------------------------------------------------------
(* Houses outside of trades.                                               *)

\* TalkAction::houseBuy, from before the door.
BuyHouse(p, h) ==
  /\ p \in online
  /\ Apart(spot[p], HouseSpot[h]) <= 1
  /\ HousesOf(p) = {}
  /\ houseOwner[h] = None
  /\ houseOwner' = [houseOwner EXCEPT ![h] = p]
  /\ UNCHANGED <<online, spot, at>> /\ UNCHANGED offers

\* The owner gives the house up, from inside (leavehouse.lua).
LeaveHouse(p, h) ==
  /\ p \in online
  /\ houseOwner[h] = p
  /\ spot[p] = HouseSpot[h]
  /\ houseOwner' = [houseOwner EXCEPT ![h] = None]
  /\ Clear({h})
  /\ CloseTrades(Displaced)
  /\ UNCHANGED <<online, at>>

Next ==
  \/ \E p \in Player :
       \/ CloseTrade(p) \/ Logout(p) \/ Login(p)
       \/ AcceptAndWait(p) \/ AcceptWithoutRoom(p) \/ AcceptAndSwap(p)
       \/ \E s \in Spot : Walk(p, s)
       \/ \E i \in Item, c \in Places : MoveItem(p, i, c)
       \/ \E q \in Player, i \in Item : RequestTrade(p, q, i)
       \/ \E q \in Player, h \in House : SellHouse(p, q, h)
       \/ \E h \in House : BuyHouse(p, h) \/ LeaveHouse(p, h)

Spec == Init /\ [][Next]_vars

-----------------------------------------------------------------------------
(* Properties.                                                             *)

\* Every variable has its type; no bag is in itself.
TypeOK ==
  /\ online \subseteq Player
  /\ spot \in [Player -> Spot]
  /\ at \in [Item -> Places] /\ \A i \in Item : at[i] # i
  /\ tradeState \in [Player -> States]
  /\ tradePartner \in [Player -> Player \union {None}]
  /\ tradeItem \in [Player -> Goods \union {None}]
  /\ tradeItems \in [Goods -> Player \union {None}]
  /\ attached \in [Player -> BOOLEAN]
  /\ houseOwner \in [House -> Player \union {None}]
  /\ shown \in [Player -> [own : SUBSET Goods, theirs : SUBSET Goods]]

\* Two players either deal with each other or not at all: no close leaves a
\* player in a trade its partner has left, and of the two only one has yet
\* to make an offer.
PartnersAgree ==
  \A p \in Player :
    /\ tradeState[p] = "NONE" <=> tradePartner[p] = None
    /\ tradeItem[p] # None <=> tradeState[p] \in {"INITIATED", "ACCEPT"}
    /\ tradePartner[p] # None =>
         /\ tradePartner[p] # p
         /\ tradePartner[tradePartner[p]] = p
         /\ tradeState[p] = "ACKNOWLEDGE" =>
              tradeState[tradePartner[p]] = "INITIATED"

\* The register lists exactly the goods that are offered now: a stale entry
\* would make an item untradeable for ever, a missing one let it be offered
\* twice.
RegisterIsExact ==
  \A g \in Goods, p \in Player : tradeItems[g] = p <=> tradeItem[p] = g

\* Partners, states and the register of goods tell of the same trades.
TradesAgree == PartnersAgree /\ RegisterIsExact

\* No two offers overlap: none holds another, however the items were moved
\* since they were offered.
OffersApart ==
  \A p, q \in Player :
    p # q /\ tradeItem[p] # None =>
      tradeItem[q] # tradeItem[p] /\ ~Holds(tradeItem[p], tradeItem[q])

\* An offered item stays with its player or within a step of him, and a
\* partner stays near (three steps away if a house is on sale).
OffersAtHand ==
  \A p \in Player :
    /\ tradeItem[p] \in Item =>
         /\ Holder(tradeItem[p]) \notin Player \ {p}
         /\ Apart(Position(tradeItem[p], spot), spot[p]) <= 1
    /\ tradePartner[p] # None =>
         Apart(spot[p], spot[tradePartner[p]]) <=
           IF {tradeItem[p], tradeItem[tradePartner[p]]} \intersect Deed = {}
           THEN 2 ELSE 3

\* What a trade window lists is what would change hands: the offer, with
\* everything in it, has not changed since the client was told of it.
WindowIsTrue ==
  \A p \in Player :
    /\ tradeItem[p] # None => shown[p].own = Contents(tradeItem[p])
    /\ tradePartner[p] # None /\ tradeItem[p] # None
         /\ tradeItem[tradePartner[p]] # None =>
         shown[p].theirs = Contents(tradeItem[tradePartner[p]])

\* What is offered stays apart from all other offers, within reach and as shown
\* until the trade ends, however players and goods move.
OffersStand == OffersApart /\ OffersAtHand /\ WindowIsTrue

\* A thing passes from one player's inventory to another's only in a swap:
\* it was offered to him, he had accepted, and what he gave for it went the
\* other way in the same step.
Passes(i, p, q) == Holder(i) = p /\ Holder(i)' = q
Given(g, q) == IF g \in Deed THEN houseOwner'[g[1]] = q ELSE Holder(g)' = q
SwapIsWhole ==
  [][\A i \in Item, p, q \in Player :
       p # q /\ Passes(i, p, q) =>
         /\ tradePartner[p] = q
         /\ i \in Contents(tradeItem[p])
         /\ "ACCEPT" \in {tradeState[p], tradeState[q]}
         /\ \E g \in Goods : g = tradeItem[q] /\ Given(g, p)]_vars

\* "You already rent another house." (Src/talkaction.cpp:397), and so does
\* "Trade player already rents another house." (523): one house per player.
OneHouseEach == \A p \in Player : Cardinality(HousesOf(p)) <= 1

\* "This flat is already owned by someone else." (Src/talkaction.cpp:449): an
\* owned house passes to another only when its owner offers it.
OwnerSells ==
  [][\A h \in House :
       houseOwner[h] # None /\ houseOwner'[h] \notin {None, houseOwner[h]} =>
         tradeItem[houseOwner[h]] = <<h, houseOwner[h]>>]_vars
=============================================================================
