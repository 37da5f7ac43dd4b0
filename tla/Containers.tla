----------------------------- MODULE Containers -----------------------------
(***************************************************************************)
(* The belongings of a player, a square of the map, and the windows in     *)
(* which clients look into containers: Game::internalMoveItem,             *)
(* internalAddItem, internalRemoveItem and removeMoney (Src/game.cpp), the *)
(* queries and notifications of Container, Player and Tile, and the        *)
(* handlers of the container windows.  A client names a thing by window    *)
(* and index, so what it shows must be what the container holds.           *)
(*                                                                         *)
(* A thing is a stack of coins (its size), a ball with a pokémon, or a     *)
(* bag.  An index counts from 1, the thing put in last being the first.    *)
(* Bounds: one player has an inventory, of two slots; there is one square  *)
(* of ground, and who is not near it cannot reach what lies there; every   *)
(* coin is worth one.  Left out: depots, trades, scripts that refuse a     *)
(* move, transformations, who leaves the game, and what is dropped         *)
(* elsewhere than on that square.                                          *)
(***************************************************************************)
EXTENDS Players, Integers, FiniteSets, FiniteSetsExt, SequencesExt

CONSTANTS
  Carrier,      \* the player with the inventory
  Onlooker,     \* bound: the players who look into containers as well
  Bag, Ball,
  Capacity,     \* of each container
  MaxStack,     \* 10000 in the code
  MaxBalls,     \* maxPokeballs of the configuration
  About,        \* bound: coins, balls and bags that exist at a time
  Cid           \* bound: the windows of each client, 0 to 15 in the code

Viewer == {Carrier} \union Onlooker

ASSUME ContainersAssumption ==
  /\ Viewer \subseteq Player /\ Carrier \notin Onlooker
  /\ IsFiniteSet(Bag) /\ Ball \notin Bag /\ None \notin Bag \union {Ball} \union Nat
  /\ "ground" \notin Bag \union {Carrier} /\ Carrier \notin Bag
  /\ Capacity \in [Bag -> Nat \ {0}]
  /\ MaxStack \in Nat \ {0} /\ {MaxBalls, About} \subseteq Nat

VARIABLE goods

Ground == "ground"
Backpack == 3              \* SLOT_BACKPACK
Ammo == 10                 \* SLOT_AMMO
SlotOrder == <<Backpack, Ammo>>
Slot == ToSet(SlotOrder)
Wherever == -1             \* INDEX_WHEREEVER
Up == 254                  \* the index that means the container around this one
Stack == 1 .. MaxStack
Shut == [of |-> None, up |-> FALSE, lists |-> <<>>]

\* weight: totalWeight; balls: pokeballsCount; window: containerVec; screen: what
\* the client shows; meant: a history, what should be in the game.
ContainersInit ==
  goods = [inside |-> [c \in Bag \union {Ground} |-> <<>>],
           worn |-> [s \in Slot |-> None],
           weight |-> [c \in Bag |-> 0], balls |-> 0,
           meant |-> [coins |-> 0, balls |-> 0, bags |-> {}],
           window |-> [p \in Viewer |-> [k \in Cid[p] |-> None]],
           screen |-> [p \in Viewer |-> [k \in Cid[p] |-> Shut]],
           near |-> Viewer]

-----------------------------------------------------------------------------
(* Where things are.                                                       *)

ThingAt(g, c, i) ==
  IF c = Carrier THEN IF i \in Slot THEN g.worn[i] ELSE None
  ELSE IF i \in DOMAIN g.inside[c] THEN g.inside[c][i] ELSE None

Has(g, c, t) == \E i \in DOMAIN g.inside[c] : g.inside[c][i] = t

Parent(g, c) ==
  IF \E d \in DOMAIN g.inside : Has(g, d, c)
  THEN CHOOSE d \in DOMAIN g.inside : Has(g, d, c)
  ELSE IF \E s \in Slot : g.worn[s] = c THEN Carrier ELSE None

\* A container and those it lies in.
Chain(g, c) ==
  LET up[n \in 0 .. Cardinality(Bag)] ==
        LET below == IF n = 0 THEN {c} ELSE up[n - 1]
        IN  below \union ({Parent(g, d) : d \in below} \intersect Bag)
  IN  up[Cardinality(Bag)]

\* Who or what it is with in the end: the carrier, the ground or nobody.
Root(g, c) ==
  LET up[n \in 0 .. Cardinality(Bag)] ==
        IF n = 0 THEN c
        ELSE IF up[n - 1] \in Bag THEN Parent(g, up[n - 1]) ELSE up[n - 1]
  IN  up[Cardinality(Bag)]

Within(g, b) == {d \in Bag : b \in Chain(g, d)}
InReach(g, p, c) ==
  \/ Root(g, c) = p
  \/ Root(g, c) = Ground /\ p \in g.near

IsStack(t) == t \in Stack
ItemCount(t) == IF IsStack(t) THEN t ELSE 1
Weight(g, t) == IF t \in Bag THEN 1 + g.weight[t] ELSE ItemCount(t)

BallsAt(g, c) == Cardinality({i \in DOMAIN g.inside[c] : g.inside[c][i] = Ball})
CoinsAt(g, c) == FoldSeq(LAMBDA t, n : n + IF IsStack(t) THEN t ELSE 0, 0, g.inside[c])
\* pokemonCountIn.
BallsIn(g, t) ==
  CASE t = Ball -> 1
    [] t \in Bag -> MapThenSumSet(LAMBDA d : BallsAt(g, d), Within(g, t))
    [] OTHER -> 0
BallsCarried(g) == BallsIn(g, g.worn[Backpack]) + BallsIn(g, g.worn[Ammo])
CoinsIn(g, t) ==
  CASE IsStack(t) -> t
    [] t \in Bag -> MapThenSumSet(LAMBDA d : CoinsAt(g, d), Within(g, t))
    [] OTHER -> 0
CoinsCarried(g) == CoinsIn(g, g.worn[Backpack]) + CoinsIn(g, g.worn[Ammo])

-----------------------------------------------------------------------------
(* The primitives of a cylinder: __addThing, __removeThing, __updateThing. *)

\* As if the containers around were not told.
WeighAlone(g, c, diff) ==
  [g EXCEPT !.weight = [d \in Bag |-> IF d = c THEN @[d] + diff ELSE @[d]]]

\* updateItemWeight, up to the outermost container.
Weigh(g, c, diff) ==
  LET chain == Chain(g, c)
  IN  [g EXCEPT !.weight = [d \in Bag |-> IF d \in chain THEN @[d] + diff ELSE @[d]]]

Spectators(g, c) ==
  IF Root(g, c) = Ground THEN g.near
  ELSE {Carrier} \union IF Carrier \in g.near THEN g.near ELSE {}

\* The list after a thing was added in front, changed or removed.
Altered(s, what, i, t) ==
  CASE what = "add" -> <<t>> \o s
    [] what = "update" -> [s EXCEPT ![i] = t]
    [] what = "remove" -> RemoveAt(s, i)

\* onAdd-, onUpdate- and onRemoveContainerItem, for the windows on c of who is
\* there.  A client that has no such window does nothing.
Told(g, c, what, i, t) ==
  LET seen == Spectators(g, c)
  IN  [g EXCEPT !.screen = [p \in Viewer |-> [k \in Cid[p] |->
          IF g.window[p][k] = c /\ @[p][k].of # None /\ p \in seen
          THEN [@[p][k] EXCEPT !.lists = Altered(g.screen[p][k].lists, what, i, t)] ELSE @[p][k]]]]

Put(g, c, t) ==
  LET put == [g EXCEPT !.inside[c] = Altered(@, "add", 1, t)]
  IN  IF c = Ground THEN put ELSE Told(Weigh(put, c, Weight(g, t)), c, "add", 1, t)

\* Player::__addThing drops what has no slot.
AddThing(g, c, i, t) ==
  IF c # Carrier THEN Put(g, c, t)
  ELSE IF i \in Slot THEN [g EXCEPT !.worn[i] = t] ELSE g

UpdateThing(g, c, i, n) ==
  LET set == [g EXCEPT !.inside[c] = Altered(@, "update", i, n)]
      diff == n - ThingAt(g, c, i)
  IN  CASE c = Carrier -> [g EXCEPT !.worn[i] = n]
        [] c = Ground -> set
        [] OTHER -> Told(Weigh(set, c, diff), c, "update", i, n)

RemoveThing(g, c, i, m) ==
  LET t == ThingAt(g, c, i)
      out == [g EXCEPT !.inside[c] = Altered(@, "remove", i, t)]
  IN  IF IsStack(t) /\ m # t THEN UpdateThing(g, c, i, t - m)
      ELSE CASE c = Carrier -> [g EXCEPT !.worn[i] = None]
             [] c = Ground -> out
             [] OTHER -> Weigh(Told(out, c, "remove", i, t), c, -Weight(g, t))

-----------------------------------------------------------------------------
(* The notifications that follow.                                          *)

\* sendContainer.
Shows(g, c) == [of |-> c, up |-> Parent(g, c) \in Bag, lists |-> g.inside[c]]
Shown(g, p, k) == [g EXCEPT !.screen[p][k] = Shows(g, g.window[p][k])]

\* onSendContainer: the windows of P on a container are sent anew.
Resent(g, P, c) ==
  [g EXCEPT !.screen = [p \in Viewer |-> [k \in Cid[p] |->
      IF p \in P /\ g.window[p][k] = c /\ c # None THEN Shows(g, c) ELSE @[p][k]]]]

Windows == UNION {{p} \X Cid[p] : p \in Viewer}

Closed(g, shut) ==
  [g EXCEPT !.window = [p \in Viewer |-> [k \in Cid[p] |->
                     IF <<p, k>> \in shut THEN None ELSE @[p][k]]],
            !.screen = [p \in Viewer |-> [k \in Cid[p] |->
                     IF <<p, k>> \in shut THEN Shut ELSE @[p][k]]]]

\* autoCloseContainers: with the windows on what is inside.
AutoClosed(g, P, c) ==
  Closed(g, {w \in Windows :
               LET d == g.window[w[1]][w[2]]
               IN  /\ w[1] \in P /\ d # None
                   /\ c \in Chain(g, d) \/ Root(g, d) = None})

Recount(g, c) == IF Root(g, c) = Carrier THEN [g EXCEPT !.balls = BallsCarried(g)] ELSE g
Concerned(g, c) == IF Root(g, c) = Carrier THEN {Carrier} ELSE Viewer

PostAdd(g, t, c) == Resent(Recount(g, c), Concerned(g, c), t)

\* As if whoever watches a thing could go on watching it.
PostRemoveWatched(g, t, c) ==
  IF t \in Bag THEN Resent(Recount(g, c), Concerned(g, c), t) ELSE Recount(g, c)
PostRemove(g, t, c) ==
  LET P == Concerned(g, c)
      stay == {p \in P : InReach(g, p, t)}
  IN  IF t \notin Bag THEN Recount(g, c)
      ELSE AutoClosed(Resent(Recount(g, c), stay, t), P \ stay, t)

-----------------------------------------------------------------------------
(* The queries.                                                            *)

\* As if only the thing itself counted.
HasCapacityOutside(g, t, from) ==
  Root(g, from) = Carrier \/ g.balls + (IF t = Ball THEN 1 ELSE 0) <= MaxBalls

\* hasCapacity: who carries a thing already may go on carrying it.
HasCapacity(g, t, from) ==
  Root(g, from) = Carrier \/ g.balls + BallsIn(g, t) <= MaxBalls

\* Player::__queryAdd.
CarrierAdmits(g, i, t, from) ==
  IF i \notin Slot \/ (i = Backpack /\ t \notin Bag) THEN "refused"
  ELSE IF g.worn[i] # None /\ ~(IsStack(t) /\ IsStack(g.worn[i])) THEN "exchange"
  ELSE IF HasCapacity(g, t, from) THEN "ok" ELSE "refused"

\* Container::__queryAdd.
BagAdmits(g, c, i, t, from) ==
  IF \/ t \in Chain(g, c)
     \/ i = Wherever /\ Len(g.inside[c]) >= Capacity[c]
     \/ Root(g, c) = Carrier /\ ~HasCapacity(g, t, from)
  THEN "refused" ELSE "ok"

QueryAdd(g, c, i, t, from) ==
  CASE c = Ground -> "ok"
    [] c = Carrier -> CarrierAdmits(g, i, t, from)
    [] OTHER -> BagAdmits(g, c, i, t, from)

RoomOnto(g, c, i) ==
  LET onto == ThingAt(g, c, i)
  IN  IF IsStack(onto) THEN MaxStack - onto ELSE 0

RoomOnCarrier(g, i, t) ==
  IF ThingAt(g, Carrier, i) = None THEN IF IsStack(t) THEN MaxStack ELSE 1
  ELSE IF IsStack(t) THEN RoomOnto(g, Carrier, i) ELSE 0

RoomInBag(g, c, i, t) ==
  LET free == Max({Capacity[c] - Len(g.inside[c]), 0})
  IN  IF IsStack(t) THEN free * MaxStack + RoomOnto(g, c, i) ELSE free

QueryMaxCount(g, c, i, t, count) ==
  CASE c = Ground -> count
    [] c = Carrier -> RoomOnCarrier(g, i, t)
    [] OTHER -> RoomInBag(g, c, i, t)

\* Player::__queryDestination: the slot, or the bag in it; for a thing that may
\* go anywhere the first free slot, or else a bag.
OnwardOnCarrier(g, d, t, from) ==
  LET slots == DOMAIN SlotOrder
      free == {j \in slots : /\ g.worn[SlotOrder[j]] = None
                             /\ QueryAdd(g, Carrier, SlotOrder[j], t, from) = "ok"}
      bags == {b \in Bag : /\ Root(g, b) = Carrier
                           /\ QueryAdd(g, b, Wherever, t, from) = "ok"}
      worn == {j \in slots : g.worn[SlotOrder[j]] \in bags}
      into(b) == [in |-> b, index |-> Wherever]
  IN  IF d.index \in Slot
      THEN IF g.worn[d.index] \in Bag THEN into(g.worn[d.index]) ELSE d
      ELSE IF free # {} THEN [in |-> Carrier, index |-> SlotOrder[Min(free)]]
      ELSE IF worn # {} THEN into(g.worn[SlotOrder[Min(worn)]])
      ELSE IF bags # {} THEN into(CHOOSE b \in bags : TRUE) ELSE d

\* Container::__queryDestination: the container around, a stack to fill, the bag
\* the thing is put onto.
OnwardInBag(g, d, t, from) ==
  LET c == d.in
      room == {j \in DOMAIN g.inside[c] : IsStack(g.inside[c][j]) /\ g.inside[c][j] < MaxStack}
      into(b) == [in |-> b, index |-> Wherever]
  IN  IF d.index = Up /\ Parent(g, c) \in Bag THEN into(Parent(g, c))
      ELSE IF IsStack(t) /\ from # c /\ room # {} THEN [in |-> c, index |-> Min(room)]
      ELSE IF d.index \notin 1 .. Capacity[c] THEN into(c)
      ELSE IF ThingAt(g, c, d.index) \in Bag THEN into(ThingAt(g, c, d.index)) ELSE d

\* One step of __queryDestination.
Onward(g, d, t, from) ==
  CASE d.in = Ground -> [in |-> Ground, index |-> 1]
    [] d.in = Carrier -> OnwardOnCarrier(g, d, t, from)
    [] OTHER -> OnwardInBag(g, d, t, from)

Destination(g, d, t, from) ==
  LET step[n \in 0 .. Cardinality(Bag) + 2] ==
        IF n = 0 THEN d ELSE Onward(g, step[n - 1], t, from)
  IN  step[Cardinality(Bag) + 2]

-----------------------------------------------------------------------------
(* Game::internalMoveItem.                                                 *)

\* What is at d gives way to the thing at i of from, and goes to from.
MayExchange(g, from, i, d) ==
  LET other == ThingAt(g, d.in, d.index)
  IN  /\ QueryAdd(g, from, i, other, d.in) = "ok"
      /\ QueryMaxCount(g, from, Wherever, other, ItemCount(other)) > 0

Exchanged(g, from, d) ==
  LET other == ThingAt(g, d.in, d.index)
      out == RemoveThing(g, d.in, d.index, ItemCount(other))
      put == AddThing(out, from, Wherever, other)
  IN  PostAdd(PostRemove(put, other, d.in), other, from)

\* How many of t find room at d.
Movable(g, d, t, count) ==
  LET max == QueryMaxCount(g, d.in, d.index, t, count)
  IN  IF IsStack(t) THEN Min({count, max}) ELSE max

\* Of m coins of t those that fill the stack onto which they come; what is left
\* is a new one.
Filling(onto, t, m) ==
  IF IsStack(t) /\ IsStack(onto) THEN Min({MaxStack - onto, m}) ELSE 0
Filled(g, c, i, onto, n) == IF n > 0 THEN UpdateThing(g, c, i, onto + n) ELSE g
Rest(t, m, n) == IF IsStack(t) THEN m - n ELSE t
Laid(g, d, t, m, n) ==
  IF IsStack(t) /\ m = n THEN g ELSE AddThing(g, d.in, d.index, Rest(t, m, n))

\* m of t, which is at i of from, go to d, where onto is.
Carried(g, from, i, d, t, onto, m) ==
  LET n == Filling(onto, t, m)
      gone == ~IsStack(t) \/ m = t
      at == d.index - (IF d.in = from /\ from # Carrier /\ gone /\ i < d.index THEN 1 ELSE 0)
      filled == Filled(RemoveThing(g, from, i, m), d.in, at, onto, n)
  IN  IF m = 0 \/ (IsStack(t) /\ m > t) THEN g
      ELSE PostAdd(PostRemove(Laid(filled, d, t, m, n), t, from), t, d.in)

\* After the exchange, what made room is in front of the thing.
Follows(g, from, i, d, t, count) ==
  IF QueryAdd(g, d.in, d.index, t, from) = "ok"
  THEN Carried(g, from, i, d, t, None, Movable(g, d, t, count)) ELSE g

MoveTo(g, from, i, d, t, count) ==
  LET answer == QueryAdd(g, d.in, d.index, t, from)
      onto == ThingAt(g, d.in, d.index)
  IN  IF d = [in |-> from, index |-> i] \/ answer = "refused" THEN g
      ELSE IF answer = "ok" THEN Carried(g, from, i, d, t, onto, Movable(g, d, t, count))
      ELSE IF MayExchange(g, from, i, d)
      THEN Follows(Exchanged(g, from, d), from, i + 1, d, t, count) ELSE g

InternalMoveItem(g, from, i, to, count) ==
  LET t == ThingAt(g, from, i)
  IN  MoveTo(g, from, i, Destination(g, to, t, from), t, count)

AddAt(g, d, t) ==
  LET onto == ThingAt(g, d.in, d.index)
      n == Filling(onto, t, t)
      filled == Filled(g, d.in, d.index, onto, n)
      rest == Rest(t, t, n)
  IN  IF \/ QueryAdd(g, d.in, d.index, t, None) # "ok"
         \/ QueryMaxCount(g, d.in, d.index, t, ItemCount(t)) < ItemCount(t)
      THEN g
      ELSE IF n = ItemCount(t) THEN filled
      ELSE PostAdd(AddThing(filled, d.in, d.index, rest), rest, d.in)

\* g itself when the thing is refused.
InternalAddItem(g, c, t) ==
  AddAt(g, Onward(g, [in |-> c, index |-> Wherever], t, None), t)

\* What the carrier cannot take is dropped.
OrDropped(g, in, t) == IF in # g THEN in ELSE PostAdd(Put(g, Ground, t), t, Ground)
InternalPlayerAddItem(g, t) == OrDropped(g, InternalAddItem(g, Carrier, t), t)

\* What is in a bag goes with it.
Emptied(g, gone) ==
  [g EXCEPT !.inside = [d \in DOMAIN @ |-> IF d \in gone THEN <<>> ELSE @[d]],
            !.weight = [d \in Bag |-> IF d \in gone THEN 0 ELSE @[d]]]
InternalRemoveItem(g, c, i, m) ==
  LET t == ThingAt(g, c, i)
  IN  Emptied(PostRemove(RemoveThing(g, c, i, m), t, c),
              IF t \in Bag THEN Within(g, t) ELSE {})

\* removeMoney takes the smaller stacks first, and gives change; of equal ones in
\* two bags some one comes first.
Purse(g) ==
  {at \in [in : {Carrier}, index : Slot]
          \union [in : {b \in Bag : Root(g, b) = Carrier}, index : 1 .. About] :
     IsStack(ThingAt(g, at.in, at.index))}

Smallest(g) ==
  LET size(at) == ThingAt(g, at.in, at.index)
      small == {at \in Purse(g) : \A other \in Purse(g) : size(at) <= size(other)}
  IN  CHOOSE at \in small : \A other \in small :
        \/ at.in = Carrier
        \/ other.in # Carrier /\ (other.in = at.in => at.index <= other.index)

\* The stack that was worth so much is gone.
Change(g, worth, owed) ==
  IF worth > owed THEN [now |-> InternalPlayerAddItem(g, worth - owed), owed |-> 0]
  ELSE [now |-> g, owed |-> owed - worth]
PayWith(last, at) ==
  LET worth == ThingAt(last.now, at.in, at.index)
  IN  IF last.owed = 0 \/ Purse(last.now) = {} THEN last
      ELSE Change(InternalRemoveItem(last.now, at.in, at.index, worth), worth, last.owed)

RemoveMoney(g, money) ==
  LET pay[n \in 0 .. About] ==
        IF n = 0 THEN [now |-> g, owed |-> money]
        ELSE PayWith(pay[n - 1], Smallest(pay[n - 1].now))
  IN  pay[About].now

-----------------------------------------------------------------------------
(* What players do, and scripts.                                           *)

Looked(p) == Range(goods.window[p]) \ {None}

\* Where a client finds things: on the ground, on the player, in its windows.
Named(p) ==
  {at \in [in : {Ground}, index : IF p \in goods.near THEN {1} ELSE {}]
          \union [in : {Carrier} \intersect {p}, index : Slot]
          \union UNION {[in : {c}, index : 1 .. Capacity[c]] : c \in Looked(p)} :
     ThingAt(goods, at.in, at.index) # None}

\* Where it may put one.  The arrow that moves a thing up is shown where there
\* is a container around.
Places(p) ==
  [in : {Ground}, index : {1}]
  \union [in : {Carrier} \intersect {p}, index : Slot \union {Wherever}]
  \union UNION {[in : {c}, index : (1 .. Capacity[c]) \union {Wherever}
                                  \union IF Parent(goods, c) \in Bag THEN {Up} ELSE {}] :
                   c \in Looked(p)}

\* playerMoveItem.
Move(p) ==
  \E at \in Named(p), to \in Places(p) :
    \E count \in 1 .. ItemCount(ThingAt(goods, at.in, at.index)) :
      goods' = InternalMoveItem(goods, at.in, at.index, to, count)

\* Using a container shuts the windows on it, of which the server forgets one.
UseContainer(p) ==
  \E c \in {ThingAt(goods, at.in, at.index) : at \in Named(p)}, k \in Cid[p] :
    /\ c \in Bag
    /\ LET on == {j \in Cid[p] : goods.window[p][j] = c}
       IN  IF on = {}
           THEN goods' = Resent([goods EXCEPT !.window[p][k] = c], {p}, c)
           ELSE \E j \in on :
                  goods' = [goods EXCEPT !.window[p][j] = None,
                                         !.screen[p] = [i \in Cid[p] |->
                                            IF i \in on THEN Shut ELSE @[i]]]

MoveUpContainer(p) ==
  \E k \in Cid[p] :
    LET c == goods.window[p][k]
        around == Parent(goods, c)
    IN  /\ c # None /\ around \in Bag
        /\ goods' = Shown([goods EXCEPT !.window[p][k] = around], p, k)

UpdateContainer(p) ==
  \E k \in Cid[p] :
    /\ goods.window[p][k] # None
    /\ goods' = Shown(goods, p, k)

CloseContainer(p) ==
  \E k \in Cid[p] :
    goods' = [goods EXCEPT !.window[p][k] = None, !.screen[p][k] = Shut]

\* A player comes near, or goes away.
ComeNearOrGo(p) ==
  LET g == [goods EXCEPT !.near = SymDiff(@, {p})]
  IN  goods' = Closed(g, {w \in Windows :
                 LET c == g.window[w[1]][w[2]]
                 IN  w[1] = p /\ c # None /\ ~InReach(g, p, c)})

\* What should be in the game from now on.
Meant(g, coins, balls, bags) ==
  [g EXCEPT !.meant.coins = @ + coins, !.meant.balls = @ + balls,
            !.meant.bags = SymDiff(@, bags)]

\* A script gives a thing to the carrier, or puts it into a container.
Give ==
  \E t \in Stack \union {Ball} \union (Bag \ goods.meant.bags), c \in {Carrier} \union Bag :
    \E into \in {IF c = Carrier THEN InternalPlayerAddItem(goods, t)
                 ELSE InternalAddItem(goods, c, t)} :
        /\ goods.meant.coins + goods.meant.balls + Cardinality(goods.meant.bags) + ItemCount(t) <= About
        /\ Root(goods, c) # None /\ into # goods
        /\ Carrier \notin goods.near => into.inside[Ground] = goods.inside[Ground]
        /\ goods' = Meant(into, IF IsStack(t) THEN t ELSE 0, IF t = Ball THEN 1 ELSE 0,
                          {t} \intersect Bag)

\* A script takes a thing away.
Take ==
  \E at \in [in : {Carrier}, index : Slot] \union [in : Bag \union {Ground}, index : 1 .. About + 1] :
    LET t == ThingAt(goods, at.in, at.index)
    IN  /\ t # None /\ Root(goods, at.in) # None
        /\ \E m \in 1 .. ItemCount(t) :
             goods' = Meant(InternalRemoveItem(goods, at.in, at.index, m),
                            -(IF IsStack(t) THEN m ELSE CoinsIn(goods, t)),
                            -BallsIn(goods, t), IF t \in Bag THEN Within(goods, t) ELSE {})

\* A script makes the carrier pay.
Pay ==
  \E money \in 1 .. About :
    /\ money <= CoinsCarried(goods)
    /\ goods' = Meant(RemoveMoney(goods, money), -money, 0, {})

ContainersNext ==
  \/ \E p \in Viewer : \/ Move(p) \/ UseContainer(p) \/ MoveUpContainer(p)
                       \/ UpdateContainer(p) \/ CloseContainer(p) \/ ComeNearOrGo(p)
  \/ Give \/ Take \/ Pay

ContainersSpec == ContainersInit /\ [][ContainersNext]_goods

-----------------------------------------------------------------------------
(* Properties.                                                             *)

Thing == Stack \union {Ball} \union Bag

\* Types.
ContainersTypeOK ==
  /\ goods.weight \in [Bag -> Nat] /\ goods.balls \in Nat
  /\ \A p \in Viewer : goods.window[p] \in [Cid[p] -> Bag \union {None}]
  /\ goods.near \subseteq Viewer

\* However things are moved, exchanged, split, added and paid with, no container
\* holds more than it has room for, and only whole things are held.
RoomForAll ==
  /\ goods.inside \in [Bag \union {Ground} -> Seq(Thing)]
  /\ goods.worn \in [Slot -> Thing \union {None}]
  /\ \A c \in Bag : Len(goods.inside[c]) <= Capacity[c]

\* Whatever is moved, swapped, stacked, given, taken or paid: no coin, ball or
\* bag is lost or made twice, a bag is with the carrier or on the ground in the
\* end, a container is never overfull and weighs what is in it, and the carrier
\* has the balls that are counted, which are within the limit.
NothingIsLost ==
  LET all == DOMAIN goods.inside
      inAll(Of(_, _)) == MapThenSumSet(LAMBDA c : Of(goods, c), all)
      slots(Is(_)) == Cardinality({s \in Slot : Is(goods.worn[s])})
      holders(b) == Cardinality({c \in all : Has(goods, c, b)}) + slots(LAMBDA t : t = b)
  IN  /\ RoomForAll
      /\ goods.meant.coins = inAll(CoinsAt) + MapThenSumSet(LAMBDA s :
            IF IsStack(goods.worn[s]) THEN goods.worn[s] ELSE 0, Slot)
      /\ goods.meant.balls = inAll(BallsAt) + slots(LAMBDA t : t = Ball)
      /\ \A b \in Bag : /\ holders(b) = IF b \in goods.meant.bags THEN 1 ELSE 0
                        /\ Root(goods, b) # None \/ b \notin goods.meant.bags
      /\ \A c \in Bag :
           goods.weight[c] = FoldSeq(LAMBDA t, n : n + Weight(goods, t), 0, goods.inside[c])
      /\ goods.balls = BallsCarried(goods) /\ goods.balls <= MaxBalls

\* A window is on a container its player can reach, and what a client shows is
\* what the container holds, in its order, so that the thing it names by window
\* and index is the thing the player sees.
WindowsAreTrue ==
  \A p \in Viewer : \A k \in Cid[p] :
    LET c == goods.window[p][k]
    IN  /\ c # None => InReach(goods, p, c)
        /\ goods.screen[p][k] # Shut =>
             goods.screen[p][k] = Shows(goods, c)

\* Windows and belongings agree with each other and with what was done.
BelongingsAreTrue == NothingIsLost /\ WindowsAreTrue
=============================================================================
