----------------------------- MODULE TradeProofs -----------------------------
(***************************************************************************)
(* Proofs about trades, for any players, items, bags, houses and places.   *)
(***************************************************************************)
EXTENDS Trade, TLAPS

\* The part of the state that is about trades.
TradeTypes ==
  /\ tradeState \in [Player -> States]
  /\ tradePartner \in [Player -> Player \union {None}]
  /\ tradeItem \in [Player -> Goods \union {None}]
  /\ tradeItems \in [Goods -> Player \union {None}]
  /\ shown \in [Player -> [own : SUBSET Goods, theirs : SUBSET Goods]]

\* A window shows only offers there are, so who may accept has made one and so
\* has the partner.
WindowsAreOfTrades ==
  \A p \in Player :
    /\ shown[p].own # {} => tradeItem[p] # None
    /\ shown[p].theirs # {} => /\ tradePartner[p] # None
                               /\ tradeItem[tradePartner[p]] # None

\* Who offers a transfer document is the seller it names.
DeedsAreSellers == \A p \in Player : tradeItem[p] \in Deed => tradeItem[p][2] = p

TradeInv ==
  /\ TradeTypes /\ PartnersAgree /\ RegisterIsExact
  /\ WindowsAreOfTrades /\ DeedsAreSellers

USE TradeAssumption DEF TradeAssumption

-----------------------------------------------------------------------------
\* Trades end for both partners, and for nobody else.
LEMMA EndingTrades ==
  ASSUME TradeInv, NEW S \in SUBSET Player, CloseTrades(S)
  PROVE  TradeInv'
<1> DEFINE T == WithPartners(S)
<1>1. /\ TradeTypes /\ PartnersAgree /\ RegisterIsExact
      /\ WindowsAreOfTrades /\ DeedsAreSellers
  BY DEF TradeInv
<1>2. /\ T \subseteq Player
      /\ \A p \in Player : tradePartner[p] # None => (p \in T <=> tradePartner[p] \in T)
  BY <1>1 DEF WithPartners, TradeTypes, PartnersAgree
<1> HIDE DEF T
<1>3. /\ tradeState' = [p \in Player |-> IF p \in T THEN "NONE" ELSE tradeState[p]]
      /\ tradePartner' = [p \in Player |-> IF p \in T THEN None ELSE tradePartner[p]]
      /\ tradeItem' = [p \in Player |-> IF p \in T THEN None ELSE tradeItem[p]]
      /\ tradeItems' = [g \in Goods |-> IF \E p \in T : tradeItem[p] = g
                                        THEN None ELSE tradeItems[g]]
      /\ shown' = [p \in Player |-> IF p \in T THEN Closed ELSE shown[p]]
  BY DEF CloseTrades, EndTrades, T
<1>4. TradeTypes'
  BY <1>1, <1>3 DEF TradeTypes, States, Closed
<1>5. PartnersAgree'
  BY <1>1, <1>2, <1>3 DEF TradeTypes, PartnersAgree
<1>6. RegisterIsExact'
  <2> SUFFICES ASSUME NEW g \in Goods, NEW p \in Player
               PROVE  tradeItems'[g] = p <=> tradeItem'[p] = g
    BY DEF RegisterIsExact
  <2>1. None \notin Player /\ g # None
    BY DEF Goods, Deed
  <2>2. CASE \E q \in T : tradeItem[q] = g
    <3>1. \A q \in Player : tradeItem[q] = g => q \in T
      BY <1>1, <1>2, <2>2 DEF RegisterIsExact
    <3>2. QED
      BY <1>3, <2>1, <2>2, <3>1
  <2>3. CASE ~\E q \in T : tradeItem[q] = g
    BY <1>1, <1>3, <2>1, <2>3 DEF RegisterIsExact
  <2>4. QED
    BY <2>2, <2>3
<1>7. WindowsAreOfTrades'
  BY <1>1, <1>2, <1>3 DEF TradeTypes, WindowsAreOfTrades, Closed
<1>8. DeedsAreSellers'
  BY <1>1, <1>3 DEF DeedsAreSellers, Deed
<1>9. QED
  BY <1>4, <1>5, <1>6, <1>7, <1>8 DEF TradeInv

\* A trade starts between two who deal with nobody else, for goods that are not
\* offered yet.
LEMMA StartingTrades ==
  ASSUME TradeInv, NEW p \in Player, NEW q \in Player, p # q, NEW g \in Goods,
         StartTrade(p, q, g), tradeItems[g] = None, g \in Deed => g[2] = p
  PROVE  TradeInv'
<1>1. /\ TradeTypes /\ PartnersAgree /\ RegisterIsExact
      /\ WindowsAreOfTrades /\ DeedsAreSellers
  BY DEF TradeInv
<1>2. g # None /\ None \notin Player
  BY DEF Goods, Deed
<1>3. /\ tradeItem' = [tradeItem EXCEPT ![p] = g]
      /\ tradeItems' = [tradeItems EXCEPT ![g] = p]
      /\ tradePartner' = [tradePartner EXCEPT ![p] = q, ![q] = p]
  BY DEF StartTrade
<1>4. MayStart(p, q)
  BY DEF StartTrade
<1>5. tradeItem[p] = None /\ tradePartner[p] \in {None, q}
  BY <1>1, <1>4 DEF MayStart, PartnersAgree, TradeTypes
<1>6. tradePartner[q] \in {None, p} /\ (tradePartner[q] = p <=> tradePartner[p] = q)
  BY <1>1, <1>2, <1>4 DEF MayStart, PartnersAgree
<1>7. RegisterIsExact' /\ DeedsAreSellers'
  <2>1. /\ \A r \in Player : tradeItem[r] # g
        /\ \A o \in Goods : tradeItems[o] # p
    BY <1>1, <1>2, <1>5 DEF RegisterIsExact, TradeTypes, Goods, Deed
  <2>2. /\ tradeItem'[p] = g /\ \A r \in Player \ {p} : tradeItem'[r] = tradeItem[r]
        /\ tradeItems'[g] = p
        /\ \A o \in Goods \ {g} : tradeItems'[o] = tradeItems[o]
    BY <1>1, <1>3 DEF TradeTypes
  <2>3. RegisterIsExact'
    BY <1>1, <2>1, <2>2 DEF RegisterIsExact
  <2>4. DeedsAreSellers'
    BY <1>1, <2>2 DEF DeedsAreSellers
  <2>5. QED
    BY <2>3, <2>4
<1>8. Contents(g) \in SUBSET Goods
  BY DEF Contents, Goods
<1>9. \A r \in Player \ {p, q} : tradePartner[r] \notin {p, q}
  BY <1>1, <1>5, <1>6 DEF PartnersAgree
<1>10. CASE tradeState[q] = "NONE"
  <2>1. /\ tradeState' = [tradeState EXCEPT ![p] = "INITIATED", ![q] = "ACKNOWLEDGE"]
        /\ shown' = [shown EXCEPT ![p].own = Contents(g)]
    BY <1>10 DEF StartTrade
  <2>2. tradePartner[q] = None /\ tradePartner[p] = None /\ tradeItem[q] = None
    BY <1>1, <1>2, <1>5, <1>6, <1>10 DEF PartnersAgree
  <2>3. TradeTypes'
    <3>1. shown' \in [Player -> [own : SUBSET Goods, theirs : SUBSET Goods]]
      BY <1>1, <1>8, <2>1 DEF TradeTypes
    <3>2. tradeState' \in [Player -> States]
      BY <1>1, <2>1 DEF TradeTypes, States
    <3>3. QED
      BY <1>1, <1>3, <3>1, <3>2 DEF TradeTypes
  <2>4. PartnersAgree'
    BY <1>1, <1>2, <1>3, <1>9, <2>1, <2>2 DEF TradeTypes, PartnersAgree
  <2>5. /\ shown'[p].theirs = shown[p].theirs
        /\ \A r \in Player \ {p} : shown'[r] = shown[r]
    BY <1>1, <2>1 DEF TradeTypes
  <2>6. /\ tradeItem'[p] = g /\ \A r \in Player \ {p} : tradeItem'[r] = tradeItem[r]
        /\ \A r \in Player \ {p, q} : tradePartner'[r] = tradePartner[r]
        /\ tradePartner'[p] = q /\ tradePartner'[q] = p
    BY <1>1, <1>3 DEF TradeTypes
  <2>7. WindowsAreOfTrades'
    BY <1>1, <1>2, <1>9, <2>2, <2>5, <2>6 DEF TradeTypes, WindowsAreOfTrades
  <2>8. QED
    BY <1>7, <2>3, <2>4, <2>7 DEF TradeInv
<1>11. CASE tradeState[q] # "NONE"
  <2>1. /\ tradeState' = [tradeState EXCEPT ![p] = "INITIATED"]
        /\ shown' = [shown EXCEPT
                       ![p] = [own |-> Contents(g), theirs |-> Contents(tradeItem[q])],
                       ![q].theirs = Contents(g)]
    BY <1>11 DEF StartTrade
  <2>2. tradePartner[q] = p /\ tradePartner[p] = q
    BY <1>1, <1>6, <1>11 DEF PartnersAgree, TradeTypes
  <2>3. tradeState[p] = "ACKNOWLEDGE"
    BY <1>1, <1>2, <1>4, <2>2 DEF MayStart, PartnersAgree
  <2>4. tradeState[q] = "INITIATED" /\ tradeItem[q] # None
    BY <1>1, <1>2, <2>2, <2>3 DEF PartnersAgree
  <2>5. Contents(tradeItem[q]) \in SUBSET Goods
    BY <1>1, <2>4 DEF Contents, Goods, TradeTypes
  <2>6. TradeTypes'
    <3>1. shown' \in [Player -> [own : SUBSET Goods, theirs : SUBSET Goods]]
      <4> DEFINE w == [own |-> Contents(g), theirs |-> Contents(tradeItem[q])]
                 f == [shown EXCEPT ![p] = w]
      <4>1. w \in [own : SUBSET Goods, theirs : SUBSET Goods]
        BY <1>8, <2>5
      <4> HIDE DEF w
      <4>2. f \in [Player -> [own : SUBSET Goods, theirs : SUBSET Goods]]
        BY <1>1, <4>1 DEF TradeTypes
      <4>3. shown' = [f EXCEPT ![q].theirs = Contents(g)]
        BY <2>1 DEF w
      <4> HIDE DEF f
      <4>4. QED
        BY <1>8, <4>2, <4>3
    <3>2. tradeState' \in [Player -> States]
      BY <1>1, <2>1 DEF TradeTypes, States
    <3>3. QED
      BY <1>1, <1>3, <3>1, <3>2 DEF TradeTypes
  <2>7. PartnersAgree'
    BY <1>1, <1>2, <1>3, <1>9, <2>1, <2>2, <2>4 DEF TradeTypes, PartnersAgree
  <2>8. /\ shown'[q].own = shown[q].own
        /\ \A r \in Player \ {p, q} : shown'[r] = shown[r]
    BY <1>1, <2>1 DEF TradeTypes
  <2>9. /\ tradeItem'[p] = g /\ \A r \in Player \ {p} : tradeItem'[r] = tradeItem[r]
        /\ \A r \in Player \ {p, q} : tradePartner'[r] = tradePartner[r]
        /\ tradePartner'[p] = q /\ tradePartner'[q] = p
    BY <1>1, <1>3 DEF TradeTypes
  <2>10. WindowsAreOfTrades'
    BY <1>1, <1>2, <1>9, <2>4, <2>8, <2>9 DEF TradeTypes, WindowsAreOfTrades
  <2>11. QED
    BY <1>7, <2>6, <2>7, <2>10 DEF TradeInv
<1>12. QED
  BY <1>10, <1>11

\* Whatever leaves all offers alone leaves all trades alone.
LEMMA SameOffers ==
  ASSUME TradeInv, UNCHANGED <<tradeState, tradePartner, tradeItem, tradeItems, shown>>
  PROVE  TradeInv'
BY DEF TradeInv, TradeTypes, PartnersAgree, RegisterIsExact, WindowsAreOfTrades,
   DeedsAreSellers

-----------------------------------------------------------------------------
\* Every request and every move keeps the invariant.
LEMMA TradeStep ==
  ASSUME TradeInv, [Next]_vars
  PROVE  TradeInv'
<1>1. /\ TradeTypes /\ PartnersAgree /\ RegisterIsExact
      /\ WindowsAreOfTrades /\ DeedsAreSellers
  BY DEF TradeInv
<1>2. ASSUME NEW p \in Player, NEW q \in Player, NEW i \in Item, RequestTrade(p, q, i)
      PROVE  TradeInv'
  <2>1. p # q /\ StartTrade(p, q, i) /\ i \in Goods /\ i \notin Deed
    BY <1>2 DEF RequestTrade, Goods, Deed
  <2>2. tradeItems[i] = None
    BY <1>2, <2>1 DEF RequestTrade, NotTraded
  <2>3. QED
    BY <2>1, <2>2, StartingTrades
<1>3. ASSUME NEW p \in Player, NEW q \in Player, NEW h \in House, SellHouse(p, q, h)
      PROVE  TradeInv'
  <2>1. CASE StartTrade(p, q, <<h, p>>)
    <3>1. p # q /\ <<h, p>> \in Goods /\ <<h, p>> \in Deed /\ <<h, p>>[2] = p
      BY <1>3 DEF SellHouse, Goods, Deed
    <3>2. tradeItem[p] = None
      BY <1>1, <2>1 DEF StartTrade, MayStart, PartnersAgree
    <3>3. \A r \in Player : tradeItem[r] # <<h, p>>
      BY <1>1, <3>1, <3>2 DEF DeedsAreSellers, Goods, Deed
    <3>4. tradeItems[<<h, p>>] = None
      BY <1>1, <3>1, <3>3 DEF RegisterIsExact, TradeTypes
    <3>5. QED
      BY <2>1, <3>1, <3>4, StartingTrades
  <2>2. CASE ~StartTrade(p, q, <<h, p>>)
    BY <1>3, <2>2, SameOffers DEF SellHouse
  <2>3. QED
    BY <2>1, <2>2
<1>4. ASSUME NEW p \in Player, CloseTrade(p) \/ Logout(p) \/ AcceptWithoutRoom(p)
      PROVE  TradeInv'
  <2>1. CloseTrades({p})
    BY <1>4 DEF CloseTrade, Logout, AcceptWithoutRoom
  <2>2. QED
    BY <2>1, EndingTrades
<1>5. ASSUME NEW p \in Player, NEW s \in Spot, Walk(p, s) PROVE TradeInv'
  <2>1. PICK S \in SUBSET Player : CloseTrades(S)
    BY <1>5 DEF Walk
  <2>2. QED
    BY <2>1, EndingTrades
<1>6. ASSUME NEW p \in Player, NEW i \in Item, NEW c \in Places, MoveItem(p, i, c)
      PROVE  TradeInv'
  <2>1. PICK S \in SUBSET Player : CloseTrades(S)
    BY <1>6 DEF MoveItem
  <2>2. QED
    BY <2>1, EndingTrades
<1>7. ASSUME NEW p \in Player, AcceptAndWait(p) PROVE TradeInv'
  <2>1. /\ shown[p].own # {} /\ shown[p].theirs # {}
        /\ tradeState' = [tradeState EXCEPT ![p] = "ACCEPT"]
        /\ UNCHANGED <<tradePartner, tradeItem, tradeItems, shown>>
    BY <1>7 DEF AcceptAndWait, MayAccept, BothShown
  <2>2. /\ tradeItem[p] # None /\ tradePartner[p] # None
        /\ tradeItem[tradePartner[p]] # None
    BY <1>1, <2>1 DEF WindowsAreOfTrades
  <2>3. TradeTypes' /\ RegisterIsExact' /\ WindowsAreOfTrades' /\ DeedsAreSellers'
    BY <1>1, <2>1 DEF TradeTypes, RegisterIsExact, WindowsAreOfTrades,
       DeedsAreSellers, States
  <2>4. tradeState[p] # "NONE" /\ tradeState[tradePartner[p]] \in {"INITIATED", "ACCEPT"}
    BY <1>1, <2>2 DEF PartnersAgree, TradeTypes
  <2>5. \A r \in Player : tradePartner[r] = p => r = tradePartner[p]
    BY <1>1, <2>2 DEF PartnersAgree
  <2>6. PartnersAgree'
    BY <1>1, <2>1, <2>2, <2>4, <2>5 DEF PartnersAgree, TradeTypes
  <2>7. QED
    BY <2>3, <2>6 DEF TradeInv
<1>8. ASSUME NEW p \in Player, AcceptAndSwap(p) PROVE TradeInv'
  <2>1. PICK S : S \subseteq {p} \union Displaced /\ CloseTrades(S)
    BY <1>8 DEF AcceptAndSwap
  <2>2. S \in SUBSET Player
    BY <2>1 DEF Displaced
  <2>3. QED
    BY <2>1, <2>2, EndingTrades
<1>9. ASSUME NEW p \in Player, NEW h \in House, LeaveHouse(p, h) PROVE TradeInv'
  <2>1. CloseTrades(Displaced)
    BY <1>9 DEF LeaveHouse
  <2>2. Displaced \in SUBSET Player
    BY DEF Displaced
  <2>3. QED
    BY <2>1, <2>2, EndingTrades
<1>10. ASSUME NEW p \in Player, NEW h \in House, Login(p) \/ BuyHouse(p, h)
       PROVE  TradeInv'
  BY <1>10, SameOffers DEF Login, BuyHouse, offers
<1>11. ASSUME NEW p \in Player, Login(p) PROVE TradeInv'
  BY <1>11, SameOffers DEF Login, offers
<1>12. CASE UNCHANGED vars
  BY <1>12, SameOffers DEF vars
<1>13. QED
  BY <1>2, <1>3, <1>4, <1>5, <1>6, <1>7, <1>8, <1>9, <1>10, <1>11, <1>12 DEF Next

\* Two players deal with each other or not at all, and the register lists just
\* what they offer: for any number of players and goods, through every move,
\* logout, house that is cleared and accept.
THEOREM TradeSafe == Spec => []TradesAgree
<1>1. Init => TradeInv
  BY DEF Init, TradeInv, TradeTypes, States, Closed, PartnersAgree, RegisterIsExact,
     WindowsAreOfTrades, DeedsAreSellers, Goods, Deed
<1>2. TradeInv /\ [Next]_vars => TradeInv'
  BY TradeStep
<1>3. TradeInv => TradesAgree
  BY DEF TradeInv, TradesAgree
<1>4. QED
  BY <1>1, <1>2, <1>3, PTL DEF Spec

-----------------------------------------------------------------------------
(* Things in bags, whatever they are in now.                               *)

HoldsIn(f, b, i) ==
  /\ b \in Bag /\ i \in Item
  /\ f[i] = b \/ (f[i] \in Bag /\ f[f[i]] = b)

TopIn(f, x) ==
  IF x \notin Bag THEN x ELSE IF f[x] \notin Bag THEN f[x] ELSE f[f[x]]

\* No bag lies in a bag in a bag, so no bag is in itself at any depth.
ShallowIn(f) ==
  \A i \in Item : f[i] \in Bag /\ f[f[i]] \in Bag => f[f[f[i]]] \notin Bag

\* What is left of __queryAdd.
FitsIn(f, i, c) ==
  c \in Bag =>
    /\ c # i /\ ~HoldsIn(f, i, c)
    /\ f[c] \in Bag => f[f[c]] \notin Bag /\ i \notin Bag
    /\ i \in Bag => ~\E j \in Item : f[j] \in Bag /\ f[f[j]] = i

\* i is put into c; a document is nowhere.
PutIn(f, i, c) == [j \in Item |-> IF j = i THEN c ELSE f[j]]

\* Bags are things that are no places for themselves.
LEMMA Kinds ==
  /\ Bag \subseteq Item /\ \A x \in Player \union Spot : x \notin Item /\ x \notin Bag
  /\ \A x \in Deed : x \notin Item /\ x \notin Bag
  /\ None \notin Goods /\ None \notin Bag /\ None \notin Player
BY DEF Deed, Goods

\* A thing in a bag is where the bag is.
LEMMA HeldTogether ==
  ASSUME NEW f \in [Item -> Places], ShallowIn(f), NEW b, NEW i, HoldsIn(f, b, i)
  PROVE  TopIn(f, f[i]) = TopIn(f, f[b])
<1>1. b \in Item /\ i \in Item /\ b \in Bag
  BY Kinds DEF HoldsIn
<1>2. CASE f[i] = b
  <2>1. f[b] \in Bag => f[f[b]] \notin Bag
    BY <1>1, <1>2 DEF ShallowIn
  <2>2. QED
    BY <1>1, <1>2, <2>1 DEF TopIn
<1>3. CASE f[i] \in Bag /\ f[f[i]] = b
  <2>1. f[b] \notin Bag
    BY <1>1, <1>3 DEF ShallowIn
  <2>2. QED
    BY <1>1, <1>3, <2>1 DEF TopIn
<1>4. QED
  BY <1>1, <1>2, <1>3 DEF HoldsIn

\* What is with a player or a place is so in the end.
LEMMA TopIsPlace ==
  ASSUME NEW f \in [Item -> Places], ShallowIn(f), NEW i \in Item
  PROVE  TopIn(f, f[i]) \in Player \union Spot
<1>1. /\ f[i] \in Places
      /\ f[i] \in Bag => f[f[i]] \in Places
      /\ f[i] \in Bag /\ f[f[i]] \in Bag => f[f[f[i]]] \in Places
  BY Kinds DEF Places
<1>2. QED
  BY <1>1 DEF TopIn, ShallowIn, Places

\* A bag is not in itself, nor is what it holds around it.
LEMMA HeldOneWay ==
  ASSUME NEW f \in [Item -> Places], ShallowIn(f), NEW a, NEW b, HoldsIn(f, a, b)
  PROVE  a # b /\ ~HoldsIn(f, b, a)
BY Kinds DEF HoldsIn, ShallowIn

\* What a bag holds that another bag holds is held by that, too.
LEMMA HeldThrough ==
  ASSUME NEW f \in [Item -> Places], ShallowIn(f), NEW a, NEW b, NEW c,
         HoldsIn(f, a, b), HoldsIn(f, b, c)
  PROVE  HoldsIn(f, a, c)
BY Kinds DEF HoldsIn, ShallowIn

\* What changes of what bags hold when one thing is put elsewhere.
LEMMA PutHolds ==
  ASSUME NEW f \in [Item -> Places], NEW i \in Goods, NEW c \in Places, FitsIn(f, i, c),
         NEW b, NEW j
  PROVE  /\ HoldsIn(PutIn(f, i, c), b, j) =>
              HoldsIn(f, b, j) \/ ((b = c \/ HoldsIn(f, b, c)) /\ (j = i \/ HoldsIn(f, i, j)))
         /\ HoldsIn(f, b, j) =>
              HoldsIn(PutIn(f, i, c), b, j) \/ (HoldsIn(f, b, i) /\ (j = i \/ HoldsIn(f, i, j)))
<1> DEFINE g == PutIn(f, i, c)
<1>1. \A k \in Item : g[k] = IF k = i THEN c ELSE f[k]
  BY DEF PutIn
<1> HIDE DEF g
<1>2. HoldsIn(g, b, j) =>
        HoldsIn(f, b, j) \/ ((b = c \/ HoldsIn(f, b, c)) /\ (j = i \/ HoldsIn(f, i, j)))
  BY <1>1, Kinds DEF HoldsIn, FitsIn
<1>3. HoldsIn(f, b, j) =>
        HoldsIn(g, b, j) \/ (HoldsIn(f, b, i) /\ (j = i \/ HoldsIn(f, i, j)))
  BY <1>1, Kinds DEF HoldsIn, FitsIn
<1>4. QED
  BY <1>2, <1>3 DEF g

\* A thing that is put where it fits leaves bags shallow.
LEMMA PutShallow ==
  ASSUME NEW f \in [Item -> Places], ShallowIn(f), NEW i \in Goods, NEW c \in Places,
         FitsIn(f, i, c)
  PROVE  PutIn(f, i, c) \in [Item -> Places] /\ ShallowIn(PutIn(f, i, c))
<1> DEFINE g == PutIn(f, i, c)
<1>1. g \in [Item -> Places] /\ \A k \in Item : g[k] = IF k = i THEN c ELSE f[k]
  BY DEF PutIn
<1> HIDE DEF g
<1>2. ASSUME NEW k \in Item, g[k] \in Bag, g[g[k]] \in Bag, g[g[g[k]]] \in Bag PROVE FALSE
  <2>1. g[k] \in Item /\ g[g[k]] \in Item
    BY <1>2, Kinds
  <2>2. CASE k = i
    <3>1. g[k] = c /\ c # i /\ g[c] = f[c] /\ c \in Bag
      BY <1>1, <1>2, <2>1, <2>2 DEF FitsIn
    <3>2. f[c] # i /\ f[c] \in Item
      BY <1>2, <2>1, <2>2, <3>1, Kinds DEF FitsIn, HoldsIn
    <3>3. g[g[c]] = f[f[c]]
      BY <1>1, <3>1, <3>2
    <3>4. QED
      BY <1>2, <3>1, <3>3 DEF FitsIn
  <2>3. CASE k # i /\ g[k] = i
    <3>1. g[g[k]] = c /\ c # i /\ g[c] = f[c] /\ i \in Bag /\ c \in Bag
      BY <1>1, <1>2, <2>1, <2>3 DEF FitsIn
    <3>2. QED
      BY <1>2, <3>1 DEF FitsIn
  <2>4. CASE k # i /\ g[k] # i /\ g[g[k]] = i
    <3>1. g[k] = f[k] /\ f[f[k]] = i /\ g[i] = c
      BY <1>1, <2>1, <2>4
    <3>2. QED
      BY <1>2, <2>4, <3>1 DEF FitsIn
  <2>5. CASE k # i /\ g[k] # i /\ g[g[k]] # i
    BY <1>1, <1>2, <2>1, <2>5 DEF ShallowIn
  <2>6. QED
    BY <2>2, <2>3, <2>4, <2>5
<1>3. QED
  BY <1>1, <1>2 DEF g, ShallowIn

\* What was put, with all in it, is where that is which it was put into, and
\* everything else is where it was.
LEMMA PutTop ==
  ASSUME NEW f \in [Item -> Places], ShallowIn(f), NEW i \in Goods, NEW c \in Places,
         FitsIn(f, i, c), NEW j \in Item
  PROVE  TopIn(PutIn(f, i, c), PutIn(f, i, c)[j]) =
           IF j = i \/ HoldsIn(f, i, j) THEN TopIn(f, c) ELSE TopIn(f, f[j])
<1> DEFINE g == PutIn(f, i, c)
<1>1. g \in [Item -> Places] /\ \A k \in Item : g[k] = IF k = i THEN c ELSE f[k]
  BY DEF PutIn
<1> SUFFICES TopIn(g, g[j]) = IF j = i \/ HoldsIn(f, i, j) THEN TopIn(f, c) ELSE TopIn(f, f[j])
  OBVIOUS
<1> HIDE DEF g
<1>2. CASE j = i
  <2>1. CASE c \notin Bag
    BY <1>1, <1>2, <2>1 DEF TopIn
  <2>2. CASE c \in Bag
    <3>1. c \in Item /\ c # i /\ g[c] = f[c] /\ g[j] = c
      BY <1>1, <1>2, <2>2, Kinds DEF FitsIn
    <3>2. f[c] \in Bag => f[c] # i /\ f[c] \in Item /\ g[f[c]] = f[f[c]]
      BY <1>1, <2>2, <3>1, Kinds, <1>2 DEF FitsIn, HoldsIn
    <3>3. QED
      BY <1>2, <2>2, <3>1, <3>2 DEF TopIn
  <2>3. QED
    BY <2>1, <2>2
<1>3. CASE j # i /\ HoldsIn(f, i, j)
  <2>1. i \in Bag /\ i \in Item /\ g[i] = c /\ g[j] = f[j]
    BY <1>1, <1>3, Kinds DEF HoldsIn
  <2>2. CASE f[j] = i
    <3>1. CASE c \notin Bag
      BY <1>3, <2>1, <2>2, <3>1 DEF TopIn
    <3>2. CASE c \in Bag
      <4>1. c # i /\ f[c] \notin Bag /\ g[c] = f[c]
        BY <1>1, <2>1, <3>2, Kinds DEF FitsIn
      <4>2. QED
        BY <1>3, <2>1, <2>2, <3>2, <4>1 DEF TopIn
    <3>3. QED
      BY <3>1, <3>2
  <2>3. CASE f[j] # i /\ f[j] \in Bag /\ f[f[j]] = i
    <3>1. c \notin Bag
      BY <2>1, <2>3 DEF FitsIn
    <3>2. g[f[j]] = i
      BY <1>1, <2>3, Kinds
    <3>3. QED
      BY <1>3, <2>1, <2>3, <3>1, <3>2 DEF TopIn
  <2>4. QED
    BY <1>3, <2>2, <2>3 DEF HoldsIn
<1>4. CASE j # i /\ ~HoldsIn(f, i, j)
  <2>1. g[j] = f[j]
    BY <1>1, <1>4
  <2>2. f[j] \in Bag => f[j] \in Item /\ f[j] # i /\ g[f[j]] = f[f[j]]
    BY <1>1, <1>4, Kinds DEF HoldsIn
  <2>3. f[j] \in Bag /\ f[f[j]] \in Bag =>
          f[f[j]] \in Item /\ f[f[j]] # i /\ g[f[f[j]]] = f[f[f[j]]]
    BY <1>1, <1>4, <2>2, Kinds DEF HoldsIn
  <2>4. QED
    BY <1>4, <2>1, <2>2, <2>3 DEF TopIn
<1>5. QED
  BY <1>2, <1>3, <1>4

-----------------------------------------------------------------------------
(* Offers that stand.                                                      *)

\* Where a thing is in the end, and what that means for reach and windows.
Where(f, i) == TopIn(f, f[i])
PositionIn(f, sp, i) == IF Where(f, i) \in Player THEN sp[Where(f, i)] ELSE Where(f, i)
ContentsIn(f, g) == {g} \union {i \in Item : HoldsIn(f, g, i)}
Reach(p) == IF {tradeItem[p], tradeItem[tradePartner[p]]} \intersect Deed = {} THEN 2 ELSE 3

\* Only players in the game trade.
TradersHere == \A p \in Player : tradePartner[p] # None => p \in online

\* The invariant: what the offers are is not enough without how things lie.
StandInv == TypeOK /\ TradeInv /\ ShallowIn(at) /\ TradersHere /\ OffersStand

\* The operators of the model, of the things as they lie now.
LEMMA AsTheyLie ==
  /\ \A b, i : Holds(b, i) <=> HoldsIn(at, b, i)
  /\ \A x : TopParent(x) = TopIn(at, x)
  /\ \A i : Holder(i) = Where(at, i)
  /\ \A i, sp : Position(i, sp) = PositionIn(at, sp, i)
  /\ \A g : Contents(g) = ContentsIn(at, g)
<1>1. \A b, i : Holds(b, i) <=> HoldsIn(at, b, i)
  BY DEF Holds, HoldsIn
<1>2. \A x : TopParent(x) = TopIn(at, x)
  BY DEF TopParent, TopIn
<1>3. \A i : Holder(i) = Where(at, i)
  BY <1>2 DEF Holder, Where
<1>4. \A i, sp : Position(i, sp) = PositionIn(at, sp, i)
  BY <1>3 DEF Position, PositionIn
<1>5. \A g : Contents(g) = ContentsIn(at, g)
  BY <1>1 DEF Contents, ContentsIn
<1>6. QED
  BY <1>1, <1>2, <1>3, <1>4, <1>5

\* The offers of a state, by the things as they lie.
OffersStandIn(f, sp, item, partner, window) ==
  /\ \A p, q \in Player : p # q /\ item[p] # None =>
       item[q] # item[p] /\ ~HoldsIn(f, item[p], item[q])
  /\ \A p \in Player :
       /\ item[p] \in Item =>
            /\ Where(f, item[p]) \notin Player \ {p}
            /\ Apart(PositionIn(f, sp, item[p]), sp[p]) <= 1
       /\ partner[p] # None =>
            Apart(sp[p], sp[partner[p]]) <=
              IF {item[p], item[partner[p]]} \intersect Deed = {} THEN 2 ELSE 3
       /\ item[p] # None => window[p].own = ContentsIn(f, item[p])
       /\ partner[p] # None /\ item[p] # None /\ item[partner[p]] # None =>
            window[p].theirs = ContentsIn(f, item[partner[p]])

\* What OffersStand says, of the things as they lie now.
LEMMA StandingNow ==
  OffersStand <=> OffersStandIn(at, spot, tradeItem, tradePartner, shown)
<1>1. OffersApart <=> \A p, q \in Player : p # q /\ tradeItem[p] # None =>
        tradeItem[q] # tradeItem[p] /\ ~HoldsIn(at, tradeItem[p], tradeItem[q])
  BY AsTheyLie DEF OffersApart
<1>2. OffersAtHand <=>
        \A p \in Player :
          /\ tradeItem[p] \in Item =>
               /\ Where(at, tradeItem[p]) \notin Player \ {p}
               /\ Apart(PositionIn(at, spot, tradeItem[p]), spot[p]) <= 1
          /\ tradePartner[p] # None =>
               Apart(spot[p], spot[tradePartner[p]]) <=
                 IF {tradeItem[p], tradeItem[tradePartner[p]]} \intersect Deed = {}
                 THEN 2 ELSE 3
  BY AsTheyLie DEF OffersAtHand
<1>3. WindowIsTrue <=>
        \A p \in Player :
          /\ tradeItem[p] # None => shown[p].own = ContentsIn(at, tradeItem[p])
          /\ tradePartner[p] # None /\ tradeItem[p] # None
               /\ tradeItem[tradePartner[p]] # None =>
               shown[p].theirs = ContentsIn(at, tradeItem[tradePartner[p]])
  BY AsTheyLie DEF WindowIsTrue
<1>4. QED
  BY <1>1, <1>2, <1>3 DEF OffersStand, OffersStandIn

StandsNow == OffersStandIn(at, spot, tradeItem, tradePartner, shown)

\* And of the things as they lie after the step.
LEMMA StandingThen ==
  OffersStand' <=> OffersStandIn(at', spot', tradeItem', tradePartner', shown')
<1>1. OffersStand <=> StandsNow
  BY StandingNow DEF StandsNow
<1>2. OffersStand' <=> StandsNow'
  BY <1>1, PTL
<1>3. QED
  BY <1>2 DEF StandsNow

\* Trades that end, and those that are left.
LEMMA Remaining ==
  ASSUME TradeInv, NEW S \in SUBSET Player, CloseTrades(S)
  PROVE  /\ WithPartners(S) \subseteq Player /\ S \subseteq WithPartners(S)
         /\ \A r \in Player :
              /\ tradePartner[r] # None =>
                   /\ tradePartner[r] \in Player
                   /\ r \in WithPartners(S) <=> tradePartner[r] \in WithPartners(S)
              /\ tradeItem'[r] = IF r \in WithPartners(S) THEN None ELSE tradeItem[r]
              /\ tradePartner'[r] = IF r \in WithPartners(S) THEN None ELSE tradePartner[r]
              /\ shown'[r] = IF r \in WithPartners(S) THEN Closed ELSE shown[r]
              /\ tradeItem[r] # None => tradePartner[r] # None
<1>1. TradeTypes /\ PartnersAgree
  BY DEF TradeInv
<1>2. /\ WithPartners(S) \subseteq Player /\ S \subseteq WithPartners(S)
      /\ \A r \in Player : tradePartner[r] # None =>
           (r \in WithPartners(S) <=> tradePartner[r] \in WithPartners(S))
  BY <1>1 DEF WithPartners, TradeTypes, PartnersAgree
<1> DEFINE T == WithPartners(S)
<1>3. /\ tradePartner' = [p \in Player |-> IF p \in T THEN None ELSE tradePartner[p]]
      /\ tradeItem' = [p \in Player |-> IF p \in T THEN None ELSE tradeItem[p]]
      /\ shown' = [p \in Player |-> IF p \in T THEN Closed ELSE shown[p]]
  BY DEF CloseTrades, EndTrades
<1> HIDE DEF T
<1>4. ASSUME NEW r \in Player
      PROVE  /\ tradeItem'[r] = IF r \in T THEN None ELSE tradeItem[r]
             /\ tradePartner'[r] = IF r \in T THEN None ELSE tradePartner[r]
             /\ shown'[r] = IF r \in T THEN Closed ELSE shown[r]
  BY <1>3
<1>5. \A r \in Player : /\ tradePartner[r] # None => tradePartner[r] \in Player
                        /\ tradeItem[r] # None => tradePartner[r] # None
  BY <1>1 DEF TradeTypes, PartnersAgree
<1>6. QED
  BY <1>2, <1>4, <1>5 DEF T

\* What is not touched of the offers of those who go on.
LEMMA StillStands ==
  ASSUME StandInv, NEW S \in SUBSET Player, CloseTrades(S),
         TypeOK', ShallowIn(at'),
         \A r \in Player \ WithPartners(S) :
           /\ tradeItem[r] \in Item =>
                /\ Where(at', tradeItem[r]) = Where(at, tradeItem[r])
                /\ Apart(PositionIn(at, spot', tradeItem[r]), spot'[r]) <= 1
           /\ tradeItem[r] # None =>
                \A j \in Item : HoldsIn(at', tradeItem[r], j) <=> HoldsIn(at, tradeItem[r], j)
           /\ tradePartner[r] # None =>
                /\ r \in online'
                /\ Apart(spot'[r], spot'[tradePartner[r]]) <= Reach(r)
  PROVE  StandInv'
<1> DEFINE T == WithPartners(S)
<1>1. TradeInv' /\ TradeInv
  BY EndingTrades DEF StandInv
<1>2. /\ T \subseteq Player
      /\ \A r \in Player :
           /\ tradePartner[r] # None =>
                tradePartner[r] \in Player /\ (r \in T <=> tradePartner[r] \in T)
           /\ tradeItem'[r] = IF r \in T THEN None ELSE tradeItem[r]
           /\ tradePartner'[r] = IF r \in T THEN None ELSE tradePartner[r]
           /\ shown'[r] = IF r \in T THEN Closed ELSE shown[r]
  BY <1>1, Remaining
<1>3. \A r \in Player \ T :
        /\ tradeItem[r] \in Item =>
             /\ Where(at', tradeItem[r]) = Where(at, tradeItem[r])
             /\ Apart(PositionIn(at, spot', tradeItem[r]), spot'[r]) <= 1
        /\ tradeItem[r] # None =>
             \A j \in Item : HoldsIn(at', tradeItem[r], j) <=> HoldsIn(at, tradeItem[r], j)
        /\ tradePartner[r] # None =>
             /\ r \in online'
             /\ Apart(spot'[r], spot'[tradePartner[r]]) <= Reach(r)
  OBVIOUS
<1> HIDE DEF T
<1>4. OffersStandIn(at, spot, tradeItem, tradePartner, shown)
  BY StandingNow DEF StandInv
<1>5. TradersHere'
  BY <1>2, <1>3 DEF TradersHere
<1>6. ASSUME NEW p \in Player, NEW q \in Player, p # q, tradeItem'[p] # None
      PROVE  tradeItem'[q] # tradeItem'[p] /\ ~HoldsIn(at', tradeItem'[p], tradeItem'[q])
  <2>1. p \notin T /\ tradeItem'[p] = tradeItem[p]
    BY <1>2, <1>6
  <2>2. CASE q \in T
    <3>1. tradeItem'[q] = None
      BY <1>2, <2>2
    <3>2. ~HoldsIn(at', tradeItem'[p], None)
      BY DEF HoldsIn
    <3>3. QED
      BY <1>6, <3>1, <3>2
  <2>3. CASE q \notin T
    <3>1. tradeItem'[q] = tradeItem[q]
      BY <1>2, <2>3
    <3>2. tradeItem[q] # tradeItem[p] /\ ~HoldsIn(at, tradeItem[p], tradeItem[q])
      BY <1>4, <1>6, <2>1 DEF OffersStandIn
    <3>3. ~HoldsIn(at', tradeItem[p], tradeItem[q])
      <4>1. HoldsIn(at', tradeItem[p], tradeItem[q]) => tradeItem[q] \in Item
        BY DEF HoldsIn
      <4>2. QED
        BY <1>3, <1>6, <2>1, <3>2, <4>1
    <3>4. QED
      BY <2>1, <3>1, <3>2, <3>3
  <2>4. QED
    BY <2>2, <2>3
<1>7. \A r \in Player \ T : tradeItem[r] # None =>
        ContentsIn(at', tradeItem[r]) = ContentsIn(at, tradeItem[r])
  BY <1>3 DEF ContentsIn
<1>8. ASSUME NEW p \in Player, tradeItem'[p] \in Item
      PROVE  /\ Where(at', tradeItem'[p]) \notin Player \ {p}
             /\ Apart(PositionIn(at', spot', tradeItem'[p]), spot'[p]) <= 1
  <2>1. p \notin T /\ tradeItem'[p] = tradeItem[p]
    BY <1>2, <1>8
  <2>2. /\ Where(at', tradeItem[p]) = Where(at, tradeItem[p])
        /\ Apart(PositionIn(at, spot', tradeItem[p]), spot'[p]) <= 1
    BY <1>3, <1>8, <2>1
  <2>3. Where(at, tradeItem[p]) \notin Player \ {p}
    BY <1>4, <1>8, <2>1 DEF OffersStandIn
  <2>4. PositionIn(at', spot', tradeItem[p]) = PositionIn(at, spot', tradeItem[p])
    BY <2>2 DEF PositionIn
  <2>5. QED
    BY <2>1, <2>2, <2>3, <2>4
<1>9. ASSUME NEW p \in Player, tradePartner'[p] # None
      PROVE  Apart(spot'[p], spot'[tradePartner'[p]]) <=
               IF {tradeItem'[p], tradeItem'[tradePartner'[p]]} \intersect Deed = {}
               THEN 2 ELSE 3
  <2>1. p \notin T /\ tradePartner'[p] = tradePartner[p] /\ tradePartner[p] # None
    BY <1>2, <1>9
  <2>2. tradePartner[p] \in Player /\ tradePartner[p] \notin T
    BY <1>2, <2>1
  <2>3. tradeItem'[p] = tradeItem[p] /\ tradeItem'[tradePartner[p]] = tradeItem[tradePartner[p]]
    BY <1>2, <2>1, <2>2
  <2>4. Apart(spot'[p], spot'[tradePartner[p]]) <= Reach(p)
    BY <1>3, <2>1
  <2>5. QED
    BY <2>1, <2>3, <2>4 DEF Reach
<1>10. ASSUME NEW p \in Player, tradeItem'[p] # None
       PROVE  shown'[p].own = ContentsIn(at', tradeItem'[p])
  <2>1. p \notin T /\ tradeItem'[p] = tradeItem[p] /\ shown'[p] = shown[p]
    BY <1>2, <1>10
  <2>2. QED
    BY <1>4, <1>7, <1>10, <2>1 DEF OffersStandIn
<1>11. ASSUME NEW p \in Player, tradePartner'[p] # None, tradeItem'[p] # None,
              tradeItem'[tradePartner'[p]] # None
       PROVE  shown'[p].theirs = ContentsIn(at', tradeItem'[tradePartner'[p]])
  <2>1. /\ p \notin T /\ tradePartner'[p] = tradePartner[p] /\ tradePartner[p] # None
        /\ tradeItem'[p] = tradeItem[p] /\ shown'[p] = shown[p]
    BY <1>2, <1>11
  <2>2. /\ tradePartner[p] \in Player /\ tradePartner[p] \notin T
        /\ tradeItem'[tradePartner[p]] = tradeItem[tradePartner[p]]
    BY <1>2, <2>1
  <2>3. shown[p].theirs = ContentsIn(at, tradeItem[tradePartner[p]])
    BY <1>4, <1>11, <2>1, <2>2 DEF OffersStandIn
  <2>4. QED
    BY <1>7, <1>11, <2>1, <2>2, <2>3
<1>12. OffersStandIn(at', spot', tradeItem', tradePartner', shown')
  BY <1>6, <1>8, <1>9, <1>10, <1>11 DEF OffersStandIn
<1>13. QED
  BY <1>1, <1>5, <1>12, StandingThen DEF StandInv

\* Nearness goes both ways.
LEMMA ApartIsSame ==
  ASSUME NEW s \in Spot, NEW t \in Spot
  PROVE  Apart(s, t) = Apart(t, s) /\ Apart(s, t) \in Int /\ Apart(s, s) = 0
BY DEF Apart

\* A thing is at a place of the map, with whomever it is.
LEMMA PositionIsSpot ==
  ASSUME TypeOK, ShallowIn(at), NEW i \in Item
  PROVE  PositionIn(at, spot, i) \in Spot
<1>1. Where(at, i) \in Player \union Spot
  BY TopIsPlace DEF Where, TypeOK
<1>2. QED
  BY <1>1 DEF PositionIn, TypeOK

\* An offer that joins others: it is near, and apart from all that are registered.
LEMMA StandsWhenMade ==
  ASSUME StandInv, NEW p \in online, NEW q \in online, p # q, NEW g \in Goods,
         StartTrade(p, q, g), tradeItems[g] = None, g \in Deed => g[2] = p,
         UNCHANGED <<online, spot, at, houseOwner>>, attached' \in [Player -> BOOLEAN],
         g \in Item => /\ NotTraded(g) /\ Where(at, g) \notin Player \ {p}
                       /\ Apart(PositionIn(at, spot, g), spot[p]) <= 1,
         Apart(spot[p], spot[q]) <= IF g \in Deed THEN 3 ELSE 2
  PROVE  StandInv'
<1>1. /\ TradeTypes /\ PartnersAgree /\ RegisterIsExact /\ TradeInv
      /\ p \in Player /\ q \in Player
  BY DEF StandInv, TradeInv, TypeOK
<1>2. g # None /\ None \notin Player /\ (g \in Deed <=> g \notin Item)
  BY Kinds DEF Goods
<1>3. TradeInv'
  BY <1>1, StartingTrades
<1>4. TypeOK'
  BY <1>3 DEF StandInv, TradeInv, TradeTypes, TypeOK
<1>5. /\ \A r \in Player : tradeItem'[r] = IF r = p THEN g ELSE tradeItem[r]
      /\ \A r \in Player : tradePartner'[r] =
           IF r = q THEN p ELSE IF r = p THEN q ELSE tradePartner[r]
  BY <1>1 DEF StartTrade, TradeTypes
<1>6. tradeItem[p] = None /\ tradePartner[p] \in {None, q}
  BY <1>1 DEF StartTrade, MayStart, PartnersAgree, TradeTypes
<1>7. /\ tradePartner[q] \in {None, p} /\ (tradePartner[q] = p <=> tradePartner[p] = q)
      /\ \A r \in Player \ {p, q} : tradePartner[r] \notin {p, q}
  BY <1>1, <1>2, <1>6 DEF StartTrade, MayStart, PartnersAgree
<1>8. \A r \in Player : tradeItem[r] # g
  BY <1>1, <1>2 DEF RegisterIsExact
<1>9. OffersStandIn(at, spot, tradeItem, tradePartner, shown)
  BY StandingNow DEF StandInv
<1>10. TradersHere'
  BY <1>5 DEF StandInv, TradersHere
<1>11. ASSUME NEW r \in Player, tradeItem[r] # None
       PROVE  ~HoldsIn(at, g, tradeItem[r]) /\ ~HoldsIn(at, tradeItem[r], g)
  <2>1. CASE g \in Item
    <3>1. tradeItem[r] \in Goods /\ tradeItems[tradeItem[r]] = r
      BY <1>1, <1>11 DEF TradeTypes, RegisterIsExact
    <3>2. ~Holds(g, tradeItem[r]) /\ ~Holds(tradeItem[r], g)
      BY <1>2, <2>1, <3>1 DEF NotTraded
    <3>3. QED
      BY <3>2, AsTheyLie
  <2>2. CASE g \notin Item
    BY <2>2, Kinds DEF HoldsIn
  <2>3. QED
    BY <2>1, <2>2
<1>12. ASSUME NEW r \in Player, NEW s \in Player, r # s, tradeItem'[r] # None
       PROVE  tradeItem'[s] # tradeItem'[r] /\ ~HoldsIn(at, tradeItem'[r], tradeItem'[s])
  <2>1. CASE r = p
    <3>1. tradeItem'[r] = g /\ tradeItem'[s] = tradeItem[s]
      BY <1>5, <1>12, <2>1
    <3>2. CASE tradeItem[s] = None
      BY <1>2, <3>1, <3>2, Kinds DEF HoldsIn, Goods
    <3>3. CASE tradeItem[s] # None
      BY <1>8, <1>11, <3>1, <3>3
    <3>4. QED
      BY <3>2, <3>3
  <2>2. CASE r # p /\ s = p
    <3>1. tradeItem'[s] = g /\ tradeItem'[r] = tradeItem[r]
      BY <1>5, <1>12, <2>2
    <3>2. QED
      BY <1>8, <1>11, <1>12, <3>1
  <2>3. CASE r # p /\ s # p
    <3>1. tradeItem'[s] = tradeItem[s] /\ tradeItem'[r] = tradeItem[r]
      BY <1>5, <2>3
    <3>2. QED
      BY <1>9, <1>12, <3>1 DEF OffersStandIn
  <2>4. QED
    BY <2>1, <2>2, <2>3
<1>13. ASSUME NEW r \in Player, tradeItem'[r] \in Item
       PROVE  /\ Where(at, tradeItem'[r]) \notin Player \ {r}
              /\ Apart(PositionIn(at, spot, tradeItem'[r]), spot[r]) <= 1
  <2>1. CASE r = p
    BY <1>5, <1>13, <2>1
  <2>2. CASE r # p
    BY <1>5, <1>9, <1>13, <2>2 DEF OffersStandIn
  <2>3. QED
    BY <2>1, <2>2
<1>14. ASSUME NEW r \in Player, tradePartner'[r] # None
       PROVE  Apart(spot[r], spot[tradePartner'[r]]) <=
                IF {tradeItem'[r], tradeItem'[tradePartner'[r]]} \intersect Deed = {}
                THEN 2 ELSE 3
  <2>1. spot[p] \in Spot /\ spot[q] \in Spot
    BY <1>1 DEF StandInv, TypeOK
  <2>2. /\ Apart(spot[p], spot[q]) <= 3 /\ Apart(spot[q], spot[p]) <= 3
        /\ g \notin Deed => Apart(spot[p], spot[q]) <= 2 /\ Apart(spot[q], spot[p]) <= 2
    <3>1. Apart(spot[p], spot[q]) \in Int /\ Apart(spot[q], spot[p]) = Apart(spot[p], spot[q])
      BY <2>1, ApartIsSame
    <3>2. CASE g \in Deed
      BY <3>1, <3>2
    <3>3. CASE g \notin Deed
      BY <3>1, <3>3
    <3>4. QED
      BY <3>2, <3>3
  <2>3. CASE r = p
    <3>1. tradePartner'[r] = q /\ tradeItem'[r] = g
      BY <1>1, <1>5, <2>3
    <3>2. {tradeItem'[r], tradeItem'[tradePartner'[r]]} \intersect Deed = {} => g \notin Deed
      BY <2>3, <3>1
    <3>3. /\ Apart(spot[r], spot[tradePartner'[r]]) <= 3
          /\ g \notin Deed => Apart(spot[r], spot[tradePartner'[r]]) <= 2
      BY <2>2, <2>3, <3>1
    <3>4. QED
      BY <3>2, <3>3
  <2>4. CASE r = q
    <3>1. tradePartner'[r] = p /\ tradeItem'[p] = g
      BY <1>1, <1>5, <2>4
    <3>2. {tradeItem'[r], tradeItem'[tradePartner'[r]]} \intersect Deed = {} => g \notin Deed
      BY <2>4, <3>1
    <3>3. /\ Apart(spot[r], spot[tradePartner'[r]]) <= 3
          /\ g \notin Deed => Apart(spot[r], spot[tradePartner'[r]]) <= 2
      BY <2>2, <2>4, <3>1
    <3>4. QED
      BY <3>2, <3>3
  <2>5. CASE r \notin {p, q}
    <3>1. tradePartner'[r] = tradePartner[r] /\ tradeItem'[r] = tradeItem[r]
      BY <1>5, <2>5
    <3>2. tradePartner[r] \in Player /\ tradePartner[r] \notin {p, q}
      BY <1>1, <1>7, <1>14, <2>5, <3>1 DEF TradeTypes
    <3>3. tradeItem'[tradePartner[r]] = tradeItem[tradePartner[r]]
      BY <1>5, <3>2
    <3>4. QED
      BY <1>9, <1>14, <3>1, <3>3 DEF OffersStandIn
  <2>6. QED
    BY <2>3, <2>4, <2>5
<1>15. /\ \A r \in Player \ {p, q} : shown'[r] = shown[r]
       /\ shown'[p].own = ContentsIn(at, g)
       /\ tradeItem[q] # None =>
            /\ shown'[p].theirs = ContentsIn(at, tradeItem[q])
            /\ shown'[q].theirs = ContentsIn(at, g)
       /\ shown'[q].own = shown[q].own
  <2>1. shown \in [Player -> [own : SUBSET Goods, theirs : SUBSET Goods]]
    BY <1>1 DEF TradeTypes
  <2>2. CASE tradeState[q] = "NONE"
    <3>1. shown' = [shown EXCEPT ![p].own = ContentsIn(at, g)]
      BY <2>2, AsTheyLie DEF StartTrade
    <3>2. tradeItem[q] = None
      BY <1>1, <2>2 DEF PartnersAgree
    <3>3. QED
      BY <1>1, <2>1, <3>1, <3>2
  <2>3. CASE tradeState[q] # "NONE"
    <3>1. shown' = [shown EXCEPT
                      ![p] = [own |-> ContentsIn(at, g),
                              theirs |-> ContentsIn(at, tradeItem[q])],
                      ![q].theirs = ContentsIn(at, g)]
      BY <2>3, AsTheyLie DEF StartTrade
    <3>2. QED
      BY <1>1, <2>1, <3>1
  <2>4. QED
    BY <2>2, <2>3
<1>16. ASSUME NEW r \in Player, tradeItem'[r] # None
       PROVE  shown'[r].own = ContentsIn(at, tradeItem'[r])
  <2>1. CASE r = p
    BY <1>5, <1>15, <2>1
  <2>2. CASE r # p
    <3>1. tradeItem'[r] = tradeItem[r] /\ shown'[r].own = shown[r].own
      BY <1>5, <1>15, <2>2
    <3>2. QED
      BY <1>9, <1>16, <3>1 DEF OffersStandIn
  <2>3. QED
    BY <2>1, <2>2
<1>17. ASSUME NEW r \in Player, tradePartner'[r] # None, tradeItem'[r] # None,
              tradeItem'[tradePartner'[r]] # None
       PROVE  shown'[r].theirs = ContentsIn(at, tradeItem'[tradePartner'[r]])
  <2>1. CASE r = p
    <3>1. tradePartner'[r] = q /\ tradeItem'[q] = tradeItem[q]
      BY <1>1, <1>5, <2>1
    <3>2. QED
      BY <1>15, <1>17, <2>1, <3>1
  <2>2. CASE r = q
    <3>1. tradePartner'[r] = p /\ tradeItem'[p] = g /\ tradeItem'[r] = tradeItem[r]
      BY <1>1, <1>5, <2>2
    <3>2. QED
      BY <1>15, <1>17, <2>2, <3>1
  <2>3. CASE r \notin {p, q}
    <3>1. tradePartner'[r] = tradePartner[r] /\ tradeItem'[r] = tradeItem[r]
          /\ shown'[r] = shown[r]
      BY <1>5, <1>15, <2>3
    <3>2. tradePartner[r] \in Player /\ tradePartner[r] \notin {p, q}
      BY <1>1, <1>7, <1>17, <2>3, <3>1 DEF TradeTypes
    <3>3. tradeItem'[tradePartner[r]] = tradeItem[tradePartner[r]]
      BY <1>5, <3>2
    <3>4. QED
      BY <1>9, <1>17, <3>1, <3>3 DEF OffersStandIn
  <2>4. QED
    BY <2>1, <2>2, <2>3
<1>18. OffersStandIn(at', spot', tradeItem', tradePartner', shown')
  BY <1>12, <1>13, <1>14, <1>16, <1>17 DEF OffersStandIn
<1>19. QED
  BY <1>3, <1>4, <1>10, <1>18, StandingThen DEF StandInv

\* An item that is offered is at hand and apart from all offers there are.
LEMMA RequestStands ==
  ASSUME StandInv, NEW p \in Player, NEW q \in Player, NEW i \in Item, RequestTrade(p, q, i)
  PROVE  StandInv'
<1>1. /\ p \in online /\ q \in online /\ p # q /\ StartTrade(p, q, i) /\ NotTraded(i)
      /\ UNCHANGED <<online, spot, at, houseOwner>> /\ attached' = attached
  BY DEF RequestTrade
<1>2. /\ Where(at, i) \notin Player \ {p} /\ Apart(PositionIn(at, spot, i), spot[p]) <= 1
  BY AsTheyLie DEF RequestTrade
<1>3. i \in Goods /\ i \notin Deed
  BY Kinds DEF Goods
<1>4. tradeItems[i] = None
  BY <1>1, <1>3 DEF NotTraded
<1>5. attached' \in [Player -> BOOLEAN]
  BY <1>1 DEF StandInv, TypeOK
<1>6. Apart(spot[p], spot[q]) <= IF i \in Deed THEN 3 ELSE 2
  BY <1>3 DEF RequestTrade
<1>7. QED
  BY <1>1, <1>2, <1>3, <1>4, <1>5, <1>6, StandsWhenMade

\* Nothing of a trade changes but who holds a document, whose house it is, and
\* whether the next accept is the second.
LEMMA SameStands ==
  ASSUME StandInv, TradeInv', online \subseteq online', online' \subseteq Player,
         UNCHANGED <<spot, at, tradePartner, tradeItem, shown>>,
         attached' \in [Player -> BOOLEAN], houseOwner' \in [House -> Player \union {None}]
  PROVE  StandInv'
<1>1. TypeOK'
  BY DEF StandInv, TypeOK, TradeInv, TradeTypes
<1>2. TradersHere'
  BY DEF StandInv, TradersHere
<1>3. OffersStandIn(at', spot', tradeItem', tradePartner', shown')
  BY StandingNow DEF StandInv
<1>4. QED
  BY <1>1, <1>2, <1>3, StandingThen DEF StandInv

\* So is a house; a refused sale costs only the document its container.
LEMMA SellStands ==
  ASSUME StandInv, NEW p \in Player, NEW q \in Player, NEW h \in House, SellHouse(p, q, h)
  PROVE  StandInv'
<1> DEFINE d == <<h, p>>
<1>1. /\ p \in online /\ q \in online /\ p # q
      /\ UNCHANGED <<online, spot, at, houseOwner>> /\ Apart(spot[p], spot[q]) <= 3
      /\ d \in Goods /\ d \in Deed /\ d[2] = p /\ d \notin Item
  BY Kinds DEF SellHouse, Goods, Deed
<1>2. attached' \in [Player -> BOOLEAN]
  BY DEF SellHouse, StandInv, TypeOK
<1>3. CASE StartTrade(p, q, d)
  <2>1. tradeItem[p] = None
    BY <1>3 DEF StartTrade, MayStart, StandInv, TradeInv, PartnersAgree
  <2>2. \A r \in Player : tradeItem[r] # d
    BY <1>1, <2>1 DEF StandInv, TradeInv, DeedsAreSellers, Goods, Deed
  <2>3. tradeItems[d] = None
    BY <1>1, <2>2 DEF StandInv, TradeInv, RegisterIsExact, TradeTypes
  <2> HIDE DEF d
  <2>4. QED
    BY <1>1, <1>2, <1>3, <2>3, StandsWhenMade
<1>4. CASE ~StartTrade(p, q, d)
  <2>1. UNCHANGED <<tradeState, tradePartner, tradeItem, tradeItems, shown>>
    BY <1>4 DEF SellHouse
  <2>2. TradeInv'
    BY <2>1, SameOffers DEF StandInv
  <2>3. houseOwner' \in [House -> Player \union {None}] /\ online' \subseteq Player
    BY <1>1 DEF StandInv, TypeOK
  <2>4. QED
    BY <1>1, <1>2, <2>1, <2>2, <2>3, SameStands
<1>5. QED
  BY <1>3, <1>4

\* The first accept moves nothing.
LEMMA WaitStands ==
  ASSUME StandInv, NEW p \in Player, AcceptAndWait(p)
  PROVE  StandInv'
<1>1. TradeInv'
  <2>1. AcceptAndWait(p) => Next
    BY DEF Next
  <2>2. QED
    BY <2>1, TradeStep DEF StandInv
<1>2. /\ attached' \in [Player -> BOOLEAN] /\ houseOwner' \in [House -> Player \union {None}]
      /\ UNCHANGED <<online, spot, at, tradePartner, tradeItem, shown>> /\ online' \subseteq Player
  BY DEF AcceptAndWait, StandInv, TypeOK
<1>3. QED
  BY <1>1, <1>2, SameStands

\* Nor does a login or the purchase of a house nobody owns.
LEMMA LoginStands ==
  ASSUME StandInv, NEW p \in Player, Login(p) \/ \E h \in House : BuyHouse(p, h)
  PROVE  StandInv'
<1>1. /\ UNCHANGED <<spot, at, tradeState, tradePartner, tradeItem, tradeItems, attached, shown>>
      /\ online \subseteq online' /\ online' \subseteq Player
      /\ houseOwner' \in [House -> Player \union {None}]
  <2>1. CASE Login(p)
    BY <2>1 DEF Login, offers, StandInv, TypeOK
  <2>2. CASE \E h \in House : BuyHouse(p, h)
    BY <2>2 DEF BuyHouse, offers, StandInv, TypeOK
  <2>3. QED
    BY <2>1, <2>2
<1>2. TradeInv'
  BY <1>1, SameOffers DEF StandInv
<1>3. attached' \in [Player -> BOOLEAN]
  BY <1>1 DEF StandInv, TypeOK
<1>4. QED
  BY <1>1, <1>2, <1>3, SameStands

\* Who did not move out of reach is still near: what he offers, and his partner.
LEMMA NearStays ==
  ASSUME StandInv, NEW T \in SUBSET Player, spot' \in [Player -> Spot],
         \A r \in Player : tradePartner[r] # None => (r \in T <=> tradePartner[r] \in T),
         \A r \in Player : spot'[r] # spot[r] /\ OutOfReach(r, spot') => r \in T,
         NEW r \in Player \ T
  PROVE  /\ tradeItem[r] \in Item => Apart(PositionIn(at, spot', tradeItem[r]), spot'[r]) <= 1
         /\ tradePartner[r] # None => Apart(spot'[r], spot'[tradePartner[r]]) <= Reach(r)
<1>1. OffersStandIn(at, spot, tradeItem, tradePartner, shown)
  BY StandingNow DEF StandInv
<1>2. ASSUME tradeItem[r] \in Item
      PROVE  Apart(PositionIn(at, spot', tradeItem[r]), spot'[r]) <= 1
  <2>1. /\ Where(at, tradeItem[r]) \notin Player \ {r}
        /\ Apart(PositionIn(at, spot, tradeItem[r]), spot[r]) <= 1
    BY <1>1, <1>2 DEF OffersStandIn
  <2>2. CASE spot'[r] = spot[r]
    <3>1. PositionIn(at, spot', tradeItem[r]) = PositionIn(at, spot, tradeItem[r])
      BY <2>1, <2>2 DEF PositionIn
    <3>2. QED
      BY <2>1, <2>2, <3>1
  <2>3. CASE spot'[r] # spot[r]
    <3>1. ~OutOfReach(r, spot') /\ tradeItem[r] # None /\ tradeItem[r] \notin Deed
      BY <1>2, <2>3, Kinds DEF Goods
    <3>2. ~(Apart(PositionIn(at, spot', tradeItem[r]), spot'[r]) > 1)
      BY <3>1, AsTheyLie DEF OutOfReach
    <3>3. Where(at, tradeItem[r]) \in Player \union Spot
      BY <1>2, TopIsPlace DEF Where, StandInv, TypeOK
    <3>4. PositionIn(at, spot', tradeItem[r]) \in Spot /\ spot'[r] \in Spot
      BY <3>3 DEF PositionIn
    <3>5. Apart(PositionIn(at, spot', tradeItem[r]), spot'[r]) \in Int
      BY <3>4, ApartIsSame
    <3>6. QED
      BY <3>2, <3>5
  <2>4. QED
    BY <2>2, <2>3
<1>3. ASSUME tradePartner[r] # None
      PROVE  Apart(spot'[r], spot'[tradePartner[r]]) <= Reach(r)
  <2> DEFINE q == tradePartner[r]
  <2>1. /\ q \in Player /\ q \notin T /\ tradePartner[q] = r
    BY <1>3 DEF StandInv, TradeInv, TradeTypes, PartnersAgree
  <2> HIDE DEF q
  <2>2. /\ Apart(spot'[r], spot'[q]) = Apart(spot'[q], spot'[r])
        /\ Apart(spot'[r], spot'[q]) \in Int
    BY <2>1, ApartIsSame
  <2>3. Reach(r) \in {2, 3}
    BY DEF Reach
  <2>4. CASE spot'[r] # spot[r]
    <3>1. ~(Apart(spot'[q], spot'[r]) > 2)
      BY <1>3, <2>4 DEF OutOfReach, q
    <3>2. QED
      BY <2>2, <2>3, <3>1 DEF q
  <2>5. CASE spot'[q] # spot[q]
    <3>1. ~(Apart(spot'[r], spot'[q]) > 2)
      <4>1. r # None
        BY Kinds
      <4>2. QED
        BY <2>1, <2>5, <4>1 DEF OutOfReach
    <3>2. QED
      BY <2>2, <2>3, <3>1 DEF q
  <2>6. CASE spot'[r] = spot[r] /\ spot'[q] = spot[q]
    BY <1>1, <1>3, <2>6 DEF OffersStandIn, Reach, q
  <2>7. QED
    BY <2>4, <2>5, <2>6 DEF q
<1>4. QED
  BY <1>2, <1>3

\* Players move, or go, and those that are out of reach end their trades.
LEMMA PlayersMove ==
  ASSUME StandInv, NEW S \in SUBSET Player, CloseTrades(S),
         spot' \in [Player -> Spot], at' = at,
         \A r \in Player : spot'[r] # spot[r] /\ OutOfReach(r, spot') => r \in S,
         online' \in SUBSET Player, online \ S \subseteq online',
         houseOwner' \in [House -> Player \union {None}]
  PROVE  StandInv'
<1> DEFINE T == WithPartners(S)
<1>1. /\ T \in SUBSET Player /\ S \subseteq T
      /\ \A r \in Player : tradePartner[r] # None => (r \in T <=> tradePartner[r] \in T)
  BY Remaining DEF StandInv
<1>2. TradeInv'
  BY EndingTrades DEF StandInv
<1>3. attached' \in [Player -> BOOLEAN]
  BY DEF CloseTrades, EndTrades
<1>4. TypeOK'
  BY <1>2, <1>3 DEF StandInv, TypeOK, TradeInv, TradeTypes
<1> HIDE DEF T
<1>5. ASSUME NEW r \in Player \ T
      PROVE  /\ tradeItem[r] \in Item => Apart(PositionIn(at, spot', tradeItem[r]), spot'[r]) <= 1
             /\ tradePartner[r] # None => Apart(spot'[r], spot'[tradePartner[r]]) <= Reach(r)
  <2>1. \A s \in Player : spot'[s] # spot[s] /\ OutOfReach(s, spot') => s \in T
    BY <1>1
  <2>2. QED
    BY <1>1, <2>1, NearStays
<1>6. \A r \in Player \ T : tradePartner[r] # None => r \in online'
  BY <1>1 DEF StandInv, TradersHere
<1>7. ShallowIn(at')
  BY DEF StandInv
<1>8. QED
  BY <1>4, <1>5, <1>6, <1>7, StillStands DEF T

\* Who closes a trade, logs out or has no room takes nobody else's offer along.
LEMMA CloseStands ==
  ASSUME StandInv, NEW p \in Player,
         CloseTrade(p) \/ Logout(p) \/ AcceptWithoutRoom(p)
  PROVE  StandInv'
<1>1. /\ CloseTrades({p}) /\ UNCHANGED <<spot, at, houseOwner>>
      /\ online' \in SUBSET Player /\ online \ {p} \subseteq online'
  <2>1. online \in SUBSET Player
    BY DEF StandInv, TypeOK
  <2>2. CASE CloseTrade(p)
    BY <2>1, <2>2 DEF CloseTrade
  <2>3. CASE Logout(p)
    BY <2>1, <2>3 DEF Logout
  <2>4. CASE AcceptWithoutRoom(p)
    BY <2>1, <2>4 DEF AcceptWithoutRoom
  <2>5. QED
    BY <2>2, <2>3, <2>4
<1>2. spot' \in [Player -> Spot] /\ houseOwner' \in [House -> Player \union {None}]
  BY <1>1 DEF StandInv, TypeOK
<1>3. \A r \in Player : spot'[r] # spot[r] /\ OutOfReach(r, spot') => r \in {p}
  BY <1>1
<1>4. {p} \in SUBSET Player
  OBVIOUS
<1> DEFINE S == {p}
<1>5. /\ S \in SUBSET Player /\ CloseTrades(S) /\ online \ S \subseteq online'
      /\ \A r \in Player : spot'[r] # spot[r] /\ OutOfReach(r, spot') => r \in S
  BY <1>1, <1>3, <1>4
<1> HIDE DEF S
<1>6. QED
  BY <1>1, <1>2, <1>5, PlayersMove

\* A walk ends the walker's own trade if it takes him out of reach.
LEMMA WalkStands ==
  ASSUME StandInv, NEW p \in Player, NEW s \in Spot, Walk(p, s)
  PROVE  StandInv'
<1> DEFINE S == {r \in {p} : OutOfReach(r, spot')}
<1>1. /\ S \in SUBSET Player /\ CloseTrades(S) /\ spot' = [spot EXCEPT ![p] = s]
      /\ UNCHANGED <<online, at, houseOwner>>
  BY DEF Walk
<1>2. /\ spot' \in [Player -> Spot] /\ \A r \in Player : spot'[r] # spot[r] => r = p
  BY <1>1 DEF StandInv, TypeOK
<1>3. \A r \in Player : spot'[r] # spot[r] /\ OutOfReach(r, spot') => r \in S
  BY <1>2
<1> HIDE DEF S
<1>4. /\ online' \in SUBSET Player /\ online \ S \subseteq online'
      /\ houseOwner' \in [House -> Player \union {None}]
  BY <1>1 DEF StandInv, TypeOK
<1>5. QED
  BY <1>1, <1>2, <1>3, <1>4, PlayersMove

\* Whoever is put out of a house stands before its door.
LEMMA ClearedTypes ==
  ASSUME spot \in [Player -> Spot], NEW H \in SUBSET House, Clear(H)
  PROVE  spot' \in [Player -> Spot]
<1>1. ASSUME NEW r \in Player
      PROVE  (IF r \in online /\ \E h \in H : spot[r] = HouseSpot[h]
              THEN Entry[CHOOSE h \in H : spot[r] = HouseSpot[h]] ELSE spot[r]) \in Spot
  <2>1. CASE r \in online /\ \E h \in H : spot[r] = HouseSpot[h]
    <3> DEFINE k == CHOOSE h \in H : spot[r] = HouseSpot[h]
    <3>1. k \in House
      BY <2>1
    <3> HIDE DEF k
    <3>2. Entry[k] \in Spot
      BY <3>1
    <3>3. QED
      BY <2>1, <3>2 DEF k
  <2>2. CASE ~(r \in online /\ \E h \in H : spot[r] = HouseSpot[h])
    BY <2>2
  <2>3. QED
    BY <2>1, <2>2
<1>2. QED
  BY <1>1, Zenon DEF Clear

\* So end the trades of those who are put out of a house, if out of reach.
LEMMA LeaveStands ==
  ASSUME StandInv, NEW p \in Player, NEW h \in House, LeaveHouse(p, h)
  PROVE  StandInv'
<1>1. /\ Clear({h}) /\ CloseTrades(Displaced) /\ UNCHANGED <<online, at>>
      /\ houseOwner' = [houseOwner EXCEPT ![h] = None]
  BY DEF LeaveHouse
<1>2. spot' \in [Player -> Spot]
  BY <1>1, ClearedTypes DEF StandInv, TypeOK
<1> DEFINE S == Displaced
<1>3. /\ S \in SUBSET Player /\ CloseTrades(S)
      /\ \A r \in Player : spot'[r] # spot[r] /\ OutOfReach(r, spot') => r \in S
  BY <1>1 DEF Displaced
<1> HIDE DEF S
<1>4. /\ online' \in SUBSET Player /\ online \ S \subseteq online'
      /\ houseOwner' \in [House -> Player \union {None}]
  BY <1>1 DEF StandInv, TypeOK
<1>5. QED
  BY <1>1, <1>2, <1>3, <1>4, PlayersMove

\* Who offers something hears of whatever happens where it is.
LEMMA HeardNear ==
  ASSUME StandInv, NEW r \in Player, tradeItem[r] \in Item, NEW c \in Places,
         c \in Player => c = Where(at, tradeItem[r]),
         c \in Bag => Where(at, c) = Where(at, tradeItem[r])
  PROVE  Hears(r, c)
<1> DEFINE o == tradeItem[r]
<1>1. /\ Where(at, o) \notin Player \ {r}
      /\ Apart(PositionIn(at, spot, o), spot[r]) <= 1
  BY StandingNow DEF OffersStandIn, StandInv
<1>2. r \in online
  <2>1. tradePartner[r] # None
    BY Kinds DEF StandInv, TradeInv, PartnersAgree, TradeTypes
  <2>2. QED
    BY <2>1 DEF StandInv, TradersHere
<1>3. Where(at, o) \in Player \union Spot
  BY TopIsPlace DEF Where, StandInv, TypeOK
<1>4. PositionIn(at, spot, o) \in Spot /\ spot[r] \in Spot
  BY <1>3 DEF PositionIn, StandInv, TypeOK
<1>5. /\ Apart(spot[r], PositionIn(at, spot, o)) = Apart(PositionIn(at, spot, o), spot[r])
      /\ Apart(spot[r], PositionIn(at, spot, o)) \in Int
  BY <1>4, ApartIsSame
<1>6. ASSUME c \in Bag PROVE Apart(spot[r], Position(c, spot)) <= 2
  <2>1. Position(c, spot) = PositionIn(at, spot, o)
    BY <1>6, AsTheyLie DEF PositionIn
  <2>2. Apart(spot[r], PositionIn(at, spot, o)) <= 2
    BY <1>1, <1>5
  <2>3. QED
    BY <2>1, <2>2
<1>7. c \in Player => r = c
  BY <1>1
<1>8. QED
  BY <1>2, <1>6, <1>7 DEF Hears

\* So what he did not hear of, or was not disturbed by, is no part of his offer
\* and is not around it.
LEMMA Unheard ==
  ASSUME StandInv, NEW i \in Item, NEW c \in Places, NEW r \in Player, tradeItem[r] \in Item,
         ~(Hears(r, at[i]) /\ Disturbed(tradeItem[r], i, at[i])),
         ~(Hears(r, c) /\ Filled(tradeItem[r], c))
  PROVE  /\ tradeItem[r] # i /\ ~HoldsIn(at, tradeItem[r], i) /\ ~HoldsIn(at, i, tradeItem[r])
         /\ tradeItem[r] # c /\ ~HoldsIn(at, tradeItem[r], c)
<1> DEFINE o == tradeItem[r]
<1>1. /\ at \in [Item -> Places] /\ ShallowIn(at) /\ \A j \in Item : at[j] # j
  BY DEF StandInv, TypeOK
<1>2. o \in Item /\ at[i] \in Places
  BY <1>1
<1>3. ASSUME o = i \/ HoldsIn(at, o, i) \/ HoldsIn(at, i, o) PROVE FALSE
  <2>1. Where(at, i) = Where(at, o)
    BY <1>1, <1>3, HeldTogether DEF Where
  <2>2. at[i] \in Player => at[i] = Where(at, o)
    BY <2>1, Kinds DEF Where, TopIn
  <2>3. at[i] \in Bag => HoldsIn(at, at[i], i) /\ Where(at, at[i]) = Where(at, o)
    <3>1. SUFFICES ASSUME at[i] \in Bag PROVE HoldsIn(at, at[i], i) /\ Where(at, at[i]) = Where(at, o)
      OBVIOUS
    <3> DEFINE b == at[i]
    <3>2. HoldsIn(at, b, i)
      BY <3>1 DEF HoldsIn
    <3> HIDE DEF b
    <3>3. Where(at, i) = Where(at, b)
      BY <1>1, <3>2, HeldTogether DEF Where
    <3>4. QED
      BY <2>1, <3>2, <3>3 DEF b
  <2>4. Hears(r, at[i])
    <3> DEFINE b == at[i]
    <3>1. b \in Places /\ (b \in Player => b = Where(at, o)) /\ (b \in Bag => Where(at, b) = Where(at, o))
      BY <1>2, <2>2, <2>3
    <3> SUFFICES Hears(r, b)
      OBVIOUS
    <3> HIDE DEF b
    <3>2. QED
      BY <1>2, <3>1, HeardNear
  <2>5. Disturbed(o, i, at[i])
    <3>1. CASE o = i \/ HoldsIn(at, o, i)
      BY <3>1, AsTheyLie DEF Disturbed
    <3>2. CASE HoldsIn(at, i, o) /\ at[i] \notin Bag
      BY <3>2, AsTheyLie DEF Disturbed
    <3>3. CASE HoldsIn(at, i, o) /\ at[i] \in Bag
      <4>1. at[o] # at[i]
        BY <1>1, <1>2, <3>3 DEF HoldsIn, ShallowIn
      <4>2. HoldsIn(at, at[i], o)
        <5> DEFINE b == at[i]
        <5>1. HoldsIn(at, b, i) /\ HoldsIn(at, i, o)
          BY <2>3, <3>3
        <5> SUFFICES HoldsIn(at, b, o)
          OBVIOUS
        <5> HIDE DEF b
        <5>2. QED
          BY <1>1, <5>1, HeldThrough
      <4>3. QED
        BY <3>3, <4>1, <4>2, AsTheyLie DEF Disturbed
    <3>4. QED
      BY <1>3, <3>1, <3>2, <3>3
  <2>6. QED
    BY <2>4, <2>5
<1>4. ASSUME o = c \/ HoldsIn(at, o, c) PROVE FALSE
  <2>1. c \in Item /\ c \in Bag
    BY <1>2, <1>4, Kinds DEF HoldsIn, Places
  <2>2. Where(at, c) = Where(at, o)
    BY <1>1, <1>4, HeldTogether DEF Where
  <2>3. c \notin Player
    BY <2>1, Kinds
  <2>4. Hears(r, c)
    BY <1>2, <2>2, <2>3, HeardNear
  <2>5. Filled(o, c)
    BY <1>4, <2>1, AsTheyLie DEF Filled
  <2>6. QED
    BY <2>4, <2>5
<1>5. QED
  BY <1>3, <1>4

\* A bag takes no more depth than it has.
LEMMA MayHoldFits ==
  ASSUME NEW c, NEW i, MayHold(c, i)
  PROVE  FitsIn(at, i, c)
BY AsTheyLie DEF MayHold, FitsIn

\* Nothing is put into itself.
LEMMA PutTypes ==
  ASSUME NEW f \in [Item -> Places], \A j \in Item : f[j] # j, NEW i \in Goods, NEW c \in Places,
         FitsIn(f, i, c)
  PROVE  /\ PutIn(f, i, c) \in [Item -> Places]
         /\ \A j \in Item : PutIn(f, i, c)[j] # j
<1>1. i \in Item => c # i
  BY Kinds DEF FitsIn, Places
<1>2. QED
  BY <1>1 DEF PutIn

\* A move that closes no trade leaves every offer where it was, and whole.
LEMMA MoveStands ==
  ASSUME StandInv, NEW p \in Player, NEW i \in Item, NEW c \in Places, MoveItem(p, i, c)
  PROVE  StandInv'
<1> DEFINE S == {r \in Player :
                  /\ tradeItem[r] \in Item
                  /\ \/ Hears(r, at[i]) /\ Disturbed(tradeItem[r], i, at[i])
                     \/ Hears(r, c) /\ Filled(tradeItem[r], c)}
<1>1. /\ S \in SUBSET Player /\ CloseTrades(S) /\ UNCHANGED <<online, spot, houseOwner>>
      /\ MayHold(c, i) /\ at' = [at EXCEPT ![i] = c]
  BY DEF MoveItem
<1>2. \A r \in Player : tradeItem[r] \in Item /\ r \notin S =>
        /\ ~(Hears(r, at[i]) /\ Disturbed(tradeItem[r], i, at[i]))
        /\ ~(Hears(r, c) /\ Filled(tradeItem[r], c))
  OBVIOUS
<1> HIDE DEF S
<1>3. /\ at \in [Item -> Places] /\ ShallowIn(at) /\ (\A j \in Item : at[j] # j) /\ TradeInv
  BY DEF StandInv, TypeOK
<1>4. i \in Goods /\ FitsIn(at, i, c)
  BY <1>1, MayHoldFits DEF Goods
<1>5. at' = PutIn(at, i, c)
  BY <1>1, <1>3 DEF PutIn
<1>6. at' \in [Item -> Places] /\ ShallowIn(at') /\ \A j \in Item : at'[j] # j
  BY <1>3, <1>4, <1>5, PutShallow, PutTypes
<1>7. TypeOK'
  <2>1. TradeInv' /\ attached' \in [Player -> BOOLEAN]
    BY <1>1, <1>3, EndingTrades DEF CloseTrades, EndTrades
  <2>2. QED
    BY <1>1, <1>6, <2>1 DEF StandInv, TypeOK, TradeInv, TradeTypes
<1> DEFINE T == WithPartners(S)
<1>8. T \in SUBSET Player /\ S \subseteq T
  BY <1>1, <1>3, Remaining
<1> HIDE DEF T
<1>9. OffersStandIn(at, spot, tradeItem, tradePartner, shown)
  BY StandingNow DEF StandInv
<1>10. ASSUME NEW r \in Player \ T, tradeItem[r] \in Item
       PROVE  /\ Where(at', tradeItem[r]) = Where(at, tradeItem[r])
              /\ Apart(PositionIn(at, spot', tradeItem[r]), spot'[r]) <= 1
              /\ \A j \in Item : HoldsIn(at', tradeItem[r], j) <=> HoldsIn(at, tradeItem[r], j)
  <2> DEFINE o == tradeItem[r]
  <2>1. /\ o # i /\ ~HoldsIn(at, o, i) /\ ~HoldsIn(at, i, o)
        /\ o # c /\ ~HoldsIn(at, o, c)
    BY <1>2, <1>8, <1>10, Unheard
  <2>2. o \in Item /\ Apart(PositionIn(at, spot', o), spot'[r]) <= 1
    BY <1>1, <1>9, <1>10 DEF OffersStandIn
  <2> HIDE DEF o
  <2>3. Where(at', o) = Where(at, o)
    BY <1>3, <1>4, <1>5, <2>1, <2>2, PutTop DEF Where
  <2>4. \A j \in Item : HoldsIn(at', o, j) <=> HoldsIn(at, o, j)
    BY <1>3, <1>4, <1>5, <2>1, PutHolds
  <2>5. QED
    BY <2>2, <2>3, <2>4 DEF o
<1>11. ASSUME NEW r \in Player \ T, tradeItem[r] # None, tradeItem[r] \notin Item
       PROVE  \A j \in Item : HoldsIn(at', tradeItem[r], j) <=> HoldsIn(at, tradeItem[r], j)
  BY <1>11, Kinds DEF HoldsIn
<1>12. ASSUME NEW r \in Player \ T, tradePartner[r] # None
       PROVE  r \in online' /\ Apart(spot'[r], spot'[tradePartner[r]]) <= Reach(r)
  BY <1>1, <1>9, <1>12 DEF OffersStandIn, Reach, StandInv, TradersHere
<1>13. QED
  BY <1>1, <1>6, <1>7, <1>10, <1>11, <1>12, StillStands DEF T

\* What a player receives goes to himself or into a bag of his that is not part
\* of his offer.
Receives(p, t, d) ==
  /\ d \in Player \union Bag
  /\ d \in Player => d = p
  /\ d \in Bag => Where(at, d) = p /\ d # t /\ ~HoldsIn(at, t, d)

\* Where __queryDestination has the goods put.
LEMMA Destinations ==
  ASSUME NEW p \in Player, NEW g, NEW d \in Destination(p, g)
  PROVE  Receives(p, tradeItem[p], d) /\ MayHold(d, g)
<1>1. CASE MayHold(p, g)
  BY <1>1, Kinds DEF Destination, Receives
<1>2. CASE ~MayHold(p, g)
  BY <1>2, Kinds, AsTheyLie DEF Destination, Receives
<1>3. QED
  BY <1>1, <1>2

\* Two offers, apart from each other, each put where the other player receives it.
LEMMA Swapped ==
  ASSUME StandInv, NEW p \in Player, NEW q \in Player, p # q,
         tradeItem[p] # None, tradeItem[q] # None,
         NEW d, NEW e,
         Receives(q, tradeItem[q], d), FitsIn(at, tradeItem[p], d),
         Receives(p, tradeItem[p], e), FitsIn(at, tradeItem[q], e)
  PROVE  /\ PutIn(at, tradeItem[p], d) \in [Item -> Places]
         /\ \A j \in Item : PutIn(at, tradeItem[p], d)[j] # j
         /\ ShallowIn(PutIn(at, tradeItem[p], d))
         /\ FitsIn(PutIn(at, tradeItem[p], d), tradeItem[q], e)
         /\ \A j : HoldsIn(PutIn(at, tradeItem[p], d), tradeItem[q], j)
                     <=> HoldsIn(at, tradeItem[q], j)
<1> DEFINE g == tradeItem[p]
           t == tradeItem[q]
           mid == PutIn(at, g, d)
<1>1. /\ at \in [Item -> Places] /\ ShallowIn(at) /\ (\A j \in Item : at[j] # j)
      /\ g \in Goods /\ t \in Goods
  BY DEF StandInv, TypeOK
<1>2. OffersStandIn(at, spot, tradeItem, tradePartner, shown)
  BY StandingNow DEF StandInv
<1>3. /\ g # t /\ ~HoldsIn(at, g, t) /\ ~HoldsIn(at, t, g)
  BY <1>2 DEF OffersStandIn
<1>4. /\ Receives(q, t, d) /\ FitsIn(at, g, d) /\ Receives(p, g, e) /\ FitsIn(at, t, e)
      /\ d \in Places /\ e \in Places
  BY DEF Receives, Places
<1> SUFFICES /\ mid \in [Item -> Places] /\ (\A j \in Item : mid[j] # j) /\ ShallowIn(mid)
             /\ FitsIn(mid, t, e)
             /\ \A j : HoldsIn(mid, t, j) <=> HoldsIn(at, t, j)
  OBVIOUS
<1> HIDE DEF g, t
<1>5. mid \in [Item -> Places] /\ (\A j \in Item : mid[j] # j) /\ ShallowIn(mid)
  BY <1>1, <1>4, PutShallow, PutTypes
<1>6. t \in Bag => t # d /\ ~HoldsIn(at, t, d)
  BY <1>4, <1>1, Kinds DEF Receives, HoldsIn
<1>7. ASSUME NEW j PROVE HoldsIn(mid, t, j) <=> HoldsIn(at, t, j)
  <2>1. CASE t \in Bag
    BY <1>1, <1>3, <1>4, <1>6, <2>1, PutHolds
  <2>2. CASE t \notin Bag
    BY <2>2 DEF HoldsIn
  <2>3. QED
    BY <2>1, <2>2
<1>8. \A k \in Item : mid[k] = IF k = g THEN d ELSE at[k]
  BY DEF PutIn
<1> HIDE DEF mid
<1>9. ASSUME e \in Bag PROVE FitsIn(mid, t, e)
  <2>1. e \in Item /\ e # t /\ ~HoldsIn(at, t, e) /\ e # g /\ ~HoldsIn(at, g, e)
    BY <1>4, <1>9, Kinds DEF FitsIn, Receives
  <2>2. ~HoldsIn(mid, t, e)
    BY <1>7, <2>1
  <2>3. mid[e] = at[e]
    BY <1>8, <2>1
  <2>4. ASSUME mid[e] \in Bag PROVE mid[mid[e]] \notin Bag /\ t \notin Bag
    <3>1. at[e] \in Item /\ at[e] # g
      BY <2>1, <2>3, <2>4, Kinds DEF HoldsIn
    <3>2. mid[mid[e]] = at[at[e]]
      BY <1>8, <2>3, <3>1
    <3>3. QED
      BY <1>4, <1>9, <2>3, <2>4, <3>2 DEF FitsIn
  <2>5. ASSUME t \in Bag, NEW j \in Item, mid[j] \in Bag, mid[mid[j]] = t PROVE FALSE
    <3>1. mid[j] \in Item
      BY <2>5, Kinds
    <3>2. CASE j = g
      <4>1. mid[j] = d /\ d \in Item /\ d \in Bag
        BY <1>8, <2>5, <3>1, <3>2
      <4>2. d # g
        BY <1>4, <4>1 DEF FitsIn
      <4>3. at[d] = t
        BY <1>8, <2>5, <4>1, <4>2
      <4>4. QED
        BY <1>6, <2>5, <4>1, <4>3 DEF HoldsIn
    <3>3. CASE j # g /\ mid[j] = g
      BY <1>6, <1>8, <2>5, <3>1, <3>3
    <3>4. CASE j # g /\ mid[j] # g
      <4>1. mid[j] = at[j] /\ mid[mid[j]] = at[at[j]]
        BY <1>8, <3>1, <3>4
      <4>2. QED
        BY <1>4, <1>9, <2>5, <4>1 DEF FitsIn
    <3>5. QED
      BY <3>2, <3>3, <3>4
  <2>6. QED
    BY <2>1, <2>2, <2>4, <2>5 DEF FitsIn
<1>10. FitsIn(mid, t, e)
  BY <1>9 DEF FitsIn
<1>11. QED
  BY <1>5, <1>7, <1>10

\* With what they hold, the two offers are with the other player then; all else
\* is where it was.
LEMMA SwapGoes ==
  ASSUME StandInv, NEW p \in Player, NEW q \in Player, p # q,
         tradeItem[p] # None, tradeItem[q] # None,
         NEW d, NEW e,
         Receives(q, tradeItem[q], d), FitsIn(at, tradeItem[p], d),
         Receives(p, tradeItem[p], e), FitsIn(at, tradeItem[q], e),
         NEW j \in Item
  PROVE  Where(PutIn(PutIn(at, tradeItem[p], d), tradeItem[q], e), j) =
           IF j = tradeItem[q] \/ HoldsIn(at, tradeItem[q], j) THEN p
           ELSE IF j = tradeItem[p] \/ HoldsIn(at, tradeItem[p], j) THEN q
           ELSE Where(at, j)
<1> DEFINE g == tradeItem[p]
           t == tradeItem[q]
           mid == PutIn(at, g, d)
           end == PutIn(mid, t, e)
<1>1. /\ at \in [Item -> Places] /\ ShallowIn(at) /\ g \in Goods /\ t \in Goods
      /\ FitsIn(at, g, d) /\ FitsIn(at, t, e)
      /\ Receives(q, t, d) /\ Receives(p, g, e) /\ d \in Places /\ e \in Places
  BY DEF StandInv, TypeOK, Receives, Places
<1>2. /\ mid \in [Item -> Places] /\ ShallowIn(mid) /\ FitsIn(mid, t, e)
      /\ \A k : HoldsIn(mid, t, k) <=> HoldsIn(at, t, k)
  BY Swapped
<1> SUFFICES Where(end, j) =
               IF j = t \/ HoldsIn(at, t, j) THEN p
               ELSE IF j = g \/ HoldsIn(at, g, j) THEN q ELSE Where(at, j)
  OBVIOUS
<1> HIDE DEF g, t
<1>3. TopIn(at, d) = q
  BY <1>1, Kinds DEF Receives, FitsIn, TopIn, Where
<1>4. \A k \in Item : Where(mid, k) =
        IF k = g \/ HoldsIn(at, g, k) THEN q ELSE Where(at, k)
  BY <1>1, <1>3, PutTop DEF Where
<1> HIDE DEF mid
<1>5. TopIn(mid, e) = p
  <2>1. CASE e \in Player
    BY <1>1, <2>1, Kinds DEF Receives, TopIn
  <2>2. CASE e \in Bag
    <3>1. Where(mid, e) = p
      BY <1>1, <1>4, <2>2, Kinds DEF Receives
    <3>2. QED
      BY <1>2, <2>2, <3>1 DEF FitsIn, TopIn, Where
  <2>3. QED
    BY <1>1, <2>1, <2>2 DEF Receives
<1>6. Where(end, j) = IF j = t \/ HoldsIn(mid, t, j) THEN p ELSE Where(mid, j)
  BY <1>1, <1>2, <1>5, PutTop DEF Where
<1>7. QED
  BY <1>2, <1>4, <1>6

\* What an accept that swaps does with the two offers.
LEMMA SwapPuts ==
  ASSUME StandInv, NEW p \in Player, AcceptAndSwap(p)
  PROVE  /\ tradePartner[p] \in Player /\ tradePartner[p] # p
         /\ tradePartner[tradePartner[p]] = p
         /\ tradeItem[p] # None /\ tradeItem[tradePartner[p]] # None
         /\ \E d, e :
              /\ Receives(tradePartner[p], tradeItem[tradePartner[p]], d)
              /\ FitsIn(at, tradeItem[p], d)
              /\ Receives(p, tradeItem[p], e) /\ FitsIn(at, tradeItem[tradePartner[p]], e)
              /\ at' = PutIn(PutIn(at, tradeItem[p], d), tradeItem[tradePartner[p]], e)
<1> DEFINE q == tradePartner[p]
           g == tradeItem[p]
           t == tradeItem[q]
<1>1. shown[p].own # {} /\ shown[p].theirs # {}
  BY DEF AcceptAndSwap, MayAccept, BothShown
<1>2. g # None /\ q # None /\ t # None
  BY <1>1 DEF StandInv, TradeInv, WindowsAreOfTrades
<1>3. q \in Player /\ q # p /\ tradePartner[q] = p
  BY <1>2 DEF StandInv, TradeInv, TradeTypes, PartnersAgree
<1>4. g # t
  BY <1>2, <1>3 DEF StandInv, OffersStand, OffersApart
<1>5. PICK d \in Destination(q, g), e \in Destination(p, t) :
        at' = [i \in Item |-> IF i = g THEN d ELSE IF i = t THEN e ELSE at[i]]
  BY DEF AcceptAndSwap
<1> HIDE DEF g, t, q
<1>6. /\ Receives(q, tradeItem[q], d) /\ FitsIn(at, g, d)
      /\ Receives(p, tradeItem[p], e) /\ FitsIn(at, t, e)
  BY <1>3, <1>5, Destinations, MayHoldFits
<1>7. at' = PutIn(PutIn(at, g, d), t, e)
  <2>1. PutIn(PutIn(at, g, d), t, e) =
          [j \in Item |-> IF j = t THEN e ELSE IF j = g THEN d ELSE at[j]]
    BY DEF PutIn
  <2>2. \A j \in Item : (IF j = g THEN d ELSE IF j = t THEN e ELSE at[j]) =
                        (IF j = t THEN e ELSE IF j = g THEN d ELSE at[j])
    BY <1>4
  <2>3. QED
    BY <1>5, <2>1, <2>2
<1>8. QED
  BY <1>2, <1>3, <1>6, <1>7 DEF g, t, q

\* A swap takes the two offers and no others.
LEMMA SwapStands ==
  ASSUME StandInv, NEW p \in Player, AcceptAndSwap(p)
  PROVE  StandInv'
<1> DEFINE q == tradePartner[p]
           g == tradeItem[p]
           t == tradeItem[q]
           between == Transfer(houseOwner, g, q)
           H == Lost(houseOwner, between) \union Lost(between, houseOwner')
           S == {p} \union (Displaced \ {p, q})
           T == WithPartners(S)
<1>1. /\ q \in Player /\ p # q /\ tradePartner[q] = p
      /\ g # None /\ t # None /\ tradeItem[q] # None /\ tradeItem[p] # None
      /\ \E d, e :
           /\ Receives(q, tradeItem[q], d) /\ FitsIn(at, tradeItem[p], d)
           /\ Receives(p, tradeItem[p], e) /\ FitsIn(at, tradeItem[q], e)
           /\ at' = PutIn(PutIn(at, g, d), t, e)
  BY SwapPuts
<1>2. /\ S \in SUBSET Player /\ CloseTrades(S) /\ Clear(H) /\ online' = online
      /\ houseOwner' = Transfer(between, t, p)
  BY <1>1 DEF AcceptAndSwap, Displaced
<1>3. H \in SUBSET House
  BY DEF Lost
<1>4. /\ at \in [Item -> Places] /\ ShallowIn(at) /\ (\A j \in Item : at[j] # j)
      /\ TradeInv /\ spot \in [Player -> Spot] /\ houseOwner \in [House -> Player \union {None}]
      /\ g \in Goods /\ t \in Goods
  BY <1>1 DEF StandInv, TypeOK
<1> HIDE DEF H
<1>5. spot' \in [Player -> Spot]
  BY <1>2, <1>3, <1>4, ClearedTypes
<1>6. houseOwner' \in [House -> Player \union {None}]
  BY <1>1, <1>2, <1>4 DEF Transfer
<1>7. /\ T \in SUBSET Player /\ S \subseteq T /\ p \in T /\ q \in T
      /\ \A r \in Player : tradePartner[r] # None => (r \in T <=> tradePartner[r] \in T)
  BY <1>1, <1>2, <1>4, Remaining, Kinds, ZenonT(30)
<1>8. \A r \in Player : spot'[r] # spot[r] /\ OutOfReach(r, spot') => r \in T
  BY <1>7 DEF Displaced
<1> HIDE DEF S, T, between
<1>9. PICK d, e :
        /\ Receives(q, tradeItem[q], d) /\ FitsIn(at, tradeItem[p], d)
        /\ Receives(p, tradeItem[p], e) /\ FitsIn(at, tradeItem[q], e)
        /\ at' = PutIn(PutIn(at, g, d), t, e)
  BY <1>1
<1>10. d \in Places /\ e \in Places
  BY <1>9 DEF Receives, Places
<1> DEFINE mid == PutIn(at, g, d)
<1>11. /\ mid \in [Item -> Places] /\ ShallowIn(mid) /\ (\A j \in Item : mid[j] # j)
       /\ FitsIn(mid, t, e) /\ \A j : HoldsIn(mid, t, j) <=> HoldsIn(at, t, j)
  BY <1>1, <1>9, Swapped
<1>12. at' \in [Item -> Places] /\ ShallowIn(at') /\ \A j \in Item : at'[j] # j
  <2> HIDE DEF g, t, mid
  <2>1. at' = PutIn(mid, t, e)
    BY <1>9 DEF mid
  <2>2. QED
    BY <1>4, <1>10, <1>11, <2>1, PutShallow, PutTypes
<1>13. TypeOK'
  <2>1. TradeInv' /\ attached' \in [Player -> BOOLEAN]
    BY <1>2, <1>4, EndingTrades DEF CloseTrades, EndTrades
  <2>2. online' \subseteq Player
    BY <1>2 DEF StandInv, TypeOK
  <2>3. QED
    BY <1>5, <1>6, <1>12, <2>1, <2>2 DEF TypeOK, TradeInv, TradeTypes
<1>14. OffersStandIn(at, spot, tradeItem, tradePartner, shown)
  BY StandingNow DEF StandInv
<1>15. ASSUME NEW r \in Player \ T
       PROVE  /\ tradeItem[r] \in Item => Apart(PositionIn(at, spot', tradeItem[r]), spot'[r]) <= 1
              /\ tradePartner[r] # None => Apart(spot'[r], spot'[tradePartner[r]]) <= Reach(r)
  BY <1>5, <1>7, <1>8, NearStays
<1>16. ASSUME NEW r \in Player \ T, tradeItem[r] \in Item
       PROVE  /\ Where(at', tradeItem[r]) = Where(at, tradeItem[r])
              /\ \A j \in Item : HoldsIn(at', tradeItem[r], j) <=> HoldsIn(at, tradeItem[r], j)
  <2> DEFINE o == tradeItem[r]
  <2>1. r # p /\ r # q /\ r \in Player /\ o # None
    BY <1>7, <1>16, Kinds DEF Goods
  <2>2. /\ o # g /\ ~HoldsIn(at, g, o) /\ ~HoldsIn(at, o, g)
        /\ o # t /\ ~HoldsIn(at, t, o) /\ ~HoldsIn(at, o, t)
        /\ Where(at, o) \notin Player \ {r}
    BY <1>1, <1>14, <1>16, <2>1 DEF OffersStandIn
  <2>3. o # d /\ ~HoldsIn(at, o, d) /\ o # e /\ ~HoldsIn(at, o, e)
    <3>1. ASSUME NEW s \in {p, q}, NEW x, NEW b, Receives(s, x, b) PROVE o # b /\ ~HoldsIn(at, o, b)
      <4>1. s \in Player \ {r}
        BY <1>1, <2>1, <3>1
      <4>2. CASE b \in Player
        BY <1>16, <4>2, Kinds DEF HoldsIn
      <4>3. CASE b \in Bag
        <5>1. Where(at, b) = s
          BY <3>1, <4>3 DEF Receives
        <5>2. HoldsIn(at, o, b) => Where(at, b) = Where(at, o)
          BY <1>4, HeldTogether DEF Where
        <5>3. QED
          BY <2>2, <4>1, <5>1, <5>2
      <4>4. QED
        BY <3>1, <4>2, <4>3 DEF Receives
    <3>2. QED
      BY <1>9, <3>1
  <2>4. o \in Item /\ FitsIn(at, g, d) /\ FitsIn(mid, t, e) /\ at' = PutIn(mid, t, e)
    BY <1>9, <1>11, <1>16
  <2> SUFFICES /\ Where(at', o) = Where(at, o)
               /\ \A j \in Item : HoldsIn(at', o, j) <=> HoldsIn(at, o, j)
    OBVIOUS
  <2> HIDE DEF o, g, t
  <2>5. Where(mid, o) = Where(at, o)
    BY <1>4, <1>10, <2>2, <2>4, PutTop DEF Where
  <2>6. \A j : HoldsIn(mid, o, j) <=> HoldsIn(at, o, j)
    BY <1>4, <1>10, <2>2, <2>3, <2>4, PutHolds
  <2> HIDE DEF mid
  <2>7. ~HoldsIn(mid, t, o) /\ ~HoldsIn(mid, o, t) /\ ~HoldsIn(mid, o, e)
    BY <1>11, <2>2, <2>3, <2>6
  <2>8. Where(at', o) = Where(mid, o)
    BY <1>4, <1>10, <1>11, <2>2, <2>4, <2>7, PutTop DEF Where
  <2>9. \A j : HoldsIn(at', o, j) <=> HoldsIn(mid, o, j)
    BY <1>4, <1>10, <1>11, <2>3, <2>4, <2>7, PutHolds
  <2>10. QED
    BY <2>5, <2>6, <2>8, <2>9
<1>17. ASSUME NEW r \in Player \ T, tradeItem[r] # None, tradeItem[r] \notin Item
       PROVE  \A j \in Item : HoldsIn(at', tradeItem[r], j) <=> HoldsIn(at, tradeItem[r], j)
  BY <1>17, Kinds DEF HoldsIn
<1>18. \A r \in Player \ T : tradePartner[r] # None => r \in online'
  BY <1>2 DEF StandInv, TradersHere
<1>19. QED
  BY <1>2, <1>12, <1>13, <1>15, <1>16, <1>17, <1>18, StillStands DEF T

\* Nobody trades at first, and no bag is in a bag.
LEMMA StandInit ==
  ASSUME Init
  PROVE  StandInv
<1>1. TradeInv
  BY DEF Init, TradeInv, TradeTypes, States, Closed, PartnersAgree, RegisterIsExact,
     WindowsAreOfTrades, DeedsAreSellers, Goods, Deed
<1>2. at \in [Item -> Player] /\ \A i \in Item : at[i] \in Places /\ at[i] # i /\ at[i] \notin Bag
  BY Kinds DEF Init, Places
<1>3. ShallowIn(at)
  BY <1>2 DEF ShallowIn
<1>4. TypeOK
  BY <1>1, <1>2 DEF Init, TypeOK, TradeInv, TradeTypes
<1>5. TradersHere
  BY DEF Init, TradersHere
<1>6. \A p \in Player : tradeItem[p] = None /\ tradePartner[p] = None
  BY DEF Init
<1>7. OffersStand
  BY <1>6, Kinds DEF OffersStand, OffersApart, OffersAtHand, WindowIsTrue, Goods
<1>8. QED
  BY <1>1, <1>3, <1>4, <1>5, <1>7 DEF StandInv

\* Every request and every move keeps the invariant.
LEMMA StandStep ==
  ASSUME StandInv, [Next]_vars
  PROVE  StandInv'
<1>1. ASSUME NEW p \in Player, NEW q \in Player, NEW i \in Item, RequestTrade(p, q, i)
      PROVE  StandInv'
  BY <1>1, RequestStands
<1>2. ASSUME NEW p \in Player, NEW q \in Player, NEW h \in House, SellHouse(p, q, h)
      PROVE  StandInv'
  BY <1>2, SellStands
<1>3. ASSUME NEW p \in Player, CloseTrade(p) \/ Logout(p) \/ AcceptWithoutRoom(p)
      PROVE  StandInv'
  BY <1>3, CloseStands
<1>4. ASSUME NEW p \in Player, NEW s \in Spot, Walk(p, s) PROVE StandInv'
  BY <1>4, WalkStands
<1>5. ASSUME NEW p \in Player, NEW i \in Item, NEW c \in Places, MoveItem(p, i, c)
      PROVE  StandInv'
  BY <1>5, MoveStands
<1>6. ASSUME NEW p \in Player, AcceptAndWait(p) PROVE StandInv'
  BY <1>6, WaitStands
<1>7. ASSUME NEW p \in Player, AcceptAndSwap(p) PROVE StandInv'
  BY <1>7, SwapStands
<1>8. ASSUME NEW p \in Player, NEW h \in House, LeaveHouse(p, h) PROVE StandInv'
  BY <1>8, LeaveStands
<1>9. ASSUME NEW p \in Player, Login(p) \/ \E h \in House : BuyHouse(p, h) PROVE StandInv'
  BY <1>9, LoginStands
<1>10. CASE UNCHANGED vars
  <2>1. TradeInv'
    BY <1>10, SameOffers DEF vars, StandInv
  <2>2. /\ attached' \in [Player -> BOOLEAN] /\ houseOwner' \in [House -> Player \union {None}]
        /\ online \subseteq online' /\ online' \subseteq Player
        /\ UNCHANGED <<spot, at, tradePartner, tradeItem, shown>>
    BY <1>10 DEF vars, StandInv, TypeOK
  <2>3. QED
    BY <2>1, <2>2, SameStands
<1>11. QED
  BY <1>1, <1>2, <1>3, <1>4, <1>5, <1>6, <1>7, <1>8, <1>9, <1>10 DEF Next

\* Every variable of the trades has its type, for any players and goods, and no
\* bag is ever in itself, whatever is moved and swapped.
THEOREM TradeTypesHold == Spec => []TypeOK
<1>1. Init => StandInv
  BY StandInit
<1>2. StandInv /\ [Next]_vars => StandInv'
  BY StandStep
<1>3. StandInv => TypeOK
  BY DEF StandInv
<1>4. QED
  BY <1>1, <1>2, <1>3, PTL DEF Spec

\* What is offered is apart from all other offers, within reach and as the
\* windows show it until its trade ends, for any number of players, items and
\* bags, however players walk and goods are moved.
THEOREM OffersStandFirm == Spec => []OffersStand
<1>1. Init => StandInv
  BY StandInit
<1>2. StandInv /\ [Next]_vars => StandInv'
  BY StandStep
<1>3. StandInv => OffersStand
  BY DEF StandInv
<1>4. QED
  BY <1>1, <1>2, <1>3, PTL DEF Spec

-----------------------------------------------------------------------------
(* What passes between players.                                            *)

WholeSwap ==
  \A i \in Item, p, q \in Player :
    p # q /\ Passes(i, p, q) =>
      /\ tradePartner[p] = q
      /\ i \in Contents(tradeItem[p])
      /\ "ACCEPT" \in {tradeState[p], tradeState[q]}
      /\ \E g \in Goods : g = tradeItem[q] /\ Given(g, p)

\* Where things are after the step.
LEMMA HolderThen == \A i : Holder(i)' = Where(at', i)
BY DEF Holder, TopParent, Where, TopIn

\* A thing passes when the one it is with changes.
LEMMA PassesNow ==
  \A i, p, q : Passes(i, p, q) <=> Where(at, i) = p /\ Where(at', i) = q
BY AsTheyLie, HolderThen DEF Passes

\* A move takes nothing from one player to another.
LEMMA MoveKeeps ==
  ASSUME StandInv, NEW p \in Player, NEW i \in Item, NEW c \in Places, MoveItem(p, i, c),
         NEW j \in Item, NEW a \in Player, NEW b \in Player, Passes(j, a, b)
  PROVE  a = b
<1>1. /\ at \in [Item -> Places] /\ ShallowIn(at)
  BY DEF StandInv, TypeOK
<1>2. /\ MayHold(c, i) /\ at' = PutIn(at, i, c)
      /\ Where(at, i) \notin Player \ {p} /\ TopIn(at, c) \notin Player \ {p}
  BY <1>1, AsTheyLie DEF MoveItem, PutIn
<1>3. i \in Goods /\ FitsIn(at, i, c)
  BY <1>2, MayHoldFits DEF Goods
<1>4. Where(at', j) = IF j = i \/ HoldsIn(at, i, j) THEN TopIn(at, c) ELSE Where(at, j)
  BY <1>1, <1>2, <1>3, PutTop DEF Where
<1>5. Where(at, j) = a /\ Where(at', j) = b
  BY PassesNow
<1>6. HoldsIn(at, i, j) => Where(at, j) = Where(at, i)
  BY <1>1, HeldTogether DEF Where
<1>7. QED
  BY <1>2, <1>4, <1>5, <1>6

\* A swap takes the one offer for the other.
LEMMA SwapIsFair ==
  ASSUME StandInv, NEW p \in Player, AcceptAndSwap(p)
  PROVE  WholeSwap
<1> DEFINE q == tradePartner[p]
           g == tradeItem[p]
           t == tradeItem[q]
<1>1. /\ q \in Player /\ p # q /\ tradePartner[q] = p
      /\ g # None /\ t # None /\ tradeItem[q] # None /\ tradeItem[p] # None
      /\ \E d, e :
           /\ Receives(q, tradeItem[q], d) /\ FitsIn(at, tradeItem[p], d)
           /\ Receives(p, tradeItem[p], e) /\ FitsIn(at, tradeItem[q], e)
           /\ at' = PutIn(PutIn(at, g, d), t, e)
  BY SwapPuts
<1>2. ASSUME NEW j \in Item
      PROVE  Where(at', j) = IF j = t \/ HoldsIn(at, t, j) THEN p
                             ELSE IF j = g \/ HoldsIn(at, g, j) THEN q ELSE Where(at, j)
  BY <1>1, SwapGoes
<1>3. OffersStandIn(at, spot, tradeItem, tradePartner, shown)
  BY StandingNow DEF StandInv
<1>4. /\ at \in [Item -> Places] /\ ShallowIn(at) /\ g \in Goods /\ t \in Goods
  BY <1>1 DEF StandInv, TypeOK
<1>5. /\ g # t /\ ~HoldsIn(at, g, t) /\ ~HoldsIn(at, t, g)
      /\ g \in Item => Where(at, g) \notin Player \ {p}
      /\ t \in Item => Where(at, t) \notin Player \ {q}
  BY <1>1, <1>3 DEF OffersStandIn
<1>6. tradeState[q] = "ACCEPT"
  BY DEF AcceptAndSwap, PartnerAccepted
<1>7. houseOwner' = Transfer(Transfer(houseOwner, g, q), t, p)
  BY DEF AcceptAndSwap
<1>8. /\ t \in Deed => houseOwner'[t[1]] = p
      /\ g \in Deed /\ t \notin Deed => houseOwner'[g[1]] = q
  BY <1>7 DEF Transfer, Deed
<1>9. /\ t \in Item => Where(at', t) = p
      /\ g \in Item => Where(at', g) = q
  BY <1>2, <1>5
<1>10. ASSUME NEW x \in Goods
       PROVE  /\ x = t => Given(x, p)
              /\ x = g /\ t \notin Deed => Given(x, q)
  <2>1. Holder(x)' = Where(at', x)
    BY HolderThen
  <2>2. CASE x \in Deed
    BY <1>8, <2>2 DEF Given
  <2>3. CASE x \notin Deed
    BY <1>9, <2>1, <2>3 DEF Given, Goods
  <2>4. QED
    BY <2>2, <2>3
<1>11. SUFFICES ASSUME NEW i \in Item, NEW a \in Player, NEW b \in Player, a # b, Passes(i, a, b)
                PROVE  /\ tradePartner[a] = b
                       /\ i \in Contents(tradeItem[a])
                       /\ "ACCEPT" \in {tradeState[a], tradeState[b]}
                       /\ \E x \in Goods : x = tradeItem[b] /\ Given(x, a)
  BY DEF WholeSwap
<1>12. Where(at, i) = a /\ Where(at', i) = b
  BY <1>11, PassesNow
<1>13. CASE i = t \/ HoldsIn(at, t, i)
  <2>1. b = p /\ t \in Item
    BY <1>2, <1>12, <1>13, Kinds DEF HoldsIn
  <2>2. Where(at, i) = Where(at, t)
    BY <1>4, <1>13, HeldTogether DEF Where
  <2>3. a = q
    BY <1>5, <1>12, <2>1, <2>2
  <2>4. i \in Contents(t)
    BY <1>13, AsTheyLie DEF ContentsIn
  <2>5. t \notin Deed
    BY <2>1, Kinds
  <2>6. QED
    BY <1>1, <1>4, <1>6, <1>10, <2>1, <2>3, <2>4, <2>5
<1>14. CASE ~(i = t \/ HoldsIn(at, t, i)) /\ (i = g \/ HoldsIn(at, g, i))
  <2>1. b = q /\ g \in Item
    BY <1>2, <1>12, <1>14, Kinds DEF HoldsIn
  <2>2. Where(at, i) = Where(at, g)
    BY <1>4, <1>14, HeldTogether DEF Where
  <2>3. a = p
    BY <1>5, <1>12, <2>1, <2>2
  <2>4. i \in Contents(g)
    BY <1>14, AsTheyLie DEF ContentsIn
  <2>5. QED
    BY <1>4, <1>6, <1>10, <2>1, <2>3, <2>4
<1>15. CASE ~(i = t \/ HoldsIn(at, t, i)) /\ ~(i = g \/ HoldsIn(at, g, i))
  BY <1>2, <1>11, <1>12, <1>15
<1>16. QED
  BY <1>13, <1>14, <1>15

\* No other step moves a thing from one player to another.
LEMMA SwapStep ==
  ASSUME StandInv, [Next]_vars
  PROVE  WholeSwap
<1>1. ASSUME at' = at PROVE WholeSwap
  BY <1>1, PassesNow DEF WholeSwap
<1>2. ASSUME NEW p \in Player, NEW i \in Item, NEW c \in Places, MoveItem(p, i, c)
      PROVE  WholeSwap
  BY <1>2, MoveKeeps DEF WholeSwap
<1>3. ASSUME NEW p \in Player, AcceptAndSwap(p) PROVE WholeSwap
  BY <1>3, SwapIsFair
<1>4. CASE UNCHANGED vars
  BY <1>1, <1>4 DEF vars
<1>5. ASSUME NEW p \in Player,
             \/ CloseTrade(p) \/ Logout(p) \/ Login(p)
             \/ AcceptAndWait(p) \/ AcceptWithoutRoom(p)
             \/ \E s \in Spot : Walk(p, s)
             \/ \E q \in Player, i \in Item : RequestTrade(p, q, i)
             \/ \E q \in Player, h \in House : SellHouse(p, q, h)
             \/ \E h \in House : BuyHouse(p, h) \/ LeaveHouse(p, h)
      PROVE  at' = at
  BY <1>5 DEF CloseTrade, Logout, Login, AcceptAndWait, AcceptWithoutRoom, Walk,
     RequestTrade, SellHouse, BuyHouse, LeaveHouse
<1>6. QED
  BY <1>1, <1>2, <1>3, <1>4, <1>5 DEF Next

\* Whatever passes from one player's inventory to another's was offered to him
\* and accepted, and what he offered for it went the other way in the same step:
\* for any players and goods, houses for items included.
THEOREM SwapsAreWhole == Spec => SwapIsWhole
<1>1. Init => StandInv
  BY StandInit
<1>2. StandInv /\ [Next]_vars => StandInv'
  BY StandStep
<1>3. StandInv /\ [Next]_vars => WholeSwap
  BY StandStep, SwapStep
<1>4. Spec => [][WholeSwap]_vars
  BY <1>1, <1>2, <1>3, PTL DEF Spec
<1>5. QED
  BY <1>4 DEF WholeSwap, SwapIsWhole
=============================================================================
