--------------------------- MODULE SessionProofs ---------------------------
(***************************************************************************)
(* Proofs about logging in and out, for any players, machines, attempts    *)
(* and orders.                                                             *)
(***************************************************************************)
EXTENDS Session, FiniteSetTheorems, WellFoundedInduction, TLAPS

-----------------------------------------------------------------------------
(* Induction.                                                              *)

\* A number below another is below it in a well-founded relation.
LEMMA Order ==
  \E R : IsWellFoundedOn(R, Nat) /\ \A a, b \in Nat : <<a, b>> \in R <=> a < b
<1>1. IsWellFoundedOn(OpToRel(<, Nat), Nat)
  BY NatLessThanWellFounded, Zenon
<1>2. \A a, b \in Nat : <<a, b>> \in OpToRel(<, Nat) <=> a < b
  BY DEF OpToRel
<1>3. QED
  BY <1>1, <1>2, Zenon

\* A set of numbers that is not empty has a member with none below it.
LEMMA Minimal ==
  ASSUME NEW R, NEW T, IsWellFoundedOn(R, Nat), T \subseteq Nat, T # {}
  PROVE  \E x \in T : \A y \in T : ~(<<y, x>> \in R)
BY WFMin, Zenon

\* A set of numbers has a least one.  What does not hold of every number has a
\* first counterexample, which is how these proofs do induction.
LEMMA Least ==
  ASSUME NEW T \in SUBSET Nat, T # {}
  PROVE  \E n \in T : \A m \in T : n <= m
<1>1. PICK R : IsWellFoundedOn(R, Nat) /\ \A a, b \in Nat : <<a, b>> \in R <=> a < b
  BY Order
<1>2. T \subseteq Nat
  OBVIOUS
<1>3. \E x \in T : \A y \in T : ~(<<y, x>> \in R)
  BY <1>1, <1>2, Minimal
<1>4. PICK x \in T : \A y \in T : ~(<<y, x>> \in R)
  BY <1>3
<1>5. ASSUME NEW y \in T PROVE x <= y
  <2>1. x \in Nat /\ y \in Nat
    BY <1>2
  <2>2. ~(<<y, x>> \in R)
    BY <1>4
  <2>3. ~(y < x)
    BY <1>1, <2>1, <2>2, Zenon
  <2>4. QED
    BY <2>1, <2>3
<1>6. QED
  BY <1>5

-----------------------------------------------------------------------------
(* What is known of clients and players.                                   *)

USE PlayersAssumption, SessionAssumption DEF PlayersAssumption, SessionAssumption

\* The part of the state that is about clients and their players.
ClientTypes ==
  /\ online \subseteq Player
  /\ conn \in [Machine -> {"none", "open", "closing", "released"}]
  /\ entered \in [Machine -> BOOLEAN]
  /\ plays \in [Machine -> Player \union {None, Gone}]
  /\ eventConnect \in [Machine -> Player \union {None, Gone}]
  /\ client \in [Player -> Machine \union {None}]
  /\ isConnecting \in [Player -> BOOLEAN]

\* A protocol plays nobody before its login task has run, nor while it waits
\* to connect, and the player it waits for is in the game.
WaitersPlayNobody ==
  \A c \in Machine :
    /\ conn[c] = "none" \/ ~entered[c] => plays[c] = None /\ eventConnect[c] = None
    /\ eventConnect[c] # None => plays[c] = None
    /\ eventConnect[c] \in Player => eventConnect[c] \in online

ClientInv == ClientTypes /\ ClientsAreTrue /\ ConnectsFindTheirProtocol /\ WaitersPlayNobody

clientVars == <<online, conn, entered, plays, eventConnect, client, isConnecting>>

-----------------------------------------------------------------------------
(* The parts of actions.                                                   *)

\* Closing a connection that is open leaves every other alone.
LEMMA ClosingIsLinked ==
  ASSUME ClientTypes, NEW C, conn' = Closing(C)
  PROVE  /\ conn' \in [Machine -> {"none", "open", "closing", "released"}]
         /\ \A c \in Machine :
              /\ conn'[c] = "none" <=> conn[c] = "none"
              /\ conn[c] \in {"open", "closing"} => conn'[c] \in {"open", "closing"}
BY DEF Closing, ClientTypes

\* A login that only closes connections, and perhaps forgets its own connect.
LEMMA OnlyClosing ==
  ASSUME ClientInv, NEW C, conn' = Closing(C), NEW c \in Machine,
         eventConnect' \in {eventConnect, [eventConnect EXCEPT ![c] = None]},
         entered' \in {entered, [entered EXCEPT ![c] = TRUE]},
         UNCHANGED <<online, plays, client, isConnecting>>
  PROVE  ClientInv'
<1>1. /\ conn' \in [Machine -> {"none", "open", "closing", "released"}]
      /\ \A d \in Machine :
           /\ conn'[d] = "none" <=> conn[d] = "none"
           /\ conn[d] \in {"open", "closing"} => conn'[d] \in {"open", "closing"}
  BY ClosingIsLinked DEF ClientInv
<1>2. /\ eventConnect' \in [Machine -> Player \union {None, Gone}]
      /\ entered' \in [Machine -> BOOLEAN]
      /\ \A d \in Machine : /\ eventConnect'[d] \in {eventConnect[d], None}
                            /\ ~entered'[d] => ~entered[d]
  BY DEF ClientInv, ClientTypes
<1>3. ClientTypes'
  BY <1>1, <1>2 DEF ClientInv, ClientTypes
<1>4. ClientsAreTrue'
  BY <1>1 DEF ClientInv, ClientTypes, ClientsAreTrue
<1>5. ConnectsFindTheirProtocol'
  BY <1>1, <1>2 DEF ClientInv, ConnectsFindTheirProtocol
<1>6. WaitersPlayNobody'
  BY <1>1, <1>2 DEF ClientInv, WaitersPlayNobody
<1>7. QED
  BY <1>3, <1>4, <1>5, <1>6 DEF ClientInv

\* Players are removed with all that points to them.
LEMMA RemovingPlayers ==
  ASSUME ClientInv, NEW P \in SUBSET Player, RemovePlayers(P), NEW C, conn' = Closing(C),
         UNCHANGED entered
  PROVE  ClientInv'
<1>1. ClientTypes'
  BY ClosingIsLinked DEF ClientInv, ClientTypes, RemovePlayers
<1>2. ClientsAreTrue'
  BY ClosingIsLinked DEF ClientInv, ClientTypes, ClientsAreTrue, RemovePlayers
<1>3. ConnectsFindTheirProtocol' /\ WaitersPlayNobody'
  BY ClosingIsLinked
  DEF ClientInv, ClientTypes, ConnectsFindTheirProtocol, WaitersPlayNobody,
      RemovePlayers
<1>4. QED
  BY <1>1, <1>2, <1>3 DEF ClientInv

\* A protocol that plays nobody may take a player whom nobody plays.
LEMMA Binding ==
  ASSUME ClientInv, NEW c \in Machine, NEW p \in online, Bind(c, p),
         client[p] = None, plays[c] = None,
         conn[c] \in {"open", "closing"}, UNCHANGED <<online, conn>>,
         eventConnect' = [eventConnect EXCEPT ![c] = None],
         entered' = [entered EXCEPT ![c] = TRUE]
  PROVE  ClientInv'
<1>1. ClientTypes'
  BY DEF ClientInv, ClientTypes, Bind
<1>2. ClientsAreTrue'
  BY DEF ClientInv, ClientTypes, ClientsAreTrue, Bind
<1>3. ConnectsFindTheirProtocol' /\ WaitersPlayNobody'
  BY DEF ClientInv, ClientTypes, ConnectsFindTheirProtocol, WaitersPlayNobody, Bind
<1>4. QED
  BY <1>1, <1>2, <1>3 DEF ClientInv

-----------------------------------------------------------------------------
(* Clients and players.                                                    *)

\* Every step of the session keeps what is known of clients.
LEMMA ClientStep ==
  ASSUME ClientInv, [SessionNext]_sessionVars
  PROVE  ClientInv'
<1> USE DEF ClientInv
<1>1. CASE UNCHANGED clientVars
  BY <1>1 DEF clientVars, ClientTypes, ClientsAreTrue, ConnectsFindTheirProtocol,
     WaitersPlayNobody
<1>2. ASSUME NEW c \in Machine, Accept(c) PROVE ClientInv'
  BY <1>2 DEF Accept, ClientTypes, ClientsAreTrue, ConnectsFindTheirProtocol,
     WaitersPlayNobody
<1>3. ASSUME NEW c \in Machine, Disconnect(c) PROVE ClientInv'
  <2>1. conn' = Closing({c}) /\ UNCHANGED <<online, entered, plays, eventConnect,
                                            client, isConnecting>>
    BY <1>3 DEF Disconnect
  <2>2. QED
    BY <2>1, OnlyClosing
<1>4. ASSUME NEW c \in Machine, CloseConnection(c) PROVE ClientInv'
  <2>1. ClientTypes'
    BY <1>4 DEF CloseConnection, ClientTypes
  <2>2. ClientsAreTrue'
    BY <1>4 DEF CloseConnection, ClientTypes, ClientsAreTrue, WaitersPlayNobody
  <2>3. ConnectsFindTheirProtocol' /\ WaitersPlayNobody'
    BY <1>4 DEF CloseConnection, ClientTypes, ConnectsFindTheirProtocol,
       WaitersPlayNobody
  <2>4. QED
    BY <2>1, <2>2, <2>3
<1>5. ASSUME NEW c \in Machine, ReleaseAgain(c) PROVE ClientInv'
  BY <1>5 DEF ReleaseAgain, ClientTypes, ClientsAreTrue, ConnectsFindTheirProtocol,
     WaitersPlayNobody
<1>6. ASSUME NEW c \in Machine, ConnectTooLate(c) PROVE ClientInv'
  <2>1. conn' = Closing({c}) /\ eventConnect' = [eventConnect EXCEPT ![c] = None]
        /\ UNCHANGED <<online, entered, plays, client, isConnecting>>
    BY <1>6 DEF ConnectTooLate
  <2>2. QED
    BY <2>1, OnlyClosing
<1>7. ASSUME NEW c \in Machine, ConnectUnlinked(c) PROVE ClientInv'
  BY <1>7 DEF ConnectUnlinked, ClientTypes, ClientsAreTrue,
     ConnectsFindTheirProtocol, WaitersPlayNobody
<1>8. ASSUME NEW c \in Machine, Connect(c) PROVE ClientInv'
  <2>1. /\ eventConnect[c] \in online /\ plays[c] = None
        /\ conn[c] \in {"open", "closing"} /\ entered[c]
    BY <1>8 DEF Connect, ClientTypes, ConnectsFindTheirProtocol, WaitersPlayNobody
  <2>2. entered' = [entered EXCEPT ![c] = TRUE]
    BY <1>8, <2>1 DEF Connect, ClientTypes
  <2>3. QED
    BY <1>8, <2>1, <2>2, Binding DEF Connect
<1>9. ASSUME NEW c \in Machine, Logout(c) PROVE ClientInv'
  <2>1. conn' = Closing({c}) /\ UNCHANGED entered
    BY <1>9 DEF Logout
  <2>2. CASE plays[c] = Gone
    <3>1. UNCHANGED <<online, plays, eventConnect, client, isConnecting>>
      BY <1>9, <2>2 DEF Logout
    <3>2. QED
      BY <2>1, <3>1, OnlyClosing
  <2>3. CASE plays[c] # Gone
    <3>1. {plays[c]} \in SUBSET Player
      BY <1>9, <2>3 DEF Logout, ClientTypes
    <3>2. RemovePlayers({plays[c]})
      BY <1>9, <2>3 DEF Logout
    <3>3. QED
      BY <2>1, <3>1, <3>2, RemovingPlayers
  <2>4. QED
    BY <2>2, <2>3
<1>10. ASSUME NEW c \in Machine, NEW p \in Player, LoginRefused(c, p) PROVE ClientInv'
  <2>1. conn' = Closing({c}) /\ entered' = [entered EXCEPT ![c] = TRUE]
        /\ UNCHANGED <<online, plays, eventConnect, client, isConnecting>>
    BY <1>10 DEF LoginRefused, Enters
  <2>2. QED
    BY <2>1, OnlyClosing
<1>11. ASSUME NEW c \in Machine, NEW p \in Player, LoginPutOff(c, p) PROVE ClientInv'
  <2>1. conn' = Closing({c}) /\ entered' = [entered EXCEPT ![c] = TRUE]
        /\ UNCHANGED <<online, plays, eventConnect, client, isConnecting>>
    BY <1>11 DEF LoginPutOff, Enters
  <2>2. QED
    BY <2>1, OnlyClosing
<1>12. ASSUME NEW c \in Machine, NEW p \in Player, LoginPlaced(c, p) PROVE ClientInv'
  <2>1. /\ p \notin online /\ ~entered[c] /\ conn[c] \in {"open", "closing"}
        /\ online' = online \union {p}
        /\ plays' = [plays EXCEPT ![c] = p] /\ client' = [client EXCEPT ![p] = c]
        /\ isConnecting' = [isConnecting EXCEPT ![p] = FALSE]
        /\ entered' = [entered EXCEPT ![c] = TRUE]
        /\ UNCHANGED <<conn, eventConnect>>
    BY <1>12 DEF LoginPlaced, Enters
  <2>2. plays[c] = None /\ eventConnect[c] = None
    BY <2>1 DEF WaitersPlayNobody
  <2>3. \A d \in Machine : plays[d] # p
    BY <2>1 DEF ClientTypes, ClientsAreTrue
  <2>4. ClientTypes' /\ ClientsAreTrue'
    BY <2>1, <2>2, <2>3 DEF ClientTypes, ClientsAreTrue
  <2>5. ConnectsFindTheirProtocol' /\ WaitersPlayNobody'
    BY <2>1, <2>2 DEF ClientTypes, ConnectsFindTheirProtocol, WaitersPlayNobody
  <2>6. QED
    BY <2>4, <2>5
<1>13. ASSUME NEW c \in Machine, NEW p \in Player, LoginTakesOver(c, p) PROVE ClientInv'
  <2>1. /\ conn' = Closing({client[p]}) /\ entered' = [entered EXCEPT ![c] = TRUE]
        /\ conn[c] \in {"open", "closing"} /\ ~entered[c] /\ p \in online
        /\ isConnecting' = [isConnecting EXCEPT ![p] = TRUE]
        /\ eventConnect' = [eventConnect EXCEPT ![c] = p]
        /\ UNCHANGED <<online, plays, client>>
    BY <1>13 DEF LoginTakesOver, Enters
  <2>2. /\ conn' \in [Machine -> {"none", "open", "closing", "released"}]
        /\ \A d \in Machine :
             /\ conn'[d] = "none" <=> conn[d] = "none"
             /\ conn[d] \in {"open", "closing"} => conn'[d] \in {"open", "closing"}
    BY <2>1, ClosingIsLinked
  <2>3. ClientTypes'
    BY <2>1, <2>2 DEF ClientTypes
  <2>4. ClientsAreTrue'
    <3>1. UNCHANGED <<online, plays, client>>
      BY <2>1
    <3>2. QED
      BY <2>2, <3>1 DEF ClientTypes, ClientsAreTrue
  <2>5. ConnectsFindTheirProtocol' /\ WaitersPlayNobody'
    BY <2>1, <2>2, ZenonT(30) DEF ClientTypes, ConnectsFindTheirProtocol, WaitersPlayNobody
  <2>6. QED
    BY <2>3, <2>4, <2>5
<1>14. ASSUME NEW c \in Machine, NEW p \in Player, LoginReturns(c, p) PROVE ClientInv'
  <2>1. /\ p \in online /\ client[p] = None /\ ~entered[c]
        /\ conn[c] \in {"open", "closing"} /\ Bind(c, p)
        /\ entered' = [entered EXCEPT ![c] = TRUE]
        /\ UNCHANGED <<online, conn, eventConnect>>
    BY <1>14 DEF LoginReturns, Enters
  <2>2. plays[c] = None /\ eventConnect[c] = None
    BY <2>1 DEF WaitersPlayNobody
  <2>3. eventConnect' = [eventConnect EXCEPT ![c] = None]
    BY <2>1, <2>2 DEF ClientTypes
  <2>4. QED
    BY <2>1, <2>2, <2>3, Binding
<1>15. ASSUME NEW p \in Player, Kick(p) \/ IdleLogout(p) PROVE ClientInv'
  BY <1>15, RemovingPlayers DEF Kick, IdleLogout
<1>16. CASE WaitTooLong
  BY <1>16, <1>1 DEF WaitTooLong, clientVars
<1>17. CASE SetGameState
  <2>1. PICK P : /\ P = Expelled(Head(orders)) /\ RemovePlayers(P)
                 /\ conn' = Closing({client[p] : p \in P}) /\ UNCHANGED entered
    BY <1>17 DEF SetGameState
  <2>2. P \in SUBSET Player
    BY <2>1 DEF Expelled, ClientTypes
  <2>3. QED
    BY <2>1, <2>2, RemovingPlayers
<1>18. CASE Visits
  BY <1>2, <1>3, <1>4, <1>5, <1>6, <1>7, <1>8, <1>9, <1>10, <1>11, <1>12, <1>13,
     <1>14, <1>15, <1>16, <1>18 DEF Visits
<1>19. ASSUME NEW A, GameStep(A) PROVE ClientInv'
  BY <1>19, <1>1 DEF GameStep, clientVars
<1>20. CASE UNCHANGED sessionVars
  BY <1>20, <1>1 DEF sessionVars, clientVars
<1>21. QED
  BY <1>17, <1>18, <1>19, <1>20 DEF SessionNext, Visit

\* A client never points to a protocol that is gone or plays another, and a
\* scheduled connect always finds its protocol: for any number of clients that
\* come for the same player, and any order of their closes and timers.
THEOREM ClientsSafe == SessionSpec => []SessionsAreTrue
<1>1. SessionInit => ClientInv
  BY DEF SessionInit, ClientInv, ClientTypes, ClientsAreTrue,
     ConnectsFindTheirProtocol, WaitersPlayNobody
<1>2. ClientInv /\ [SessionNext]_sessionVars => ClientInv'
  BY ClientStep
<1>3. ClientInv => SessionsAreTrue
  BY DEF ClientInv, SessionsAreTrue
<1>4. QED
  BY <1>1, <1>2, <1>3, PTL DEF SessionSpec

-----------------------------------------------------------------------------
(* Players and the state of the game.                                      *)

\* A state that is set leaves in the game whom it may leave there.
LEMMA SettingStates ==
  ASSUME ClosedWorldIsEmpty, Running, SetGameState
  PROVE  ClosedWorldIsEmpty'
<1> DEFINE s == Head(orders)
<1>1. gameState' = s /\ online' = online \ Expelled(s)
  BY DEF SetGameState, RunOrder, Enter, Running, RemovePlayers
<1>2. CASE s = gameState
  BY <1>1, <1>2 DEF ClosedWorldIsEmpty
<1>3. CASE s # gameState /\ s = "shutdown"
  <2>1. Expelled(s) = online
    BY <1>3 DEF Expelled, Changes, Running
  <2>2. QED
    BY <1>1, <1>3, <2>1 DEF ClosedWorldIsEmpty
<1>4. CASE s # gameState /\ s = "closed"
  <2>1. Expelled(s) = online \ AlwaysLogin
    BY <1>4 DEF Expelled, Changes, Running
  <2>2. QED
    BY <1>1, <1>4, <2>1 DEF ClosedWorldIsEmpty
<1>5. CASE s \notin {"closed", "shutdown"}
  BY <1>1, <1>5 DEF ClosedWorldIsEmpty
<1>6. QED
  BY <1>2, <1>3, <1>4, <1>5

\* The players of a visit: only a login adds one, and it was admitted.
LEMMA Arrivals ==
  ASSUME Visits
  PROVE  \A p \in online' : p \in online \/ Admitted(p)
<1>1. ASSUME NEW c \in Machine,
             \/ Accept(c) \/ Disconnect(c) \/ CloseConnection(c) \/ ReleaseAgain(c)
             \/ ConnectTooLate(c) \/ ConnectUnlinked(c) \/ Connect(c)
      PROVE  online' = online
  BY <1>1 DEF Accept, Disconnect, CloseConnection, ReleaseAgain, ConnectTooLate,
     ConnectUnlinked, Connect
<1>2. ASSUME NEW c \in Machine, Logout(c)
      PROVE  online' \subseteq online
  BY <1>2 DEF Logout, RemovePlayers
<1>3. ASSUME NEW c \in Machine, NEW p \in Player,
             \/ LoginRefused(c, p) \/ LoginPutOff(c, p)
             \/ LoginTakesOver(c, p) \/ LoginReturns(c, p)
      PROVE  online' = online
  BY <1>3 DEF LoginRefused, LoginPutOff, LoginTakesOver, LoginReturns
<1>4. ASSUME NEW c \in Machine, NEW p \in Player, LoginPlaced(c, p)
      PROVE  online' = online \union {p} /\ Admitted(p)
  BY <1>4 DEF LoginPlaced
<1>5. ASSUME NEW p \in Player, Kick(p) \/ IdleLogout(p)
      PROVE  online' \subseteq online
  BY <1>5 DEF Kick, IdleLogout, RemovePlayers
<1>6. CASE WaitTooLong
  BY <1>6 DEF WaitTooLong
<1>7. QED
  BY <1>1, <1>2, <1>3, <1>4, <1>5, <1>6 DEF Visits

\* A closed world is empty, whatever logins, takeovers, orders and saves there
\* are: login looks at the state in the same task that places the player.
THEOREM ClosedWorldSafe == SessionSpec => []ClosedWorldIsEmpty
<1>1. SessionInit => ClosedWorldIsEmpty
  BY DEF SessionInit, GameStateInit, ClosedWorldIsEmpty
<1>2. ClosedWorldIsEmpty /\ [SessionNext]_sessionVars => ClosedWorldIsEmpty'
  <2> SUFFICES ASSUME ClosedWorldIsEmpty, [SessionNext]_sessionVars
               PROVE  ClosedWorldIsEmpty'
    OBVIOUS
  <2>1. CASE Visit(Visits)
    <3>1. gameState # "shutdown" /\ gameState' = gameState
      BY <2>1 DEF Visit, Running, gameVars
    <3>2. \A p \in online' : p \in online \/ Admitted(p)
      BY <2>1, Arrivals DEF Visit
    <3>3. QED
      BY <3>1, <3>2 DEF ClosedWorldIsEmpty, Admitted
  <2>2. CASE Running /\ SetGameState
    BY <2>2, SettingStates
  <2>3. CASE GameStep(AnnounceSave)
    BY <2>3 DEF GameStep, Running, AnnounceSave, Enter, ClosedWorldIsEmpty
  <2>4. CASE GameStep(GlobalSave)
    BY <2>4 DEF GameStep, GlobalSave, ClosedWorldIsEmpty
  <2>5. ASSUME NEW s \in {"normal", "closed", "shutdown"}, GameStep(OrderState(s))
        PROVE  ClosedWorldIsEmpty'
    BY <2>5 DEF GameStep, OrderState, ClosedWorldIsEmpty
  <2>6. CASE UNCHANGED sessionVars
    BY <2>6 DEF sessionVars, gameVars, ClosedWorldIsEmpty
  <2>7. QED
    BY <2>1, <2>2, <2>3, <2>4, <2>5, <2>6 DEF SessionNext
<1>3. QED
  BY <1>1, <1>2, PTL DEF SessionSpec

-----------------------------------------------------------------------------
(* The waiting list by itself.                                             *)

USE WaitingAssumption DEF WaitingAssumption

WaitEntry == [name : Player, ip : Machine, late : BOOLEAN]

\* The first i entries without those that are late, for i up to n.
Keeps(list, n, kept) ==
  kept = [i \in 0..n |->
    IF i = 0 THEN <<>>
    ELSE IF list[i].late THEN kept[i - 1] ELSE Append(kept[i - 1], list[i])]

\* The recursion of Cleanup is defined, step by step.
LEMMA KeptExists ==
  ASSUME NEW list, NEW n \in Nat
  PROVE  \E kept : Keeps(list, n, kept)
<1> DEFINE T == {m \in Nat : ~\E kept : Keeps(list, m, kept)}
<1>1. SUFFICES ASSUME T # {} PROVE FALSE
  OBVIOUS
<1>2. PICK m \in T : \A k \in T : m <= k
  <2>1. T \in SUBSET Nat
    OBVIOUS
  <2>2. QED
    BY ONLY <1>1, <2>1, Least
<1>3. m # 0
  <2>1. Keeps(list, 0, [i \in 0..0 |-> <<>>])
    BY DEF Keeps
  <2>2. QED
    BY <2>1
<1>4. m \in Nat /\ m - 1 \in Nat /\ m - 1 \notin T
  BY <1>2, <1>3
<1>5. PICK kept : Keeps(list, m - 1, kept)
  BY <1>4
<1> DEFINE e == IF list[m].late THEN kept[m - 1] ELSE Append(kept[m - 1], list[m])
           more == [i \in 0..m |-> IF i = m THEN e ELSE kept[i]]
<1>6. Keeps(list, m, more)
  <2>1. \A i \in 0..m-1 : kept[i] =
          IF i = 0 THEN <<>>
          ELSE IF list[i].late THEN kept[i - 1] ELSE Append(kept[i - 1], list[i])
    BY <1>5 DEF Keeps
  <2>2. ASSUME NEW i \in 0..m
        PROVE  more[i] =
          IF i = 0 THEN <<>>
          ELSE IF list[i].late THEN more[i - 1] ELSE Append(more[i - 1], list[i])
    <3>1. CASE i = m
      <4>1. more[m] = e /\ more[m - 1] = kept[m - 1]
        BY <1>3, <1>4
      <4>2. QED
        BY <3>1, <4>1, <1>3
    <3>2. CASE i # m /\ i # 0
      <4>1. more[i] = kept[i] /\ more[i - 1] = kept[i - 1] /\ i \in 0..m-1
        BY <3>2, <1>4
      <4>2. QED
        BY <2>1, <3>2, <4>1
    <3>3. CASE i # m /\ i = 0
      BY <2>1, <3>3, <1>4
    <3>4. QED
      BY <3>1, <3>2, <3>3
  <2>3. QED
    BY <2>2 DEF Keeps
<1>7. QED
  BY <1>6, <1>2

\* What is kept of the first n entries: those that are not late, in their order;
\* at tells where each of them was.
KeptAt(list, n, s, at) ==
  /\ at \in [1..Len(s) -> 1..n]
  /\ \A i, j \in 1..Len(s) : i < j => at[i] < at[j]
  /\ \A i \in 1..Len(s) : s[i] = list[at[i]] /\ ~list[at[i]].late
  /\ \A k \in 1..n : ~list[k].late => \E i \in 1..Len(s) : at[i] = k

IsKept(list, n, s) == s \in Seq(WaitEntry) /\ \E at : KeptAt(list, n, s, at)

\* One more entry is kept or struck.
LEMMA KeptGrows ==
  ASSUME NEW list \in Seq(WaitEntry), NEW n \in 1..Len(list), NEW s,
         IsKept(list, n - 1, s)
  PROVE  IsKept(list, n, IF list[n].late THEN s ELSE Append(s, list[n]))
<1>1. PICK at : KeptAt(list, n - 1, s, at)
  BY DEF IsKept
<1>2. s \in Seq(WaitEntry) /\ list[n] \in WaitEntry /\ n \in Nat /\ Len(s) \in Nat
  BY DEF IsKept
<1>3. CASE list[n].late
  <2>1. at \in [1..Len(s) -> 1..n]
    BY <1>1, <1>2 DEF KeptAt
  <2>2. \A k \in 1..n : ~list[k].late => \E i \in 1..Len(s) : at[i] = k
    BY <1>1, <1>2, <1>3 DEF KeptAt
  <2>3. KeptAt(list, n, s, at)
    BY <1>1, <2>1, <2>2 DEF KeptAt
  <2>4. QED
    BY <1>2, <1>3, <2>3 DEF IsKept
<1>4. CASE ~list[n].late
  <2> DEFINE t == Append(s, list[n])
             more == [i \in 1..Len(s)+1 |-> IF i = Len(s)+1 THEN n ELSE at[i]]
  <2>1. t \in Seq(WaitEntry) /\ Len(t) = Len(s) + 1 /\ t[Len(s)+1] = list[n]
        /\ \A i \in 1..Len(s) : t[i] = s[i]
    BY <1>2
  <2>2. more \in [1..Len(t) -> 1..n]
    BY <2>1, <1>1, <1>2 DEF KeptAt
  <2>3. ASSUME NEW i \in 1..Len(t), NEW j \in 1..Len(t), i < j PROVE more[i] < more[j]
    <3>1. i \in 1..Len(s) /\ at[i] \in 1..n-1 /\ more[i] = at[i]
      BY <2>1, <2>3, <1>1, <1>2 DEF KeptAt
    <3>2. CASE j = Len(s) + 1
      BY <3>1, <3>2, <1>2
    <3>3. CASE j # Len(s) + 1
      <4>1. j \in 1..Len(s) /\ more[j] = at[j]
        BY <2>1, <3>3, <1>2
      <4>2. QED
        BY <2>3, <3>1, <4>1, <1>1 DEF KeptAt
    <3>4. QED
      BY <3>2, <3>3
  <2>4. \A i \in 1..Len(t) : t[i] = list[more[i]] /\ ~list[more[i]].late
    BY <2>1, <1>1, <1>2, <1>4 DEF KeptAt
  <2>5. ASSUME NEW k \in 1..n, ~list[k].late PROVE \E i \in 1..Len(t) : more[i] = k
    <3>1. CASE k = n
      <4>1. Len(s) + 1 \in 1..Len(t) /\ more[Len(s) + 1] = n
        BY <2>1, <1>2
      <4>2. QED
        BY <3>1, <4>1
    <3>2. CASE k # n
      <4>1. PICK i \in 1..Len(s) : at[i] = k
        BY <3>2, <2>5, <1>1, <1>2 DEF KeptAt
      <4>2. i \in 1..Len(t) /\ more[i] = k
        BY <4>1, <2>1, <1>2
      <4>3. QED
        BY <4>2
    <3>3. QED
      BY <3>1, <3>2
  <2>6. KeptAt(list, n, t, more)
    <3> HIDE DEF t, more
    <3>1. QED
      BY <2>2, <2>3, <2>4, <2>5 DEF KeptAt
  <2>7. IsKept(list, n, t)
    <3>1. t \in Seq(WaitEntry)
      BY <2>1
    <3> HIDE DEF t, more
    <3>2. QED
      BY <2>6, <3>1 DEF IsKept
  <2>8. QED
    BY <2>7, <1>4
<1>5. QED
  BY <1>3, <1>4

\* Cleanup keeps just the entries that are not late, in their order.
LEMMA CleanupKeeps ==
  ASSUME NEW list \in Seq(WaitEntry)
  PROVE  IsKept(list, Len(list), Cleanup(list))
<1>1. PICK kept : kept = CHOOSE k : Keeps(list, Len(list), k)
  OBVIOUS
<1>2. Keeps(list, Len(list), kept)
  <2>1. \E k : Keeps(list, Len(list), k)
    BY KeptExists
  <2>2. QED
    BY <1>1, <2>1
<1>3. Cleanup(list) = kept[Len(list)]
  BY <1>1 DEF Cleanup, Keeps
<1>4. \A i \in 0..Len(list) : kept[i] =
        IF i = 0 THEN <<>>
        ELSE IF list[i].late THEN kept[i - 1] ELSE Append(kept[i - 1], list[i])
  BY <1>2 DEF Keeps
<1> DEFINE T == {m \in 0..Len(list) : ~IsKept(list, m, kept[m])}
<1>5. T = {}
  <2>1. SUFFICES ASSUME T # {} PROVE FALSE
    OBVIOUS
  <2>2. PICK m \in T : \A k \in T : m <= k
    <3>1. T \in SUBSET Nat
      OBVIOUS
    <3>2. QED
      BY ONLY <2>1, <3>1, Least
  <2>3. m \in 0..Len(list) /\ ~IsKept(list, m, kept[m])
    OBVIOUS
  <2>4. m # 0
    <3>1. kept[0] = <<>>
      BY <1>4
    <3>2. IsKept(list, 0, <<>>)
      <4>1. Len(<<>>) = 0 /\ 1..0 = {} /\ <<>> \in Seq(WaitEntry)
        OBVIOUS
      <4>2. [i \in 1..0 |-> 0] \in [1..0 -> 1..0]
        BY <4>1
      <4>3. KeptAt(list, 0, <<>>, [i \in 1..0 |-> 0])
        BY <4>1, <4>2 DEF KeptAt
      <4>4. QED
        BY <4>1, <4>3 DEF IsKept
    <3>3. QED
      BY <3>1, <3>2, <2>3
  <2>5. m - 1 \in 0..Len(list) /\ m \in 1..Len(list) /\ m - 1 \notin T
    BY <2>2, <2>3, <2>4
  <2>6. IsKept(list, m - 1, kept[m - 1])
    BY <2>5
  <2>7. IsKept(list, m, IF list[m].late THEN kept[m - 1] ELSE Append(kept[m - 1], list[m]))
    BY <2>5, <2>6, KeptGrows
  <2>8. QED
    BY <2>3, <2>4, <2>7, <1>4
<1>6. QED
  BY <1>3, <1>5


\* The order of the list, as PremiumFirst states it.
InOrder(list) ==
  /\ \A i, j \in DOMAIN list :
       i < j /\ list[j].name \in Premium => list[i].name \in Premium
  /\ \A i, j \in DOMAIN list :
       Named(list[i], list[j].name, list[j].ip) => i = j

\* The entries of s are some of those of list in the same order, if perhaps late.
FromAt(s, list, at) ==
  /\ at \in [1..Len(s) -> 1..Len(list)]
  /\ \A i, j \in 1..Len(s) : i < j => at[i] < at[j]
  /\ \A i \in 1..Len(s) : s[i].name = list[at[i]].name /\ s[i].ip = list[at[i]].ip

From(s, list) == \E at : FromAt(s, list, at)

\* Such a list is in order, too, and nobody overtakes another in it.
LEMMA FromKeepsOrder ==
  ASSUME NEW list \in Seq(WaitEntry), NEW s \in Seq(WaitEntry), From(s, list),
         InOrder(list)
  PROVE  /\ InOrder(s)
         /\ \A v, w : Before(list, v, w) => ~Before(s, w, v)
<1>1. PICK at : FromAt(s, list, at)
  BY DEF From
<1>2. DOMAIN s = 1..Len(s) /\ DOMAIN list = 1..Len(list) /\ Len(s) \in Nat
      /\ Len(list) \in Nat
  OBVIOUS
<1>3. \A i \in 1..Len(s) : at[i] \in 1..Len(list)
  BY <1>1 DEF FromAt
<1>4. ASSUME NEW i \in DOMAIN s, NEW j \in DOMAIN s, i < j, s[j].name \in Premium
      PROVE  s[i].name \in Premium
  <2>1. at[i] < at[j] /\ list[at[j]].name \in Premium /\ s[i].name = list[at[i]].name
    BY <1>1, <1>2, <1>4 DEF FromAt
  <2>2. QED
    BY <1>2, <1>3, <2>1 DEF InOrder
<1>5. ASSUME NEW i \in DOMAIN s, NEW j \in DOMAIN s, Named(s[i], s[j].name, s[j].ip)
      PROVE  i = j
  <2>1. Named(list[at[i]], list[at[j]].name, list[at[j]].ip)
    BY <1>1, <1>2, <1>5 DEF FromAt, Named
  <2>2. at[i] = at[j]
    BY <1>2, <1>3, <2>1 DEF InOrder
  <2>3. ~(at[i] < at[j]) /\ ~(at[j] < at[i])
    BY <1>2, <1>3, <2>2
  <2>4. ~(i < j) /\ ~(j < i)
    BY <1>1, <1>2, <2>3 DEF FromAt
  <2>5. QED
    BY <1>2, <2>4
<1>6. ASSUME NEW v, NEW w, Before(list, v, w), Before(s, w, v)
      PROVE  FALSE
  <2>1. PICK a \in DOMAIN list, b \in DOMAIN list :
          a < b /\ Named(list[a], v.name, v.ip) /\ Named(list[b], w.name, w.ip)
    BY <1>6 DEF Before
  <2>2. PICK i \in DOMAIN s, j \in DOMAIN s :
          i < j /\ Named(s[i], w.name, w.ip) /\ Named(s[j], v.name, v.ip)
    BY <1>6 DEF Before
  <2>3. at[i] < at[j] /\ at[i] \in DOMAIN list /\ at[j] \in DOMAIN list
    BY <1>1, <1>2, <2>2 DEF FromAt
  <2>4. Named(list[at[i]], list[b].name, list[b].ip)
        /\ Named(list[at[j]], list[a].name, list[a].ip)
    BY <1>1, <1>2, <2>1, <2>2 DEF FromAt, Named
  <2>5. at[i] = b /\ at[j] = a
    BY <2>1, <2>3, <2>4 DEF InOrder
  <2>6. QED
    BY <1>2, <2>1, <2>3, <2>5
<1>7. InOrder(s)
  BY <1>4, <1>5 DEF InOrder
<1>8. QED
  BY <1>6, <1>7

\* Two changes of the list in a row.
LEMMA FromIsTransitive ==
  ASSUME NEW list \in Seq(WaitEntry), NEW s \in Seq(WaitEntry),
         NEW t \in Seq(WaitEntry), From(t, s), From(s, list)
  PROVE  From(t, list)
<1>1. PICK at : FromAt(s, list, at)
  BY DEF From
<1>2. PICK an : FromAt(t, s, an)
  BY DEF From
<1> DEFINE both == [i \in 1..Len(t) |-> at[an[i]]]
<1>3. Len(s) \in Nat /\ Len(t) \in Nat /\ Len(list) \in Nat
  OBVIOUS
<1>4. \A i \in 1..Len(t) : an[i] \in 1..Len(s) /\ both[i] = at[an[i]]
  BY <1>2 DEF FromAt
<1>5. both \in [1..Len(t) -> 1..Len(list)]
  BY <1>1, <1>4 DEF FromAt
<1>6. \A i, j \in 1..Len(t) : i < j => both[i] < both[j]
  BY <1>1, <1>2, <1>4 DEF FromAt
<1>7. \A i \in 1..Len(t) : t[i].name = list[both[i]].name /\ t[i].ip = list[both[i]].ip
  BY <1>1, <1>2, <1>4 DEF FromAt
<1>8. FromAt(t, list, both)
  <2> HIDE DEF both
  <2>1. QED
    BY <1>5, <1>6, <1>7 DEF FromAt
<1>9. QED
  BY <1>8 DEF From

\* Cleanup only takes entries off.
LEMMA CleanedIsFrom ==
  ASSUME NEW list \in Seq(WaitEntry)
  PROVE  /\ Cleanup(list) \in Seq(WaitEntry) /\ From(Cleanup(list), list)
         /\ \A k \in 1..Len(list) : ~list[k].late =>
              \E i \in 1..Len(Cleanup(list)) : Cleanup(list)[i] = list[k]
<1>1. IsKept(list, Len(list), Cleanup(list))
  BY CleanupKeeps
<1>2. PICK at : KeptAt(list, Len(list), Cleanup(list), at)
  BY <1>1 DEF IsKept
<1>3. FromAt(Cleanup(list), list, at)
  BY <1>2 DEF KeptAt, FromAt
<1>4. \A k \in 1..Len(list) : ~list[k].late =>
        \E i \in 1..Len(Cleanup(list)) : Cleanup(list)[i] = list[k]
  BY <1>2 DEF KeptAt
<1>5. QED
  BY <1>1, <1>3, <1>4 DEF IsKept, From

\* Two lists end to end.
IsJoined(s, l, r) ==
  /\ Len(s) = Len(l) + Len(r)
  /\ \A i \in 1..Len(l)+Len(r) : s[i] = IF i <= Len(l) THEN l[i] ELSE r[i - Len(l)]

\* Two lists end to end.
LEMMA Joined ==
  ASSUME NEW S, NEW l \in Seq(S), NEW r \in Seq(S)
  PROVE  l \o r \in Seq(S) /\ IsJoined(l \o r, l, r)
BY DEF IsJoined

\* One entry is taken off the list.
LEMMA RemovedAt ==
  ASSUME NEW list \in Seq(WaitEntry), NEW k \in 1..Len(list)
  PROVE  RemoveAt(list, k) \in Seq(WaitEntry) /\ From(RemoveAt(list, k), list)
<1> DEFINE l == SubSeq(list, 1, k - 1)
           r == SubSeq(list, k + 1, Len(list))
           at == [i \in 1..Len(list)-1 |-> IF i < k THEN i ELSE i + 1]
<1>1. k \in Nat /\ Len(list) \in Nat /\ 1 <= k /\ k <= Len(list)
  OBVIOUS
<1>2. l \in Seq(WaitEntry) /\ Len(l) = k - 1 /\ \A i \in 1..k-1 : l[i] = list[i]
  BY <1>1
<1>3. r \in Seq(WaitEntry) /\ Len(r) = Len(list) - k
      /\ \A i \in 1..Len(list)-k : r[i] = list[i + k]
  BY <1>1
<1>4. RemoveAt(list, k) = l \o r
  BY DEF RemoveAt
<1> HIDE DEF l, r
<1>5. /\ l \o r \in Seq(WaitEntry) /\ Len(l \o r) = Len(l) + Len(r)
      /\ \A i \in 1..Len(l)+Len(r) :
           (l \o r)[i] = IF i <= Len(l) THEN l[i] ELSE r[i - Len(l)]
  <2>1. l \in Seq(WaitEntry) /\ r \in Seq(WaitEntry)
    BY <1>2, <1>3
  <2>2. l \o r \in Seq(WaitEntry) /\ IsJoined(l \o r, l, r)
    BY ONLY <2>1, Joined
  <2>3. QED
    BY ONLY <2>2 DEF IsJoined
<1> DEFINE s == l \o r
<1> HIDE DEF s
<1>6. /\ s \in Seq(WaitEntry) /\ Len(s) = Len(list) - 1
      /\ \A i \in 1..Len(list)-1 : s[i] = list[at[i]]
  <2>1. Len(s) = Len(list) - 1 /\ s \in Seq(WaitEntry)
    BY <1>1, <1>2, <1>3, <1>5 DEF s
  <2>2. ASSUME NEW i \in 1..Len(list)-1 PROVE s[i] = list[at[i]]
    <3>1. s[i] = IF i < k THEN l[i] ELSE r[i - (k - 1)]
      BY <1>1, <1>2, <1>3, <1>5 DEF s
    <3>2. i >= k => i - (k - 1) \in 1..Len(list)-k /\ r[i - (k - 1)] = list[i + 1]
      <4>1. i >= k => i - (k - 1) \in 1..Len(list)-k /\ (i - (k - 1)) + k = i + 1
        BY <1>1
      <4>2. QED
        BY <1>3, <4>1
    <3>3. i < k => l[i] = list[i]
      BY <1>1, <1>2
    <3>4. QED
      BY <3>1, <3>2, <3>3, <1>1
  <2>3. QED
    BY <2>1, <2>2
<1>7. /\ at \in [1..Len(list)-1 -> 1..Len(list)]
      /\ \A i, j \in 1..Len(list)-1 : i < j => at[i] < at[j]
  <2>1. at \in [1..Len(list)-1 -> 1..Len(list)]
    BY <1>1
  <2>2. ASSUME NEW i \in 1..Len(list)-1, NEW j \in 1..Len(list)-1, i < j
        PROVE  at[i] < at[j]
    BY <1>1, <2>2
  <2>3. QED
    BY <2>1, <2>2
<1>8. FromAt(s, list, at)
  <2> HIDE DEF at
  <2>1. QED
    BY <1>6, <1>7 DEF FromAt
<1>9. QED
  BY <1>4, <1>6, <1>8 DEF From, s

\* An entry that is only marked late.
LEMMA LaterIsFrom ==
  ASSUME NEW list \in Seq(WaitEntry), NEW k \in 1..Len(list)
  PROVE  /\ [list EXCEPT ![k].late = TRUE] \in Seq(WaitEntry)
         /\ From([list EXCEPT ![k].late = TRUE], list)
<1> DEFINE s == [list EXCEPT ![k].late = TRUE]
           e == [list[k] EXCEPT !.late = TRUE]
           same == [i \in 1..Len(list) |-> i]
<1>1. list[k] \in WaitEntry /\ Len(list) \in Nat
  OBVIOUS
<1>2. e \in WaitEntry /\ e.name = list[k].name /\ e.ip = list[k].ip
  BY <1>1 DEF WaitEntry
<1>3. s = [list EXCEPT ![k] = e]
  OBVIOUS
<1> HIDE DEF e, s
<1>4. /\ s \in Seq(WaitEntry) /\ Len(s) = Len(list)
      /\ \A i \in 1..Len(list) : s[i] = IF i = k THEN e ELSE list[i]
  BY <1>2, <1>3
<1>5. same \in [1..Len(list) -> 1..Len(list)]
      /\ \A i \in 1..Len(list) : same[i] = i
  OBVIOUS
<1> HIDE DEF same
<1>6. FromAt(s, list, same)
  BY <1>1, <1>2, <1>4, <1>5 DEF FromAt
<1>7. s \in Seq(WaitEntry) /\ From(s, list)
  BY <1>4, <1>6 DEF From
<1>8. QED
  BY <1>7 DEF s

\* A list that stays as it is.
LEMMA SameIsFrom ==
  ASSUME NEW list \in Seq(WaitEntry)
  PROVE  From(list, list)
<1> DEFINE same == [i \in 1..Len(list) |-> i]
<1>1. same \in [1..Len(list) -> 1..Len(list)] /\ \A i \in 1..Len(list) : same[i] = i
  OBVIOUS
<1> HIDE DEF same
<1>2. FromAt(list, list, same)
  BY <1>1 DEF FromAt
<1>3. QED
  BY <1>2 DEF From

\* The places slot and the place of a newcomer.
LEMMA SlotIsHers ==
  ASSUME NEW list \in Seq(WaitEntry), NEW p, NEW ip
  PROVE  /\ Slot(list, p, ip) \in 0..Len(list)
         /\ Slot(list, p, ip) # 0 => Named(list[Slot(list, p, ip)], p, ip)
         /\ Slot(list, p, ip) = 0 => \A i \in 1..Len(list) : ~Named(list[i], p, ip)
<1> DEFINE I == {i \in 1..Len(list) : Named(list[i], p, ip)}
<1>1. Slot(list, p, ip) = IF I # {} THEN Min(I) ELSE 0
  BY DEF Slot, SelectInSeq
<1>2. CASE I = {}
  BY <1>1, <1>2
<1>3. CASE I # {}
  <2>1. \E n \in I : \A m \in I : n <= m
    <3>1. I \in SUBSET Nat
      OBVIOUS
    <3>2. QED
      BY ONLY <1>3, <3>1, Least
  <2>2. Min(I) \in I
    <3> HIDE DEF I
    <3>1. QED
      BY <2>1 DEF Min
  <2>3. QED
    BY <1>1, <1>3, <2>2
<1>4. QED
  BY <1>2, <1>3

\* Newcomers come last, premium players before all who are not.
LEMMA PlaceIsFair ==
  ASSUME NEW list \in Seq(WaitEntry), NEW p
  PROVE  /\ Place(list, p) \in 1..Len(list)+1
         /\ p \notin Premium => Place(list, p) = Len(list) + 1
         /\ p \in Premium =>
              /\ \A i \in 1..Place(list, p)-1 : list[i].name \in Premium
              /\ Place(list, p) <= Len(list) => list[Place(list, p)].name \notin Premium
<1> DEFINE I == {i \in 1..Len(list) : list[i].name \notin Premium}
           normal == IF I # {} THEN Min(I) ELSE 0
<1>1. Place(list, p) = IF p \in Premium /\ normal # 0 THEN normal ELSE Len(list) + 1
  BY DEF Place, SelectInSeq
<1>2. CASE I = {}
  <2>1. Place(list, p) = Len(list) + 1
    BY <1>1, <1>2
  <2>2. Len(list) \in Nat /\ \A i \in 1..Len(list) : list[i].name \in Premium
    BY <1>2
  <2>3. QED
    BY <2>1, <2>2
<1>3. CASE I # {}
  <2>1. \E n \in I : \A m \in I : n <= m
    <3>1. I \in SUBSET Nat
      OBVIOUS
    <3>2. QED
      BY ONLY <1>3, <3>1, Least
  <2>2. Min(I) \in I /\ \A m \in I : Min(I) <= m
    <3> HIDE DEF I
    <3>1. QED
      BY <2>1 DEF Min
  <2>3. normal = Min(I) /\ normal \in 1..Len(list) /\ list[normal].name \notin Premium
        /\ \A i \in 1..Len(list) : list[i].name \notin Premium => normal <= i
    BY <1>3, <2>2
  <2> HIDE DEF normal, I
  <2>4. Place(list, p) = IF p \in Premium THEN normal ELSE Len(list) + 1
    BY <1>1, <2>3
  <2>5. Len(list) \in Nat
    OBVIOUS
  <2>6. \A i \in 1..normal-1 : list[i].name \in Premium
    BY <2>3, <2>5
  <2>7. QED
    BY <2>3, <2>4, <2>5, <2>6
<1>4. QED
  BY <1>2, <1>3

\* A newcomer e takes the place k of list: everyone else keeps hers.
IsInserted(s, list, k, e) ==
  /\ s \in Seq(WaitEntry) /\ Len(s) = Len(list) + 1
  /\ \A i \in 1..Len(list)+1 :
       s[i] = IF i < k THEN list[i] ELSE IF i = k THEN e ELSE list[i - 1]

\* One entry is put into the list.
LEMMA InsertedAt ==
  ASSUME NEW list \in Seq(WaitEntry), NEW k \in 1..Len(list)+1, NEW e \in WaitEntry
  PROVE  IsInserted(InsertAt(list, k, e), list, k, e)
<1> DEFINE l == SubSeq(list, 1, k - 1)
           r == SubSeq(list, k, Len(list))
<1>1. k \in Nat /\ Len(list) \in Nat /\ 1 <= k /\ k <= Len(list) + 1
  OBVIOUS
<1>2. l \in Seq(WaitEntry) /\ Len(l) = k - 1 /\ \A i \in 1..k-1 : l[i] = list[i]
  BY <1>1
<1>3. r \in Seq(WaitEntry) /\ Len(r) = Len(list) - k + 1
      /\ \A i \in 1..Len(list)-k+1 : r[i] = list[i + k - 1]
  BY <1>1
<1>4. InsertAt(list, k, e) = l \o <<e>> \o r
  BY DEF InsertAt
<1> HIDE DEF l, r
<1> DEFINE h == l \o <<e>>
           s == h \o r
<1>5. /\ h \in Seq(WaitEntry) /\ Len(h) = k
      /\ \A i \in 1..k : h[i] = IF i <= k - 1 THEN l[i] ELSE <<e>>[i - (k - 1)]
  <2>1. <<e>> \in Seq(WaitEntry) /\ Len(<<e>>) = 1
    OBVIOUS
  <2>2. /\ h \in Seq(WaitEntry) /\ Len(h) = Len(l) + 1
        /\ \A i \in 1..Len(l)+1 : h[i] = IF i <= Len(l) THEN l[i] ELSE <<e>>[i - Len(l)]
    <3>1. h \in Seq(WaitEntry) /\ IsJoined(h, l, <<e>>)
      BY <1>2, <2>1, Joined
    <3> HIDE DEF h
    <3>2. QED
      BY <2>1, <3>1 DEF IsJoined
  <2> HIDE DEF h
  <2>3. QED
    BY <1>1, <1>2, <2>2
<1>6. \A i \in 1..k : h[i] = IF i < k THEN list[i] ELSE e
  <2> HIDE DEF h
  <2>1. ASSUME NEW i \in 1..k PROVE h[i] = IF i < k THEN list[i] ELSE e
    <3>1. CASE i < k
      BY <1>1, <1>2, <1>5, <3>1
    <3>2. CASE i = k
      <4>1. i - (k - 1) = 1 /\ <<e>>[1] = e /\ ~(i <= k - 1)
        BY <1>1, <3>2
      <4>2. QED
        BY <1>1, <1>5, <3>2, <4>1
    <3>3. QED
      BY <1>1, <3>1, <3>2
  <2>2. QED
    BY <2>1
<1> HIDE DEF h
<1>7. /\ s \in Seq(WaitEntry) /\ Len(s) = Len(h) + Len(r)
      /\ \A i \in 1..Len(h)+Len(r) : s[i] = IF i <= Len(h) THEN h[i] ELSE r[i - Len(h)]
  <2>1. s \in Seq(WaitEntry) /\ IsJoined(s, h, r)
    BY <1>3, <1>5, Joined
  <2> HIDE DEF s
  <2>2. QED
    BY <2>1 DEF IsJoined
<1> HIDE DEF s
<1>8. Len(s) = Len(list) + 1
  BY <1>1, <1>3, <1>5, <1>7
<1>9. ASSUME NEW i \in 1..Len(list)+1
      PROVE  s[i] = IF i < k THEN list[i] ELSE IF i = k THEN e ELSE list[i - 1]
  <2>1. s[i] = IF i <= k THEN h[i] ELSE r[i - k]
    BY <1>1, <1>3, <1>5, <1>7
  <2>2. CASE i <= k
    BY <1>1, <1>6, <2>1, <2>2
  <2>3. CASE ~(i <= k)
    <3>1. i - k \in 1..Len(list)-k+1 /\ (i - k) + k - 1 = i - 1
      BY <1>1, <2>3
    <3>2. r[i - k] = list[i - 1]
      BY <1>3, <3>1
    <3>3. QED
      BY <2>1, <2>3, <3>2, <1>1
  <2>4. QED
    BY <2>2, <2>3
<1>10. IsInserted(s, list, k, e)
  BY <1>7, <1>8, <1>9 DEF IsInserted
<1>11. QED
  BY <1>4, <1>10 DEF h, s


\* A newcomer leaves the list in order.
LEMMA EnqueuedInOrder ==
  ASSUME NEW list \in Seq(WaitEntry), InOrder(list), NEW p \in Player,
         NEW ip \in Machine, \A i \in 1..Len(list) : ~Named(list[i], p, ip)
  PROVE  Enqueue(list, p, ip) \in Seq(WaitEntry) /\ InOrder(Enqueue(list, p, ip))
<1> DEFINE k == Place(list, p)
           e == Waiter(p, ip)
           s == Enqueue(list, p, ip)
<1>1. /\ k \in 1..Len(list)+1
      /\ p \notin Premium => k = Len(list) + 1
      /\ p \in Premium => /\ \A i \in 1..k-1 : list[i].name \in Premium
                          /\ k <= Len(list) => list[k].name \notin Premium
  BY PlaceIsFair
<1>2. e \in WaitEntry /\ e.name = p /\ e.ip = ip
  BY DEF Waiter, WaitEntry
<1>3. s = InsertAt(list, k, e)
  BY DEF Enqueue
<1> HIDE DEF k, e, s
<1>4. /\ s \in Seq(WaitEntry) /\ Len(s) = Len(list) + 1
      /\ \A i \in 1..Len(list)+1 :
           s[i] = IF i < k THEN list[i] ELSE IF i = k THEN e ELSE list[i - 1]
  <2>1. k \in 1..Len(list)+1 /\ e \in WaitEntry
    BY <1>1, <1>2
  <2>2. IsInserted(InsertAt(list, k, e), list, k, e)
    BY ONLY list \in Seq(WaitEntry), <2>1, InsertedAt
  <2>3. IsInserted(s, list, k, e)
    BY ONLY <1>3, <2>2
  <2>4. QED
    BY ONLY <2>3 DEF IsInserted
<1>5. /\ DOMAIN s = 1..Len(list)+1 /\ DOMAIN list = 1..Len(list)
      /\ Len(list) \in Nat /\ k \in Nat /\ 1 <= k /\ k <= Len(list) + 1
  BY <1>1, <1>4
<1>6. ASSUME NEW i \in DOMAIN s, NEW j \in DOMAIN s, i < j, s[j].name \in Premium
      PROVE  s[i].name \in Premium
  <2>1. CASE j < k
    <3>1. s[i] = list[i] /\ s[j] = list[j] /\ i \in DOMAIN list /\ j \in DOMAIN list
      BY <2>1, <1>4, <1>5, <1>6
    <3>2. QED
      BY <3>1, <1>6 DEF InOrder
  <2>2. CASE j = k
    <3>1. s[j] = e /\ s[i] = list[i] /\ i \in 1..k-1
      BY <2>2, <1>4, <1>5, <1>6
    <3>2. QED
      BY <3>1, <1>1, <1>2, <1>6
  <2>3. CASE j > k /\ p \in Premium
    <3>1. s[j] = list[j - 1] /\ j - 1 \in DOMAIN list /\ k \in DOMAIN list /\ k <= j - 1
      BY <2>3, <1>4, <1>5
    <3>2. list[k].name \notin Premium
      BY <2>3, <3>1, <1>1, <1>5
    <3>3. k = j - 1 \/ k < j - 1
      BY <3>1, <1>5
    <3>4. list[j - 1].name \notin Premium
      BY <3>1, <3>2, <3>3 DEF InOrder
    <3>5. QED
      BY <3>1, <3>4, <1>6
  <2>4. CASE j > k /\ p \notin Premium
    BY <2>4, <1>1, <1>5
  <2>5. QED
    BY <2>1, <2>2, <2>3, <2>4, <1>5
<1>7. ASSUME NEW i \in DOMAIN s, NEW j \in DOMAIN s, i < j
      PROVE  ~Named(s[i], s[j].name, s[j].ip)
  <2>1. \A m \in DOMAIN list : ~Named(e, list[m].name, list[m].ip)
    BY <1>2, <1>5 DEF Named
  <2>2. \A m \in DOMAIN list : ~Named(list[m], e.name, e.ip)
    BY <1>2, <1>5
  <2>3. \A m, n \in DOMAIN list : m < n => ~Named(list[m], list[n].name, list[n].ip)
    <3>1. \A m, n \in DOMAIN list : m < n => m # n
      BY <1>5
    <3>2. QED
      BY <3>1 DEF InOrder
  <2>4. CASE j < k
    <3>1. s[i] = list[i] /\ s[j] = list[j] /\ i \in DOMAIN list /\ j \in DOMAIN list
      BY <2>4, <1>4, <1>5, <1>7
    <3>2. QED
      BY <3>1, <2>3, <1>7
  <2>5. CASE j = k
    <3>1. s[i] = list[i] /\ s[j] = e /\ i \in DOMAIN list
      BY <2>5, <1>4, <1>5, <1>7
    <3>2. QED
      BY <3>1, <2>2
  <2>6. CASE j > k
    <3>1. s[j] = list[j - 1] /\ j - 1 \in DOMAIN list
      BY <2>6, <1>4, <1>5
    <3>2. CASE i < k
      <4>1. s[i] = list[i] /\ i \in DOMAIN list /\ i < j - 1
        BY <3>2, <2>6, <1>4, <1>5
      <4>2. QED
        BY <3>1, <4>1, <2>3
    <3>3. CASE i = k
      <4>1. s[i] = e
        BY <3>3, <1>4, <1>5
      <4>2. QED
        BY <3>1, <4>1, <2>1
    <3>4. CASE i > k
      <4>1. s[i] = list[i - 1] /\ i - 1 \in DOMAIN list /\ i - 1 < j - 1
        BY <3>4, <1>4, <1>5, <1>7
      <4>2. QED
        BY <3>1, <4>1, <2>3
    <3>5. QED
      BY <3>2, <3>3, <3>4, <1>5
  <2>7. QED
    BY <2>4, <2>5, <2>6, <1>5
<1>8. ASSUME NEW i \in DOMAIN s, NEW j \in DOMAIN s, Named(s[i], s[j].name, s[j].ip)
      PROVE  i = j
  <2>1. Named(s[j], s[i].name, s[i].ip)
    BY <1>8 DEF Named
  <2>2. ~(i < j) /\ ~(j < i)
    BY <1>7, <1>8, <2>1
  <2>3. QED
    BY <1>5, <2>2
<1>9. InOrder(s)
  BY <1>6, <1>8 DEF InOrder
<1>10. QED
  BY <1>4, <1>9 DEF s

\* What a step may make of the list: it stays in order, and nobody who came back
\* in time is overtaken.
Passes(list, new) ==
  /\ new \in Seq(WaitEntry) /\ InOrder(new)
  /\ \A v, w \in Range(list) :
       Before(list, v, w) /\ ~v.late => ~Before(new, w, v)

\* A list that only lost entries.
LEMMA FromPasses ==
  ASSUME NEW list \in Seq(WaitEntry), InOrder(list), NEW s \in Seq(WaitEntry),
         From(s, list)
  PROVE  Passes(list, s)
BY FromKeepsOrder DEF Passes

\* All who wait keep their order when somebody comes.
LEMMA EnqueuePasses ==
  ASSUME NEW list \in Seq(WaitEntry), InOrder(list), NEW p \in Player,
         NEW ip \in Machine, Slot(Cleanup(list), p, ip) = 0
  PROVE  Passes(list, Enqueue(Cleanup(list), p, ip))
<1> DEFINE c == Cleanup(list)
           s == Enqueue(c, p, ip)
           k == Place(c, p)
           e == Waiter(p, ip)
<1>1. /\ c \in Seq(WaitEntry) /\ From(c, list)
      /\ \A n \in 1..Len(list) : ~list[n].late => \E i \in 1..Len(c) : c[i] = list[n]
  BY CleanedIsFrom
<1>2. Slot(c, p, ip) = 0
  OBVIOUS
<1>3. s = InsertAt(c, k, e)
  BY DEF Enqueue
<1>4. e \in WaitEntry /\ e.name = p /\ e.ip = ip
  BY DEF Waiter, WaitEntry
<1> HIDE DEF c
<1>5. \A i \in 1..Len(c) : ~Named(c[i], p, ip)
  BY <1>1, <1>2, SlotIsHers
<1>6. InOrder(c) /\ \A v, w : Before(list, v, w) => ~Before(c, w, v)
  BY <1>1, FromKeepsOrder
<1>7. s \in Seq(WaitEntry) /\ InOrder(s)
  BY <1>1, <1>5, <1>6, EnqueuedInOrder
<1>8. /\ k \in 1..Len(c)+1
      /\ p \notin Premium => k = Len(c) + 1
      /\ p \in Premium => (k <= Len(c) => c[k].name \notin Premium)
  BY <1>1, PlaceIsFair
<1> HIDE DEF k, e, s
<1>9. /\ Len(s) = Len(c) + 1
      /\ \A i \in 1..Len(c)+1 :
           s[i] = IF i < k THEN c[i] ELSE IF i = k THEN e ELSE c[i - 1]
  <2>1. c \in Seq(WaitEntry) /\ k \in 1..Len(c)+1 /\ e \in WaitEntry
    BY <1>1, <1>4, <1>8
  <2>2. IsInserted(InsertAt(c, k, e), c, k, e)
    BY ONLY <2>1, InsertedAt
  <2>3. IsInserted(s, c, k, e)
    BY ONLY <1>3, <2>2
  <2>4. QED
    BY ONLY <2>3 DEF IsInserted
<1>10. /\ DOMAIN s = 1..Len(c)+1 /\ DOMAIN c = 1..Len(c) /\ DOMAIN list = 1..Len(list)
       /\ Len(c) \in Nat /\ Len(list) \in Nat /\ k \in Nat /\ 1 <= k /\ k <= Len(c) + 1
  BY <1>1, <1>7, <1>8, <1>9
<1>11. ASSUME NEW v \in Range(list), NEW w \in Range(list), Before(list, v, w), ~v.late,
              Before(s, w, v)
       PROVE  FALSE
  <2>1. PICK i \in DOMAIN s, j \in DOMAIN s :
          i < j /\ Named(s[i], w.name, w.ip) /\ Named(s[j], v.name, v.ip)
    BY <1>11 DEF Before
  <2>2. PICK a \in DOMAIN list, b \in DOMAIN list :
          a < b /\ Named(list[a], v.name, v.ip) /\ Named(list[b], w.name, w.ip)
    BY <1>11 DEF Before
  <2>3. j # k
    <3>1. SUFFICES ASSUME j = k PROVE FALSE
      OBVIOUS
    <3>2. PICK n \in 1..Len(list) : list[n] = v
      BY <1>10 DEF Range
    <3>3. PICK m \in 1..Len(c) : c[m] = v
      BY <3>2, <1>1, <1>11
    <3>4. s[j] = e
      BY <3>1, <1>9, <1>10
    <3>5. Named(c[m], p, ip)
      BY <3>3, <3>4, <2>1, <1>4 DEF Named
    <3>6. QED
      BY <3>3, <3>5, <1>5
  <2>4. i # k
    <3>1. SUFFICES ASSUME i = k PROVE FALSE
      OBVIOUS
    <3>2. j > k /\ s[j] = c[j - 1] /\ j - 1 \in DOMAIN c /\ k \in DOMAIN c /\ k <= j - 1
      BY <3>1, <2>1, <1>9, <1>10
    <3>3. p \in Premium /\ c[k].name \notin Premium
      BY <3>2, <1>8, <1>10
    <3>4. k = j - 1 \/ k < j - 1
      BY <3>2, <1>10
    <3>5. c[j - 1].name \notin Premium
      BY <3>2, <3>3, <3>4, <1>6 DEF InOrder
    <3>6. v.name \notin Premium
      BY <3>2, <3>5, <2>1 DEF Named
    <3>7. w.name = p
      BY <3>1, <2>1, <1>4, <1>9, <1>10 DEF Named
    <3>8. list[b].name \in Premium /\ list[a].name \notin Premium
      BY <3>3, <3>6, <3>7, <2>2 DEF Named
    <3>9. QED
      BY <3>8, <2>2 DEF InOrder
  <2>5. Before(c, w, v)
    <3>1. CASE j < k
      <4>1. s[i] = c[i] /\ s[j] = c[j] /\ i \in DOMAIN c /\ j \in DOMAIN c
        BY <3>1, <2>1, <1>9, <1>10
      <4>2. QED
        BY <4>1, <2>1 DEF Before
    <3>2. CASE i < k /\ j > k
      <4>1. s[i] = c[i] /\ s[j] = c[j - 1] /\ i \in DOMAIN c /\ j - 1 \in DOMAIN c
            /\ i < j - 1
        BY <3>2, <1>9, <1>10
      <4>2. QED
        BY <4>1, <2>1 DEF Before
    <3>3. CASE i > k
      <4>1. s[i] = c[i - 1] /\ s[j] = c[j - 1] /\ i - 1 \in DOMAIN c
            /\ j - 1 \in DOMAIN c /\ i - 1 < j - 1
        BY <3>3, <2>1, <1>9, <1>10
      <4>2. QED
        BY <4>1, <2>1 DEF Before
    <3>4. QED
      BY <3>1, <3>2, <3>3, <2>1, <2>3, <2>4, <1>10
  <2>6. QED
    BY <2>5, <1>6, <1>11
<1>12. QED
  BY <1>7, <1>11 DEF Passes, c, s

-----------------------------------------------------------------------------
(* Waiting.                                                                *)

\* Only finitely many players can have come in.
WaitInv == waitList \in Seq(WaitEntry) /\ InOrder(waitList) /\ IsFiniteSet(online)

\* A login by a place, or without one.
LEMMA AdmitsPasses ==
  ASSUME WaitInv, NEW p \in Player, NEW ip \in Machine, Admits(p, ip)
  PROVE  Passes(waitList, waitList')
<1> DEFINE c == Cleanup(waitList)
           s == Slot(c, p, ip)
<1>1. waitList \in Seq(WaitEntry) /\ InOrder(waitList)
  BY DEF WaitInv
<1>2. CASE waitList' = waitList
  <2>1. From(waitList, waitList)
    BY <1>1, SameIsFrom
  <2>2. QED
    BY <1>1, <1>2, <2>1, FromPasses
<1>3. CASE FitsIn(c, s) /\ waitList' = RemoveAt(c, s)
  <2>1. c \in Seq(WaitEntry) /\ From(c, waitList)
    BY <1>1, CleanedIsFrom
  <2> HIDE DEF c
  <2>2. s \in 1..Len(c)
    <3>1. s \in 0..Len(c) /\ s # 0
      BY <1>3, <2>1, SlotIsHers DEF FitsIn
    <3> HIDE DEF s
    <3>2. QED
      BY <3>1
  <2> HIDE DEF s
  <2>3. waitList' \in Seq(WaitEntry) /\ From(waitList', c)
    BY <1>3, <2>1, <2>2, RemovedAt
  <2>4. From(waitList', waitList)
    BY ONLY <1>1, <2>1, <2>3, FromIsTransitive
  <2>5. QED
    BY <1>1, <2>3, <2>4, FromPasses
<1>4. QED
  BY <1>2, <1>3 DEF Admits

\* A login that is told to wait.
LEMMA PutsOffPasses ==
  ASSUME WaitInv, NEW p \in Player, NEW ip \in Machine, PutsOff(p, ip)
  PROVE  Passes(waitList, waitList')
<1>1. waitList \in Seq(WaitEntry) /\ InOrder(waitList)
  BY DEF WaitInv
<1>2. CASE Slot(Cleanup(waitList), p, ip) = 0
  <2>1. waitList' = Enqueue(Cleanup(waitList), p, ip)
    BY <1>2 DEF PutsOff
  <2>2. QED
    BY <1>1, <1>2, <2>1, EnqueuePasses
<1>3. CASE Slot(Cleanup(waitList), p, ip) # 0
  <2>1. waitList' = Cleanup(waitList)
    BY <1>3 DEF PutsOff
  <2>2. waitList' \in Seq(WaitEntry) /\ From(waitList', waitList)
    BY <1>1, <2>1, CleanedIsFrom
  <2>3. QED
    BY <1>1, <2>2, FromPasses
<1>4. QED
  BY <1>2, <1>3

\* A slot that runs out.
LEMMA LimitPassesPasses ==
  ASSUME WaitInv, NEW k \in DOMAIN waitList, LimitPasses(k)
  PROVE  Passes(waitList, waitList')
<1>1. waitList \in Seq(WaitEntry) /\ InOrder(waitList)
  BY DEF WaitInv
<1>2. k \in 1..Len(waitList) /\ waitList' = [waitList EXCEPT ![k].late = TRUE]
  BY <1>1 DEF LimitPasses
<1>3. waitList' \in Seq(WaitEntry) /\ From(waitList', waitList)
  BY <1>1, <1>2, LaterIsFrom
<1>4. QED
  BY <1>1, <1>3, FromPasses

\* Every step of the session keeps the waiting list in order.
LEMMA WaitStep ==
  ASSUME WaitInv, [SessionNext]_sessionVars
  PROVE  WaitInv' /\ Passes(waitList, waitList')
<1> DEFINE Good == Passes(waitList, waitList') /\ IsFiniteSet(online')
<1> SUFFICES Good
  BY DEF Passes, WaitInv
<1>1. waitList \in Seq(WaitEntry) /\ InOrder(waitList) /\ IsFiniteSet(online)
  BY DEF WaitInv
<1>2. waitList' = waitList => Passes(waitList, waitList')
  <2>1. From(waitList, waitList)
    BY <1>1, SameIsFrom
  <2>2. QED
    BY <1>1, <2>1, FromPasses
<1>3. online' \subseteq online => IsFiniteSet(online')
  BY <1>1, FS_Subset
<1>4. ASSUME NEW p, online' = online \union {p} PROVE IsFiniteSet(online')
  BY <1>1, <1>4, FS_AddElement
<1>5. ASSUME NEW c \in Machine,
             \/ Accept(c) \/ Disconnect(c) \/ CloseConnection(c) \/ ReleaseAgain(c)
             \/ ConnectTooLate(c) \/ ConnectUnlinked(c) \/ Connect(c) \/ Logout(c)
      PROVE  Good
  <2>1. waitList' = waitList /\ online' \subseteq online
    BY <1>5 DEF Accept, Disconnect, CloseConnection, ReleaseAgain, ConnectTooLate,
       ConnectUnlinked, Connect, Logout, RemovePlayers
  <2>2. QED
    BY <2>1, <1>2, <1>3
<1>6. ASSUME NEW c \in Machine, NEW p \in Player, LoginRefused(c, p) PROVE Good
  <2>1. online' = online /\ (waitList' = waitList \/ Admits(p, c))
    BY <1>6 DEF LoginRefused
  <2>2. QED
    BY <2>1, <1>2, <1>3, AdmitsPasses
<1>7. ASSUME NEW c \in Machine, NEW p \in Player, LoginPutOff(c, p) PROVE Good
  BY <1>7, <1>3, PutsOffPasses DEF LoginPutOff
<1>8. ASSUME NEW c \in Machine, NEW p \in Player, LoginPlaced(c, p) PROVE Good
  BY <1>8, <1>4, AdmitsPasses DEF LoginPlaced
<1>9. ASSUME NEW c \in Machine, NEW p \in Player,
             LoginTakesOver(c, p) \/ LoginReturns(c, p)
      PROVE  Good
  <2>1. waitList' = waitList /\ online' \subseteq online
    BY <1>9 DEF LoginTakesOver, LoginReturns
  <2>2. QED
    BY <2>1, <1>2, <1>3
<1>10. ASSUME NEW p \in Player, Kick(p) \/ IdleLogout(p) PROVE Good
  <2>1. waitList' = waitList /\ online' \subseteq online
    BY <1>10 DEF Kick, IdleLogout, RemovePlayers
  <2>2. QED
    BY <2>1, <1>2, <1>3
<1>11. CASE WaitTooLong
  <2>1. online' \subseteq online
    BY <1>11 DEF WaitTooLong
  <2>2. PICK k \in DOMAIN waitList : LimitPasses(k)
    BY <1>11 DEF WaitTooLong
  <2>3. QED
    BY <2>1, <2>2, <1>3, LimitPassesPasses
<1>12. CASE Visits
  BY <1>5, <1>6, <1>7, <1>8, <1>9, <1>10, <1>11, <1>12 DEF Visits
<1>13. CASE SetGameState
  <2>1. waitList' = waitList /\ online' \subseteq online
    BY <1>13 DEF SetGameState, RemovePlayers
  <2>2. QED
    BY <2>1, <1>2, <1>3
<1>14. ASSUME NEW A, GameStep(A) PROVE Good
  <2>1. waitList' = waitList /\ online' \subseteq online
    BY <1>14 DEF GameStep
  <2>2. QED
    BY <2>1, <1>2, <1>3
<1>15. CASE UNCHANGED sessionVars
  BY <1>15, <1>2, <1>3 DEF sessionVars
<1>16. QED
  BY <1>12, <1>13, <1>14, <1>15 DEF SessionNext, Visit

\* Whoever is let in by her place leaves room for those who waited before her.
LEMMA PlacedInTurn ==
  ASSUME WaitInv, NEW c \in Machine, NEW p \in Player, p \notin Privileged,
         LoginPlaced(c, p)
  PROVE  Cardinality(online) + Ahead(p, c) < MaxPlayers
<1> DEFINE list == Cleanup(waitList)
           s == Slot(list, p, c)
<1>1. /\ waitList \in Seq(WaitEntry) /\ Len(waitList) \in Nat
      /\ Cardinality(online) \in Nat /\ MaxPlayers \in Nat
  BY FS_CardinalityType DEF WaitInv
<1>2. list \in Seq(WaitEntry)
  BY <1>1, CleanedIsFrom
<1>3. Ahead(p, c) = IF s = 0 THEN Len(waitList) ELSE s - 1
  BY DEF Ahead
<1>4. \/ Skips(p) \/ FitsIn(list, s)
  BY DEF LoginPlaced, Admits
<1> HIDE DEF list
<1>5. s \in 0..Len(list)
  BY <1>2, SlotIsHers
<1>6. CASE FitsIn(list, s)
  <2>1. s # 0 /\ Cardinality(online) + s <= MaxPlayers
    BY <1>6 DEF FitsIn
  <2> HIDE DEF s
  <2>2. QED
    BY <1>1, <1>2, <1>3, <1>5, <2>1
<1>7. CASE Skips(p)
  <2>1. waitList = <<>> /\ Cardinality(online) < MaxPlayers
    BY <1>7 DEF Skips
  <2>2. IsKept(waitList, Len(waitList), list)
    BY <1>1, CleanupKeeps DEF list
  <2>3. PICK at : at \in [1..Len(list) -> 1..0]
    BY <2>1, <2>2 DEF IsKept, KeptAt
  <2>4. Len(list) \in Nat
    BY <1>2
  <2>5. Len(list) = 0
    <3>1. 1 \notin 1..Len(list)
      BY <2>3
    <3>2. QED
      BY <2>4, <3>1
  <2> HIDE DEF s
  <2>6. s = 0
    BY <1>5, <2>5
  <2>7. Ahead(p, c) = 0
    BY <1>3, <2>1, <2>6
  <2>8. QED
    BY <1>1, <2>1, <2>7
<1>8. QED
  BY <1>4, <1>6, <1>7

\* Whoever waits is let in in her turn, whatever logins, refusals, time limits
\* and logouts there are: nobody is overtaken who comes back in time, premium
\* players are first, and no place is given away that another waits for.
THEOREM TurnsAreKept == SessionSpec => WaitingIsFair
<1> DEFINE Placed ==
      \A c \in Machine, p \in Player :
        p \notin Privileged /\ LoginPlaced(c, p)
          => Cardinality(online) + Ahead(p, c) < MaxPlayers
           Kept ==
      \A v, w \in Range(waitList) :
        Before(waitList, v, w) /\ ~v.late => ~Before(waitList', w, v)
<1>1. SessionInit => WaitInv
  BY FS_EmptySet DEF SessionInit, WaitInv, InOrder
<1>2. WaitInv /\ [SessionNext]_sessionVars => WaitInv'
  BY WaitStep
<1>3. WaitInv /\ [SessionNext]_sessionVars => [Placed]_sessionVars
  BY PlacedInTurn
<1>4. WaitInv /\ [SessionNext]_sessionVars => [Kept]_waitList
  BY WaitStep DEF Passes
<1>5. WaitInv => PremiumFirst
  BY DEF WaitInv, InOrder, PremiumFirst
<1> HIDE DEF Placed, Kept
<1>6. SessionSpec => [][Placed]_sessionVars /\ [][Kept]_waitList /\ []PremiumFirst
  BY <1>1, <1>2, <1>3, <1>4, <1>5, PTL DEF SessionSpec
<1>7. QED
  BY <1>6 DEF WaitingIsFair, PlacesAreKept, OrderIsKept, Placed, Kept

-----------------------------------------------------------------------------
(* Types.                                                                  *)

\* The state of the game keeps its types.
LEMMA GameTypes ==
  ASSUME GameStateTypeOK, [SessionNext]_sessionVars
  PROVE  GameStateTypeOK'
<1> USE DEF GameStateTypeOK
<1>1. CASE UNCHANGED gameVars
  BY <1>1 DEF gameVars
<1>2. CASE SetGameState
  <2>1. Head(orders) \in {"normal", "closed", "shutdown"}
        /\ Tail(orders) \in Seq({"normal", "closed", "shutdown"})
    BY <1>2 DEF SetGameState, RunOrder
  <2>2. QED
    BY <1>2, <2>1 DEF SetGameState, RunOrder, Enter
<1>3. CASE AnnounceSave
  BY <1>3 DEF AnnounceSave, Enter
<1>4. CASE GlobalSave
  <2>1. orders' \in Seq({"normal", "closed", "shutdown"})
    <3> DEFINE States == {"normal", "closed", "shutdown"}
    <3>1. <<"closed", "normal">> \in Seq(States) /\ "shutdown" \in States
      OBVIOUS
    <3>2. orders \in Seq(States)
      OBVIOUS
    <3>3. orders' \in {Append(orders, "shutdown"), orders \o <<"closed", "normal">>}
      BY <1>4 DEF GlobalSave
    <3> HIDE DEF States
    <3>4. orders \o <<"closed", "normal">> \in Seq(States)
      BY ONLY <3>1, <3>2, Joined
    <3>5. Append(orders, "shutdown") \in Seq(States)
      BY <3>1, <3>2
    <3>6. QED
      BY <3>3, <3>4, <3>5 DEF States
  <2>2. announced' \in 0..3 /\ saveIsDue' \in BOOLEAN /\ gameState' = gameState
    <3>1. CASE ShutdownAtGlobalSave
      BY <1>4, <3>1 DEF GlobalSave
    <3>2. CASE ~ShutdownAtGlobalSave
      BY <1>4, <3>2 DEF GlobalSave
    <3>3. QED
      BY <3>1, <3>2
  <2>3. QED
    BY <2>1, <2>2
<1>5. ASSUME NEW s \in {"normal", "closed", "shutdown"}, OrderState(s)
      PROVE  GameStateTypeOK'
  BY <1>5 DEF OrderState
<1>6. QED
  BY <1>1, <1>2, <1>3, <1>4, <1>5 DEF SessionNext, Visit, GameStep, sessionVars, gameVars

\* The state of every session is of its type.
THEOREM SessionTypes == SessionSpec => []SessionTypeOK
<1> DEFINE Types == ClientInv /\ WaitInv /\ GameStateTypeOK
<1>1. SessionInit => Types
  <2> SUFFICES ASSUME SessionInit PROVE Types
    OBVIOUS
  <2>1. ClientInv
    BY DEF SessionInit, ClientInv, ClientTypes, ClientsAreTrue,
       ConnectsFindTheirProtocol, WaitersPlayNobody
  <2>2. WaitInv
    BY FS_EmptySet DEF SessionInit, WaitInv, InOrder
  <2>3. GameStateTypeOK
    BY DEF SessionInit, GameStateInit, GameStateTypeOK
  <2>4. QED
    BY <2>1, <2>2, <2>3
<1>2. Types /\ [SessionNext]_sessionVars => Types'
  BY ClientStep, WaitStep, GameTypes
<1>3. Types => SessionTypeOK
  <2> SUFFICES ASSUME ClientTypes, WaitInv, GameStateTypeOK PROVE SessionTypeOK
    BY DEF ClientInv
  <2>1. \A i \in DOMAIN waitList : waitList[i] \in WaitEntry
    BY DEF WaitInv
  <2>2. QED
    BY <2>1 DEF SessionTypeOK, ClientTypes, WaitEntry
<1>4. QED
  BY <1>1, <1>2, <1>3, PTL DEF SessionSpec

=============================================================================
