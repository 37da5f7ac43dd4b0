------------------------------ MODULE Session ------------------------------
(***************************************************************************)
(* Logging in and out (Src/protocolgame.cpp): which client plays which     *)
(* player, the takeover of a player by a second client, and the end of a   *)
(* protocol.  A machine runs one client at a time; its protocol object and *)
(* its connection are both known by the machine, which is its ip, too.     *)
(***************************************************************************)
EXTENDS WaitingList, GameState

CONSTANTS
  Machine, Gone,
  Attempts    \* bound: who tries to play whom, pairs of machine and player

ASSUME SessionAssumption ==
  /\ {None, Gone} \intersect (Player \union Machine) = {} /\ None # Gone
  /\ Attempts \subseteq Machine \X Player

VARIABLES
  conn,           \* the protocol and its connection: "none", "open", "closing"
                  \* (closeConnection is queued), "released" (unlinked)
  entered,        \* the login task has run
  plays,          \* ProtocolGame::player, Gone if that has been removed
  eventConnect,   \* the player a connect is scheduled to; holds a reference
  client,         \* Player::client
  isConnecting    \* Player::isConnecting

sessionVars == <<online, waitList, conn, entered, plays, eventConnect,
                 client, isConnecting, gameVars>>

SessionInit ==
  /\ online = {} /\ GameStateInit
  /\ waitList = <<>>
  /\ conn = [c \in Machine |-> "none"]
  /\ entered = [c \in Machine |-> FALSE]
  /\ plays = [c \in Machine |-> None]
  /\ eventConnect = [c \in Machine |-> None]
  /\ client = [p \in Player |-> None]
  /\ isConnecting = [p \in Player |-> FALSE]

\* Connection::close of an open connection queues closeConnection.
Closing(C) == [c \in Machine |->
  IF c \in C /\ conn[c] = "open" THEN "closing" ELSE conn[c]]

-----------------------------------------------------------------------------
(* Logging in.                                                             *)

Accept(c) ==
  /\ conn[c] = "none"
  /\ conn' = [conn EXCEPT ![c] = "open"]
  /\ entered' = [entered EXCEPT ![c] = FALSE]
  /\ UNCHANGED <<online, waitList, plays, eventConnect, client, isConnecting>>

\* The login task runs once; its connection may be closing already.
Enters(c) ==
  /\ conn[c] \in {"open", "closing"} /\ ~entered[c]
  /\ entered' = [entered EXCEPT ![c] = TRUE]

\* The player could not be loaded, is banned, the game is closed, or there is
\* no place on the map.  The last two loads follow the waiting list.
LoginRefused(c, p) ==
  /\ Enters(c) /\ p \notin online
  /\ UNCHANGED waitList \/ (Admitted(p) /\ Admits(p, c))
  /\ conn' = Closing({c})
  /\ UNCHANGED <<online, plays, eventConnect, client, isConnecting>>

LoginPutOff(c, p) ==
  /\ Enters(c) /\ p \notin online
  /\ Admitted(p) /\ PutsOff(p, c)
  /\ conn' = Closing({c})
  /\ UNCHANGED <<online, plays, eventConnect, client, isConnecting>>

LoginPlaced(c, p) ==
  /\ Enters(c) /\ p \notin online
  /\ Admitted(p) /\ Admits(p, c)
  /\ online' = online \union {p}
  /\ plays' = [plays EXCEPT ![c] = p]
  /\ client' = [client EXCEPT ![p] = c]
  /\ isConnecting' = [isConnecting EXCEPT ![p] = FALSE]
  /\ UNCHANGED <<conn, eventConnect>>

\* The player has a client: that one goes, this one connects a second later.
\* m_eventConnect of a protocol that has just come is always 0.
LoginTakesOver(c, p) ==
  /\ Enters(c) /\ p \in online /\ client[p] # None
  /\ conn' = Closing({client[p]})
  /\ isConnecting' = [isConnecting EXCEPT ![p] = TRUE]
  /\ eventConnect' = [eventConnect EXCEPT ![c] = p]
  /\ UNCHANGED <<online, waitList, plays, client>>

Bind(c, p) ==
  /\ plays' = [plays EXCEPT ![c] = p]
  /\ client' = [client EXCEPT ![p] = c]
  /\ isConnecting' = [isConnecting EXCEPT ![p] = FALSE]

\* A player without client is connected at once.
LoginReturns(c, p) ==
  /\ Enters(c) /\ p \in online /\ client[p] = None
  /\ Bind(c, p)
  /\ UNCHANGED <<online, waitList, conn, eventConnect>>

-----------------------------------------------------------------------------
(* connect, one second after a takeover.                                   *)

\* As if the connect were tried again for ever.
ConnectTooLateAgain(c) ==
  /\ eventConnect[c] # None
  /\ eventConnect[c] \in Player => client[eventConnect[c]] # None
  /\ conn' = Closing({c})
  /\ UNCHANGED <<online, waitList, entered, plays, eventConnect, client, isConnecting>>

ConnectTooLate(c) ==
  /\ eventConnect[c] # None
  /\ eventConnect[c] \in Player => client[eventConnect[c]] # None
  /\ conn' = Closing({c})
  /\ eventConnect' = [eventConnect EXCEPT ![c] = None]
  /\ UNCHANGED <<online, waitList, entered, plays, client, isConnecting>>

\* The connection no longer exists; isConnecting stays.
ConnectUnlinked(c) ==
  /\ eventConnect[c] \in Player /\ client[eventConnect[c]] = None
  /\ conn[c] = "released"
  /\ eventConnect' = [eventConnect EXCEPT ![c] = None]
  /\ UNCHANGED <<online, waitList, conn, entered, plays, client, isConnecting>>

Connect(c) ==
  /\ eventConnect[c] \in Player /\ client[eventConnect[c]] = None
  /\ conn[c] # "released"
  /\ Bind(c, eventConnect[c])
  /\ eventConnect' = [eventConnect EXCEPT ![c] = None]
  /\ UNCHANGED <<online, waitList, conn, entered>>

-----------------------------------------------------------------------------
(* Logging out.                                                            *)

\* removeCreature.  The object is kept while a protocol refers to it.
RemovePlayers(P) ==
  /\ online' = online \ P
  /\ client' = [p \in Player |-> IF p \in P THEN None ELSE client[p]]
  /\ isConnecting' = [p \in Player |-> p \notin P /\ isConnecting[p]]
  /\ plays' = [c \in Machine |-> IF plays[c] \in P THEN Gone ELSE plays[c]]
  /\ eventConnect' = [c \in Machine |->
       IF eventConnect[c] \in P THEN Gone ELSE eventConnect[c]]

\* A request to log out, which may have been sent before the close.  No script
\* objects, no fight is on.
Logout(c) ==
  /\ conn[c] \in {"open", "closing"} /\ plays[c] # None
  /\ conn' = Closing({c})
  /\ IF plays[c] = Gone
     THEN UNCHANGED <<online, client, isConnecting, plays, eventConnect>>
     ELSE RemovePlayers({plays[c]})
  /\ UNCHANGED <<waitList, entered>>

\* kickPlayer, and a death.
Kick(p) ==
  /\ p \in online
  /\ conn' = Closing({client[p]})
  /\ RemovePlayers({p})
  /\ UNCHANGED <<waitList, entered>>

\* onThink: no answer for a minute, and canLogout.
IdleLogout(p) ==
  /\ p \in online /\ ~isConnecting[p]
  /\ conn' = Closing({client[p]})
  /\ RemovePlayers({p})
  /\ UNCHANGED <<waitList, entered>>

\* The peer hangs up, an error, a timeout.
Disconnect(c) ==
  /\ conn[c] = "open"
  /\ conn' = Closing({c})
  /\ UNCHANGED <<online, waitList, entered, plays, eventConnect, client,
                 isConnecting>>

\* As if the player were not told.
CloseConnectionSilently(c) ==
  /\ conn[c] = "closing"
  /\ conn' = [conn EXCEPT
       ![c] = IF eventConnect[c] = None THEN "none" ELSE "released"]
  /\ plays' = [plays EXCEPT ![c] = IF eventConnect[c] = None THEN None ELSE @]
  /\ UNCHANGED <<online, waitList, entered, eventConnect, client, isConnecting>>

\* As if a scheduled connect held no reference.
CloseConnectionUncounted(c) ==
  /\ conn[c] = "closing"
  /\ client' = [p \in Player |->
       IF plays[c] = p /\ client[p] = c THEN None ELSE client[p]]
  /\ conn' = [conn EXCEPT ![c] = "none"]
  /\ plays' = [plays EXCEPT ![c] = None]
  /\ UNCHANGED <<online, waitList, entered, eventConnect, isConnecting>>

\* closeConnection and releaseProtocol; deleteProtocolTask unless referred to.
CloseConnection(c) ==
  /\ conn[c] = "closing"
  /\ client' = [p \in Player |->
       IF plays[c] = p /\ client[p] = c THEN None ELSE client[p]]
  /\ conn' = [conn EXCEPT
       ![c] = IF eventConnect[c] = None THEN "none" ELSE "released"]
  /\ plays' = [plays EXCEPT ![c] = IF eventConnect[c] = None THEN None ELSE @]
  /\ UNCHANGED <<online, waitList, entered, eventConnect, isConnecting>>

\* releaseProtocol tries again after SCHEDULER_MINTICKS.
ReleaseAgain(c) ==
  /\ conn[c] = "released" /\ eventConnect[c] = None
  /\ conn' = [conn EXCEPT ![c] = "none"]
  /\ plays' = [plays EXCEPT ![c] = None]
  /\ UNCHANGED <<online, waitList, entered, eventConnect, client, isConnecting>>

WaitTooLong ==
  /\ \E i \in DOMAIN waitList : LimitPasses(i)
  /\ UNCHANGED <<online, conn, entered, plays, eventConnect, client,
                 isConnecting>>

\* A state that was ordered is set, and those it expels are kicked.
SetGameState ==
  /\ RunOrder
  /\ LET P == Expelled(Head(orders)) IN
       conn' = Closing({client[p] : p \in P}) /\ RemovePlayers(P)
  /\ UNCHANGED <<waitList, entered>>

Visits ==
  \/ \E c \in Machine :
       \/ Accept(c) \/ Disconnect(c) \/ CloseConnection(c) \/ ReleaseAgain(c)
       \/ ConnectTooLate(c) \/ ConnectUnlinked(c) \/ Connect(c) \/ Logout(c)
       \/ \E p \in {q \in Player : <<c, q>> \in Attempts} :
            \/ LoginRefused(c, p) \/ LoginPutOff(c, p) \/ LoginPlaced(c, p)
            \/ LoginTakesOver(c, p) \/ LoginReturns(c, p)
  \/ \E p \in Player : Kick(p) \/ IdleLogout(p)
  \/ WaitTooLong

\* A shutdown stops the dispatcher.
Running == gameState # "shutdown"
Visit(A) == Running /\ A /\ UNCHANGED gameVars
GameStep(A) ==
  /\ Running /\ A
  /\ UNCHANGED <<online, waitList, conn, entered, plays, eventConnect, client,
                 isConnecting>>

SessionNext ==
  \/ Visit(Visits)
  \/ Running /\ SetGameState
  \/ GameStep(AnnounceSave) \/ GameStep(GlobalSave)
  \/ \E s \in {"normal", "closed", "shutdown"} : GameStep(OrderState(s))

\* The dispatcher gets to every task, the scheduler to every event.
SessionFairness ==
  /\ \A c \in Machine :
       /\ WF_sessionVars(Visit(CloseConnection(c)))
       /\ WF_sessionVars(Visit(ReleaseAgain(c)))
       /\ WF_sessionVars(Visit(ConnectTooLate(c) \/ ConnectUnlinked(c) \/ Connect(c)))
  /\ WF_sessionVars(Running /\ SetGameState)
  /\ WF_sessionVars(GameStep(AnnounceSave)) /\ WF_sessionVars(GameStep(GlobalSave))

SessionSpec == SessionInit /\ [][SessionNext]_sessionVars /\ SessionFairness

-----------------------------------------------------------------------------
(* Properties.                                                             *)

\* The types of the state.
SessionTypeOK ==
  /\ online \subseteq Player /\ GameStateTypeOK
  /\ \A i \in DOMAIN waitList : waitList[i] \in
       [name : Player, ip : Machine, late : BOOLEAN]
  /\ conn \in [Machine -> {"none", "open", "closing", "released"}]
  /\ entered \in [Machine -> BOOLEAN]
  /\ plays \in [Machine -> Player \union {None, Gone}]
  /\ eventConnect \in [Machine -> Player \union {None, Gone}]
  /\ client \in [Player -> Machine \union {None}]
  /\ isConnecting \in [Player -> BOOLEAN]

\* Player::client is a plain pointer: it names a protocol that still exists, is
\* linked to a connection and plays just this player; and a player that is
\* being played is in the game.
ClientsAreTrue ==
  /\ \A p \in Player : client[p] # None =>
       /\ p \in online /\ plays[client[p]] = p
       /\ conn[client[p]] \in {"open", "closing"}
  /\ \A c \in Machine : plays[c] \in Player => client[plays[c]] = c

\* A scheduled connect is a plain pointer to its protocol, which must live
\* until then, whatever happens to its connection in that second.
ConnectsFindTheirProtocol ==
  \A c \in Machine : eventConnect[c] # None => conn[c] # "none"

\* All plain pointers between players, protocols and scheduled connects hold.
SessionsAreTrue == ClientsAreTrue /\ ConnectsFindTheirProtocol

\* Whoever is let in fits in with all who have waited longer; only the
\* privileged are not counted.
PlacesAreKept ==
  [][\A c \in Machine, p \in Player :
       p \notin Privileged /\ LoginPlaced(c, p)
         => Cardinality(online) + Ahead(p, c) < MaxPlayers]_sessionVars

\* Whoever waits is let in in her turn: premium players first, nobody past
\* another, and nobody into a place another waits for.
WaitingIsFair == PlacesAreKept /\ OrderIsKept /\ []PremiumFirst

\* Every protocol whose connection closes is deleted in the end, even one
\* with a connect still to come.
ProtocolsEnd == \A c \in Machine :
  conn[c] = "closing" ~> (conn[c] = "none" \/ gameState = "shutdown")

\* What begins to close comes to its end: protocols, and the world of a save.
ClosingsEnd == ProtocolsEnd /\ ClosingEnds

=============================================================================
