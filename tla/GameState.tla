----------------------------- MODULE GameState -----------------------------
(***************************************************************************)
(* Whether the world is open (Game::gameState), and the global save.  An   *)
(* administrator, a signal or a script orders a state by a task; the save  *)
(* announces itself three times before it closes and reopens the world.    *)
(***************************************************************************)
EXTENDS Players, Naturals, Sequences

CONSTANTS
  ShutdownAtGlobalSave,  \* shutdownAtGlobalSave of the configuration
  MaxOrders              \* bound: orders under way when another is given

ASSUME GameStateAssumption ==
  /\ ShutdownAtGlobalSave \in BOOLEAN /\ MaxOrders \in Nat

VARIABLES
  gameState,     \* "normal", "closing", "closed" or "shutdown"
  orders,        \* tasks of setGameState the dispatcher has not run yet
  announced,     \* how many of globalSaveMessage are set
  saveIsDue      \* an event of prepareGlobalSave is scheduled

gameVars == <<gameState, orders, announced, saveIsDue>>

\* start, within the last minutes before a save, skips announcements, and the
\* closing with the first.
GameStateInit ==
  /\ gameState = "normal" /\ orders = <<>>
  /\ announced \in 0..2 /\ saveIsDue = TRUE

\* setGameState: the same state again does nothing, a shutdown is final.
Changes(s) == gameState \notin {"shutdown", s}
Enter(s) == gameState' = IF gameState = "shutdown" THEN gameState ELSE s

\* As if closing only kept newcomers out.
ExpelledAtShutdown(s) ==
  IF ~Changes(s) THEN {} ELSE IF s = "shutdown" THEN online ELSE {}

Expelled(s) ==
  IF ~Changes(s) THEN {}
  ELSE CASE s = "shutdown" -> online
         [] s = "closed" -> online \ AlwaysLogin
         [] OTHER -> {}

\* Admin, signals and doSetGameState.
OrderState(s) ==
  /\ Len(orders) < MaxOrders
  /\ orders' = Append(orders, s)
  /\ UNCHANGED <<gameState, announced, saveIsDue>>

RunOrder ==
  /\ orders # <<>>
  /\ Enter(Head(orders))
  /\ orders' = Tail(orders)
  /\ UNCHANGED <<announced, saveIsDue>>

\* As if the announcements went on.
AnnounceOn ==
  /\ saveIsDue
  /\ announced' = announced + 1
  /\ IF announced = 0 THEN Enter("closing") ELSE UNCHANGED gameState
  /\ UNCHANGED <<orders, saveIsDue>>

\* prepareGlobalSave.
AnnounceSave ==
  /\ saveIsDue /\ announced < 3
  /\ announced' = announced + 1
  /\ IF announced = 0 THEN Enter("closing") ELSE UNCHANGED gameState
  /\ UNCHANGED <<orders, saveIsDue>>

\* As if the save only saved.
SaveOnly ==
  /\ saveIsDue /\ announced = 3 /\ announced' = 0
  /\ UNCHANGED <<gameState, orders, saveIsDue>>

\* globalSave only queues the closing; it cleans, pays and reloads at once.
GlobalSave ==
  /\ saveIsDue /\ announced = 3 /\ Len(orders) < MaxOrders
  /\ IF ShutdownAtGlobalSave
     THEN /\ orders' = Append(orders, "shutdown") /\ saveIsDue' = FALSE
          /\ UNCHANGED announced
     ELSE /\ orders' = orders \o <<"closed", "normal">> /\ announced' = 0
          /\ UNCHANGED saveIsDue
  /\ UNCHANGED gameState

\* Who may log in; login looks at the state before it looks for a place.
Admitted(p) == p \in AlwaysLogin \/ gameState = "normal"

GameStateTypeOK ==
  /\ gameState \in {"normal", "closing", "closed", "shutdown"}
  /\ orders \in Seq({"normal", "closed", "shutdown"})
  /\ announced \in 0..3 /\ saveIsDue \in BOOLEAN

\* Nobody plays in a closed world but those who may always come, and nobody at
\* all when it shuts down, however takeovers and orders fall together.
ClosedWorldIsEmpty ==
  /\ gameState = "closed" => online \subseteq AlwaysLogin
  /\ gameState = "shutdown" => online = {}

\* What a save closed it opens again: unless it is shut down, the world does
\* not stay in the closing of a save for ever.
ClosingEnds == gameState = "closing" ~> gameState # "closing"

=============================================================================
