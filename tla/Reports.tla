------------------------------ MODULE Reports ------------------------------
(***************************************************************************)
(* Reports of rule violations and the gamemasters who answer them          *)
(* (Game::ruleViolations and the requests of game.cpp about it, the        *)
(* channel CHANNEL_RVR of chat.cpp).  A report holds plain pointers to     *)
(* both; every request is a task of the dispatcher, hence one step.        *)
(***************************************************************************)
EXTENDS Players

CONSTANT Gamemaster  \* players with PlayerFlag_CanAnswerRuleViolations

Open == "open"

ASSUME GamemasterAssumption ==
  Gamemaster \subseteq Player /\ Open \notin Player \union {None}

VARIABLES
  desk,     \* the users of CHANNEL_RVR
  report,   \* ruleViolations: Open or the gamemaster in charge
  listed    \* the reports in the window of each user of the channel

reportVars == <<online, desk, report, listed>>

OpenIn(r) == {p \in Player : r[p] = Open}

ReportsInit ==
  /\ desk = {}
  /\ report = [p \in Player |-> None]
  /\ listed = [p \in Player |-> {}]

\* The reports become r; the windows of the channel are told of each change.
Tell(r) ==
  /\ report' = r
  /\ LET gone == {p \in Player : r[p] # report[p]}
         new == {p \in OpenIn(r) : report[p] # Open}
     IN listed' = [g \in Player |->
          IF g \in desk' THEN (listed[g] \ gone) \union new ELSE {}]

\* playerReportRuleViolation cancels an earlier report of the same player.
ReportViolation(p) ==
  /\ p \in online
  /\ UNCHANGED desk /\ Tell([report EXCEPT ![p] = Open])
  /\ UNCHANGED online

\* As if the others' windows were not told.
ProcessSilently(g, p) ==
  /\ {g, p} \subseteq online /\ g \in Gamemaster
  /\ report[p] = Open
  /\ report' = [report EXCEPT ![p] = g]
  /\ UNCHANGED <<online, desk, listed>>

ProcessReport(g, p) ==
  /\ {g, p} \subseteq online /\ g \in Gamemaster
  /\ report[p] = Open
  /\ UNCHANGED desk /\ Tell([report EXCEPT ![p] = g])
  /\ UNCHANGED online

\* playerCloseRuleViolation and playerCancelRuleViolation.
CloseReport(p) ==
  /\ p \in online /\ report[p] # None
  /\ UNCHANGED desk /\ Tell([report EXCEPT ![p] = None])
  /\ UNCHANGED online

\* Opening the channel shows every report that is open.
OpenDesk(g) ==
  /\ g \in online \intersect Gamemaster /\ g \notin desk
  /\ desk' = desk \union {g}
  /\ listed' = [listed EXCEPT ![g] = OpenIn(report)]
  /\ UNCHANGED <<online, report>>

CloseDesk(g) ==
  /\ g \in online \intersect desk
  /\ desk' = desk \ {g}
  /\ listed' = [listed EXCEPT ![g] = {}]
  /\ UNCHANGED <<online, report>>

\* As if the own report were all.
LogoutKeepingCases(p) ==
  /\ p \in online
  /\ desk' = desk \ {p}
  /\ Tell([report EXCEPT ![p] = None])
  /\ online' = online \ {p}

\* Player::onCreatureDisappear: the own report, those in charge of, the desk.
LogoutOfReports(p) ==
  /\ p \in online
  /\ desk' = desk \ {p}
  /\ Tell([q \in Player |->
       IF q = p \/ (p \in Gamemaster /\ report[q] = p) THEN None ELSE report[q]])
  /\ online' = online \ {p}

LoginToReports(p) ==
  /\ p \notin online
  /\ online' = online \union {p}
  /\ UNCHANGED <<desk, report, listed>>

ReportsNext ==
  \E p \in Player :
    \/ ReportViolation(p) \/ CloseReport(p)
    \/ OpenDesk(p) \/ CloseDesk(p)
    \/ LogoutOfReports(p) \/ LoginToReports(p)
    \/ \E g \in Gamemaster : ProcessReport(g, p)

ReportsSpec == online = Player /\ ReportsInit /\ [][ReportsNext]_reportVars

-----------------------------------------------------------------------------
(* Properties.                                                             *)

\* The types of the state.
ReportsTypeOK ==
  /\ desk \subseteq Gamemaster
  /\ report \in [Player -> Gamemaster \union {None, Open}]
  /\ listed \in [Player -> SUBSET Player]

\* No report points to a player who has left the game, as the one who reports
\* or as the one in charge, nor does the channel of the gamemasters.
CasesHavePeople ==
  /\ desk \subseteq online
  /\ \A p \in Player : report[p] # None =>
       p \in online /\ (report[p] # Open => report[p] \in online)

\* The window of every gamemaster lists exactly the reports nobody has taken,
\* whoever reports, answers, gives up or logs out meanwhile.
DeskIsTrue == \A g \in desk : listed[g] = OpenIn(report)

\* Reports, their people and what the gamemasters' windows list agree, whoever
\* leaves in the middle of a case.
ReportsAreTrue == CasesHavePeople /\ DeskIsTrue

=============================================================================
