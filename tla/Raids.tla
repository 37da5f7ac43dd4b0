------------------------------- MODULE Raids -------------------------------
(***************************************************************************)
(* Raids (Src/raids.cpp): which one is running, how far each has come, and *)
(* the monsters that hold it up.  A raid counts references of its monsters *)
(* and items; they keep a plain pointer to it, and a reload deletes it.    *)
(***************************************************************************)
EXTENDS Players, Naturals

CONSTANTS
  Raid, RefType,     \* RefType[r]: "none", "single" or "block"
  Steps,             \* the number of events of every raid
  Invader            \* bound: monsters and items of raids at a time

ASSUME RaidsAssumption ==
  /\ None \notin Raid /\ "deleted" \notin Raid
  /\ RefType \in [Raid -> {"none", "single", "block"}] /\ Steps \in Nat \ {0}

VARIABLES
  running,       \* Raids::running
  eventCount,    \* Raid::eventCount, of each raid
  nextEvent,     \* whether Raid::nextEvent is not 0
  due,           \* the raids with an event in the scheduler
  raidOf,        \* the raid an invader refers to, or the one it once was
  raidsAlive     \* FALSE once a raid was used after its deletion

raidVars == <<online, running, eventCount, nextEvent, due, raidOf, raidsAlive>>

\* Raid::hasRef, after the references became those of the map of.
HasRef(of, r) == \E m \in Invader : of[m] = r

RaidsInit ==
  /\ running = None
  /\ eventCount = [r \in Raid |-> 0] /\ nextEvent = [r \in Raid |-> FALSE]
  /\ due = {} /\ raidOf = [m \in Invader |-> None]
  /\ raidsAlive = TRUE

\* startRaid: getNextRaidEvent and its event, if there is one left.
Start(r) ==
  /\ eventCount[r] < Steps
  /\ eventCount' = [eventCount EXCEPT ![r] = @ + 1]
  /\ nextEvent' = [nextEvent EXCEPT ![r] = TRUE]
  /\ due' = due \union {r}
  /\ running' = r
  /\ UNCHANGED <<online, raidOf, raidsAlive>>

\* As if the others' raids did not matter.
StartAnyTime(r) == ~HasRef(raidOf, r) /\ Start(r)

\* checkRaids, and the scripts that execute a raid: none is running.
StartRaid(r) == running = None /\ ~HasRef(raidOf, r) /\ Start(r)

\* As if a raid that is not finished off were none.
ResetUnlessReferred(r, of) ==
  /\ due' = due \ {r}
  /\ nextEvent' = [nextEvent EXCEPT ![r] = FALSE]
  /\ IF HasRef(of, r)
     THEN UNCHANGED <<eventCount, running>>
     ELSE /\ eventCount' = [eventCount EXCEPT ![r] = 0]
          /\ running' = IF running = r THEN None ELSE running

\* As if the events were counted on.
ResetRunningOnly(r, of) ==
  /\ due' = due \ {r}
  /\ nextEvent' = [nextEvent EXCEPT ![r] = FALSE]
  /\ IF RefType[r] = "block" /\ HasRef(of, r) THEN UNCHANGED running
     ELSE running' = IF running = r THEN None ELSE running
  /\ UNCHANGED eventCount

\* resetRaid, after the references became those of the map of.
Reset(r, of) ==
  /\ due' = due \ {r}
  /\ nextEvent' = [nextEvent EXCEPT ![r] = FALSE]
  /\ IF RefType[r] = "block" /\ HasRef(of, r)
     THEN UNCHANGED <<eventCount, running>>
     ELSE /\ eventCount' = IF RefType[r] = "single" /\ HasRef(of, r)
                           THEN eventCount ELSE [eventCount EXCEPT ![r] = 0]
          /\ running' = IF running = r THEN None ELSE running

\* executeRaidEvent: it places invaders, in part if it fails.
ExecuteRaidEvent(r) ==
  /\ r \in due
  /\ \E M \in SUBSET {m \in Invader : raidOf[m] = None} :
       /\ RefType[r] = "none" => M = {}
       /\ raidOf' = [m \in Invader |-> IF m \in M THEN r ELSE raidOf[m]]
  /\ \/ /\ eventCount[r] < Steps
        /\ eventCount' = [eventCount EXCEPT ![r] = @ + 1]
        /\ UNCHANGED <<running, nextEvent, due>>
     \/ Reset(r, raidOf')
  /\ UNCHANGED <<online, raidsAlive>>

\* An invader dies, is convinced, is removed: unRef.
Falls(m) ==
  /\ raidOf[m] # None
  /\ raidOf' = [raidOf EXCEPT ![m] = None]
  /\ IF raidOf[m] = "deleted"
     THEN raidsAlive' \in BOOLEAN
          /\ UNCHANGED <<running, eventCount, nextEvent, due>>
     ELSE /\ IF ~HasRef(raidOf', raidOf[m]) /\ ~nextEvent[raidOf[m]]
             THEN Reset(raidOf[m], raidOf')
             ELSE UNCHANGED <<running, eventCount, nextEvent, due>>
          /\ UNCHANGED raidsAlive
  /\ UNCHANGED online

\* reload, by an administrator or the global save.  The invaders stay.
ReloadRaids ==
  /\ running' = None /\ due' = {}
  /\ eventCount' = [r \in Raid |-> 0] /\ nextEvent' = [r \in Raid |-> FALSE]
  /\ raidOf' = [m \in Invader |-> IF raidOf[m] \in Raid THEN "deleted" ELSE raidOf[m]]
  /\ UNCHANGED <<online, raidsAlive>>

RaidsNext ==
  /\ raidsAlive
  /\ \/ \E r \in Raid : StartRaid(r) \/ ExecuteRaidEvent(r)
     \/ \E m \in Invader : Falls(m)
     \/ ReloadRaids

RaidsSpec == online = {} /\ RaidsInit /\ [][RaidsNext]_raidVars

-----------------------------------------------------------------------------
(* Properties.                                                             *)

\* The types of the state.
RaidsTypeOK ==
  /\ running \in Raid \union {None}
  /\ eventCount \in [Raid -> 0..Steps] /\ nextEvent \in [Raid -> BOOLEAN]
  /\ due \subseteq Raid
  /\ raidOf \in [Invader -> Raid \union {None, "deleted"}]
  /\ raidsAlive \in BOOLEAN

\* No raid blocks the others for nothing: the one that is running has an event
\* to come or, if it may wait for them, invaders that stand.
RunningRaidsGoOn ==
  running # None =>
    \/ running \in due
    \/ RefType[running] = "block" /\ HasRef(raidOf, running)

\* Every raid starts with its first event, never where an earlier one that was
\* cut short or outlived by its invaders has stopped.
RaidsStartAfresh ==
  \A r \in Raid : ~HasRef(raidOf, r) /\ running # r => eventCount[r] = 0

\* There is one raid under way at most, and it is the one that is running.
OneRaidAtATime == due \subseteq {running} /\ \A r \in Raid : nextEvent[r] <=> r \in due

\* Raids come one at a time, from their beginning, and each ends or goes on.
RaidsAreOrderly == RunningRaidsGoOn /\ RaidsStartAfresh /\ OneRaidAtATime

=============================================================================
