------------------------------ MODULE Ailments ------------------------------
(***************************************************************************)
(* The ailments that slow, stop or silence a creature (doCondition2 and    *)
(* the functions in it, data/lib/pokemon/newStatusSyst.lua).  An ailment   *)
(* is a number of rounds in a storage value and a chain of events, one     *)
(* second each, that count it down; its last event gives the creature back *)
(* what the ailment took, unless another one still holds it.  The state of *)
(* one creature, a player or a summon, whose ball keeps what it suffers    *)
(* from.  Events come in any order: more than their times allow.  Fear has *)
(* the code of Confusion; Burn, Poison, Leech and Miss hold nobody.  Left  *)
(* out: summons under control (212123), outfits, who is immune.            *)
(***************************************************************************)
EXTENDS Integers, FiniteSets, FiniteSetsExt

CONSTANTS
  MaxRounds,     \* bound: the rounds a move gives
  MaxTicks,      \* bound: events of ailments at a time
  MaxTogether,   \* bound: ailments at a time
  MaxSoon        \* bound: short events (of 10 and 50 ms) at a time

ASSUME AilmentsAssumption ==
  {MaxRounds, MaxTicks, MaxTogether, MaxSoon} \subseteq Nat \ {0}

Ailment == {"slow", "confusion", "stun", "paralyze", "sleep", "silence"}

VARIABLE patient

\* history: forgotten is what an ailment took and nobody gives back; stranded
\* are the ailments of a player that ran when he left the game.
Healthy(kind) ==
  [kind |-> kind,
   rounds |-> [a \in Ailment |-> -1],     \* the storage values of conds
   ball |-> [a \in Ailment |-> -1],       \* the attributes of the ball
   ticks |-> [a \in Ailment |-> 0],       \* events of doSlow2 ... doSleep2
   soon |-> [e \in {"reslow", "regain"} |-> 0],
   restore |-> -1,                        \* the Confusion a summon will resume
   slowed |-> FALSE,                      \* CONDITION_PARALYZE
   own |-> TRUE,                          \* its speed without it is the normal one
   still |-> FALSE,                       \* mayNotMove
   forgotten |-> {}, stranded |-> {}]

AilmentsInit == \E kind \in {"player", "summon"} : patient = Healthy(kind)

IsSleeping(p) == p.rounds["sleep"] >= 1 \/ p.rounds["silence"] >= 1
IsParalyze(p) == p.rounds["paralyze"] >= 0

Later(p, e) == [p EXCEPT !.soon[e] = @ + 1]
AddCondition(p) == [p EXCEPT !.slowed = TRUE]
RemoveCondition(p) == [p EXCEPT !.slowed = FALSE]

\* The slowness is lifted while the speed is set, and comes back 10 ms later.
Lift(p) == IF p.slowed THEN Later(RemoveCondition(p), "reslow") ELSE p

\* Speed that is set while the slowness counts comes out too high by as much.
RegainSpeed(p) ==
  [Lift(p) EXCEPT !.own = ~p.slowed,
                  !.forgotten = IF p.slowed THEN @ \union {"own"} ELSE @ \ {"own"}]

\* What an ailment took is left to another one that still counts; but what holds
\* a player gives back no speed, so that he stays without it.
Holds(p) ==
  \/ p.rounds["sleep"] >= 1 /\ p.ticks["sleep"] > 0
  \/ IsParalyze(p) /\ p.ticks["paralyze"] > 0
Kept(p, what) ==
  IF Holds(p) /\ (p.kind = "player" => what = "still") THEN p
  ELSE [p EXCEPT !.forgotten = @ \union {what}]
MayMove(p) == [p EXCEPT !.still = FALSE, !.forgotten = @ \ {"still"}]

EndSlow(p) ==
  LET q == RemoveCondition(p)
  IN  IF IsSleeping(p) \/ IsParalyze(p) THEN q ELSE Later(q, "regain")

EndConfusion(p) ==
  IF IsSleeping(p) \/ IsParalyze(p) THEN Kept(Lift(p), "own")
  ELSE RegainSpeed(Lift(p))

\* Paralyze and Sleep each leave the creature to the other.
Release(p, heldOtherwise) ==
  IF p.kind = "player"
  THEN IF heldOtherwise THEN Kept(p, "still") ELSE MayMove(p)
  ELSE IF heldOtherwise THEN Kept(Lift(p), "own") ELSE RegainSpeed(Lift(p))

Ended(p, a) ==
  CASE a \in {"slow", "stun"} -> EndSlow(p)
    [] a = "confusion" -> EndConfusion(p)
    [] a = "paralyze" -> Release(p, IsSleeping(p))
    [] a = "sleep" -> Release(p, IsParalyze(p))
    [] a = "silence" -> p

\* What doSlow2, doStun2, doConfusion2, doParalyze2 and doSleep2 do after their end.
\* acts: of Slow, the first time; of Confusion, there is a target to stumble to.
Suffers(p, a, acts) ==
  CASE a = "slow" -> IF acts THEN AddCondition(p) ELSE p
    [] a = "stun" -> AddCondition(p)
    [] a = "confusion" ->
         IF acts /\ ~IsSleeping(p) /\ ~IsParalyze(p) THEN [p EXCEPT !.own = FALSE] ELSE p
    [] a \in {"paralyze", "sleep"} ->
         IF p.kind = "player" THEN [p EXCEPT !.still = TRUE] ELSE [p EXCEPT !.own = FALSE]
    [] a = "silence" -> p

\* The ball is told of the rounds that are left, not of a new ailment.
ApplyUnsaved(p, a, cd, acts) ==
  IF p.rounds[a] >= 1 /\ cd # -1 THEN [p EXCEPT !.rounds[a] = cd]
  ELSE LET n == IF p.rounds[a] + cd >= 0 THEN p.rounds[a] + cd ELSE -1
           q == [p EXCEPT !.rounds[a] = n,
                          !.ball[a] = IF p.kind = "summon" /\ cd = -1 THEN n ELSE @,
                          !.stranded = @ \ {a}]
       IN  IF n = -1 THEN Ended(q, a)
           ELSE [Suffers(q, a, acts) EXCEPT !.ticks[a] = @ + 1]

\* One call of an ailment's function, with -1 from its own event.
Apply(p, a, cd, acts) ==
  IF p.rounds[a] >= 1 /\ cd # -1 THEN [p EXCEPT !.rounds[a] = cd]
  ELSE LET n == IF p.rounds[a] + cd >= 0 THEN p.rounds[a] + cd ELSE -1
           q == [p EXCEPT !.rounds[a] = n,
                          !.ball[a] = IF p.kind = "summon" THEN n ELSE @,
                          !.stranded = @ \ {a}]
       IN  IF n = -1 THEN Ended(q, a)
           ELSE [Suffers(q, a, acts) EXCEPT !.ticks[a] = @ + 1]

-----------------------------------------------------------------------------
Ailing(p) == {a \in Ailment : p.rounds[a] >= 0 \/ p.ticks[a] > 0}
\* Those that count for the bound MaxTogether.
Remembered(p) == Ailing(p) \union {a \in Ailment : p.ball[a] >= 0}
RoomForATick ==
  MapThenSumSet(LAMBDA a : patient.ticks[a], Ailment) < MaxTicks
NotTooSoon(p) == p.soon["reslow"] + p.soon["regain"] < MaxSoon

\* doCondition2, called by a move.
Afflict(a, acts) ==
  /\ a \notin Remembered(patient) => Cardinality(Remembered(patient)) < MaxTogether
  /\ patient.rounds[a] < 1 => RoomForATick
  /\ patient' = Apply(patient, a, MaxRounds, acts)

\* The addEvent of an ailment's function.
Tick(a, acts) ==
  /\ patient.ticks[a] > 0 /\ (patient.rounds[a] < 1 => NotTooSoon(patient))
  /\ patient' = Apply([patient EXCEPT !.ticks[a] = @ - 1], a, -1, acts /\ a # "slow")

\* addEvent(doAddCondition, 10, ...) and addEvent(doRegainSpeed, 50, ...).
SoonEvent(e) ==
  /\ patient.soon[e] > 0
  /\ LET p == [patient EXCEPT !.soon[e] = @ - 1]
     IN  patient' = IF e = "regain" THEN RegainSpeed(p) ELSE AddCondition(p)

\* Its 50 seconds are over.
ConditionEnds == patient.slowed /\ patient' = RemoveCondition(patient)

\* doCureStatus: the events go on, and end what they find at -1.
CuredAtOnce(p) ==
  [p EXCEPT !.rounds = [a \in Ailment |-> -1], !.ticks = [a \in Ailment |-> 0],
            !.stranded = {}]
Cured(p) == [p EXCEPT !.rounds = [a \in Ailment |-> -1], !.stranded = {}]
CureStatus == Ailing(patient) # {} /\ patient' = Cured(patient)
UseMedicine == Ailing(patient) # {} /\ patient' = RemoveCondition(Cured(patient))

\* The nurse cures the summon and the ball it came from.
NurseHeals ==
  /\ patient.kind = "summon"
  /\ patient' = [Cured(patient) EXCEPT !.ball = [a \in Ailment |-> -1]]

\* Called back and out again: another creature, that suffers from what the ball
\* says, in this order, unless its boost spares it.
Resumed(p, a, spared) ==
  IF p.ball[a] >= 0 /\ a \notin spared THEN Apply(p, a, p.ball[a], TRUE) ELSE p

CallOut(spared) ==
  /\ patient.kind = "summon"
  /\ LET fresh == [Healthy("summon") EXCEPT
                     !.ball = patient.ball, !.restore = patient.ball["confusion"]]
         asleep == Resumed(fresh, "sleep", spared)
         silenced == Resumed(asleep, "silence", spared)
         stunned == Resumed(silenced, "stun", spared)
         paralyzed == Resumed(stunned, "paralyze", spared)
     IN  patient' = Resumed(paralyzed, "slow", spared)

\* Confusion comes back 1.2 seconds later, as the ball said then.
Restore(acts, spared) ==
  /\ patient.restore >= 0 /\ NotTooSoon(patient) /\ RoomForATick
  /\ LET p == [patient EXCEPT !.restore = -1]
     IN  patient' = IF spared THEN p ELSE Apply(p, "confusion", patient.restore, acts)

\* The storage values of a player are saved; the events find nobody, as the
\* player who comes back has another creature id.
LeaveAndReturn ==
  /\ patient.kind = "player"
  /\ patient' = [Healthy("player") EXCEPT
                   !.rounds = patient.rounds,
                   !.stranded = {a \in Ailment : patient.rounds[a] >= 0}]

Acts(a) == IF a \in {"slow", "confusion"} THEN BOOLEAN ELSE {TRUE}

AilmentsNext ==
  \/ \E a \in Ailment : \E acts \in Acts(a) : Tick(a, acts) \/ Afflict(a, acts)
  \/ \E e \in {"reslow", "regain"} : SoonEvent(e)
  \/ ConditionEnds \/ CureStatus \/ UseMedicine \/ NurseHeals
  \/ \E spared \in SUBSET {a \in Ailment : patient.ball[a] >= 0} : CallOut(spared)
  \/ \E acts, spared \in BOOLEAN : Restore(acts, spared)
  \/ LeaveAndReturn

AilmentsSpec == AilmentsInit /\ [][AilmentsNext]_patient

-----------------------------------------------------------------------------
AilmentsTypeOK ==
  /\ patient.kind \in {"player", "summon"}
  /\ {patient.rounds, patient.ball} \subseteq [Ailment -> -1..MaxRounds]
  /\ patient.ticks \in [Ailment -> 0..MaxTicks]
  /\ patient.soon \in [{"reslow", "regain"} -> 0..(MaxSoon + 1)]
  /\ patient.restore \in -1..MaxRounds
  /\ {patient.slowed, patient.own, patient.still} \subseteq BOOLEAN
  /\ patient.forgotten \subseteq {"own", "still"} /\ patient.stranded \subseteq Ailment

\* No ailment goes on for ever: while rounds are left an event counts them down.
\* Only those a player left the game with stay until they are cured.
AilmentsRunOut ==
  \A a \in Ailment \ patient.stranded : patient.rounds[a] >= 0 => patient.ticks[a] > 0

Quiet ==
  /\ Ailing(patient) = {} /\ patient.restore = -1 /\ ~patient.slowed
  /\ \A e \in DOMAIN patient.soon : patient.soon[e] = 0

\* When nothing is left of any ailment, the creature has its speed and may move,
\* in whatever order they came, met and ended, and whoever cured them.  Silence
\* counts as sleep but gives nothing back: what ended under it is forgotten.
NothingHoldsOn ==
  Quiet => /\ patient.own \/ "own" \in patient.forgotten
           /\ ~patient.still \/ "still" \in patient.forgotten

\* Calling a summon back rids it of nothing: its ball knows what it suffers from.
NothingIsShed ==
  patient.kind = "summon" =>
    \A a \in Ailment : patient.rounds[a] >= 0 => patient.ball[a] >= 0

\* What a creature suffers from ends, leaves nothing behind, and stays its own
\* (newStatusSyst.lua: the calls of doRegainSpeed, mayNotMove and addEvent).
AilmentsPass == AilmentsRunOut /\ NothingHoldsOn /\ NothingIsShed

=============================================================================
