-------------------------------- MODULE Pvp --------------------------------
(***************************************************************************)
(* Skulls and frags of trainers whose pokemon fight each other             *)
(* (data/lib/pokemon/pvp system.lua with the skulls of Src/player.cpp).    *)
(* Every attack, death and timer is a task of the dispatcher, hence one    *)
(* step.  Whether trainers may fight (levels, zones, parties, the button)  *)
(* is left open; so are kills of players themselves.                       *)
(***************************************************************************)
EXTENDS Players, Naturals

CONSTANTS
  Trainer, Killer,                  \* bounds: who fights, and who kills
  WhiteTime, RedTime, BlackTime,    \* how long a skull lasts
  ToRed, ToBlack,                   \* the limits of frags per day, week, month
  DayLength, WeekDays, MonthDays, YearDays,
  LastHour, MaxFrags                \* bounds

Span == {"day", "week", "month"}

ASSUME PvpAssumption ==
  /\ Killer \subseteq Trainer /\ Trainer \subseteq Player /\ None \notin Nat
  /\ {WhiteTime, RedTime, BlackTime, LastHour, MaxFrags} \subseteq Nat
  /\ {DayLength, WeekDays, MonthDays, YearDays} \subseteq Nat \ {0}
  /\ {ToRed, ToBlack} \subseteq [Span -> Nat]
  /\ YearDays % MonthDays = 0

VARIABLES
  clock,        \* os.time()
  skull,        \* Player::skull
  skullEnd,     \* Player::skullEnd
  markedUntil,  \* storage aggressorUntil
  clearAt,      \* the pending clearPokemonPvpWhiteSkull of this stay
  period, frags,  \* the other storages: periods and counters
  fighting,     \* who has CONDITION_INFIGHT
  cameMarked    \* history: logged in with a mark and not marked since

markVars == <<skull, skullEnd, markedUntil, clearAt, cameMarked>>
tallyVars == <<period, frags>>
pvpVars == <<online, clock, markVars, tallyVars, fighting>>

NoPeriod == [s \in Span |-> <<>>]

PvpInit ==
  /\ clock = 0
  /\ skull = [p \in Trainer |-> "none"] /\ skullEnd = [p \in Trainer |-> 0]
  /\ markedUntil = [p \in Trainer |-> 0] /\ clearAt = [p \in Trainer |-> None]
  /\ period = [p \in Killer |-> NoPeriod]
  /\ frags = [p \in Killer |-> [s \in Span |-> 0]]
  /\ fighting = {} /\ cameMarked = [p \in Trainer |-> FALSE]

Present == online \intersect Trainer
WearsSkull(p) == skull[p] # "none"
IsAggressor(p) == markedUntil[p] > clock \/ WearsSkull(p)

-----------------------------------------------------------------------------
(* Counters.                                                               *)

\* os.date("%Y%j"), ("%Y%W") and ("%Y%m"): a week ends with the year.
PeriodKeys ==
  LET day == clock \div DayLength
      year == day \div YearDays
  IN  [day |-> <<year, day % YearDays>>,
       week |-> <<year, (day % YearDays) \div WeekDays>>,
       month |-> <<year, (day % YearDays) \div MonthDays>>]

\* As if the counter of the day went on until the week ends.
CountsOfTheWeek(p) ==
  [s \in Span |-> IF period[p]["week"] = PeriodKeys["week"] \/ s = "day"
                  THEN frags[p][s] ELSE 0]

FragCounts(p) ==
  [s \in Span |-> IF period[p][s] = PeriodKeys[s] THEN frags[p][s] ELSE 0]

Count(p, f) ==
  /\ period' = [period EXCEPT ![p] = PeriodKeys]
  /\ frags' = [frags EXCEPT ![p] = f]

\* The command !frags.
ShowStatus(p) ==
  /\ p \in Present \intersect Killer
  /\ Count(p, FragCounts(p))
  /\ UNCHANGED <<online, clock, markVars, fighting>>

Reached(f, limit) == \E s \in Span : limit[s] > 0 /\ f[s] >= limit[s]

-----------------------------------------------------------------------------
(* Marks.  A trainer's mark is the record of what is known about him.      *)

Mark(p) == [skull |-> skull[p], end |-> skullEnd[p], until |-> markedUntil[p],
            clear |-> clearAt[p], came |-> cameMarked[p]]

SetMark(p, m) ==
  /\ skull' = [skull EXCEPT ![p] = m.skull]
  /\ skullEnd' = [skullEnd EXCEPT ![p] = m.end]
  /\ markedUntil' = [markedUntil EXCEPT ![p] = m.until]
  /\ clearAt' = [clearAt EXCEPT ![p] = m.clear]
  /\ cameMarked' = [cameMarked EXCEPT ![p] = m.came]

\* As if a renewed mark lost its timer.
OpenOnce(m) ==
  [m EXCEPT !.until = clock + WhiteTime, !.skull = "white", !.end = clock + WhiteTime,
            !.clear = IF m.clear = None THEN clock + WhiteTime ELSE None,
            !.came = FALSE]

\* openOrRefreshPokemonPvpWhiteSkull.
Opened(m) ==
  IF m.skull \in {"none", "white"}
  THEN [skull |-> "white", end |-> clock + WhiteTime, until |-> clock + WhiteTime,
        clear |-> clock + WhiteTime, came |-> FALSE]
  ELSE [m EXCEPT !.until = clock + WhiteTime]

\* As if every attack opened a mark.
MarkedAlways(p, q) == Opened(Mark(p))

\* markPokemonPvpAttack.
Marked(p, q) ==
  IF ~IsAggressor(q) \/ skull[p] = "white" THEN Opened(Mark(p)) ELSE Mark(p)

\* A white skull without a time of its own, unless somebody wears one already.
Untimed(m, q) ==
  IF m.skull = "none" /\ ~WearsSkull(q) THEN [m EXCEPT !.skull = "white"] ELSE m

\* A trainer turns on another's pokemon (playerSetAttackedCreature with its
\* script).
Target(p, q) ==
  /\ {p, q} \subseteq Present /\ p # q
  /\ SetMark(p, Untimed(Marked(p, q), q))
  /\ fighting' = fighting \union {p, q}
  /\ UNCHANGED <<online, clock, tallyVars>>

\* A pokemon hurts another's: the script on health changes, then
\* onAttackedCreature; who was attacked by the other before may fight back.
Strike(p, q) ==
  /\ {p, q} \subseteq Present /\ p # q
  /\ \/ SetMark(p, Marked(p, q))
     \/ SetMark(p, Untimed(Marked(p, q), q))
  /\ fighting' = fighting \union {p}
  /\ UNCHANGED <<online, clock, tallyVars>>

\* updatePokemonPvpSkull.
Ranked(m, f) ==
  IF Reached(f, ToBlack) THEN [m EXCEPT !.skull = "black", !.end = clock + BlackTime]
  ELSE IF Reached(f, ToRed) THEN [m EXCEPT !.skull = "red", !.end = clock + RedTime]
  ELSE m

\* handlePokemonPvpDeath: the pokemon of v dies by that of k.
PokemonDies(v, k) ==
  /\ {v, k} \subseteq Present /\ v # k /\ k \in Killer
  /\ ~IsAggressor(v)
  /\ LET f == [s \in Span |-> FragCounts(k)[s] + 1]
     IN  /\ \A s \in Span : f[s] <= MaxFrags
         /\ SetMark(k, Ranked(Opened(Mark(k)), f))
         /\ Count(k, f)
  /\ UNCHANGED <<online, clock, fighting>>

-----------------------------------------------------------------------------
(* Ends.                                                                   *)

\* setSkullEnd with a time that has passed.
NoSkull(m) == [m EXCEPT !.skull = "none", !.end = 0]

\* clearPokemonPvpWhiteSkull.
ClearWhiteSkull(p) ==
  /\ p \in Present
  /\ clearAt[p] # None /\ clearAt[p] <= clock
  /\ SetMark(p, IF markedUntil[p] > clock
                THEN [Mark(p) EXCEPT !.clear = markedUntil[p]]
                ELSE LET m == [Mark(p) EXCEPT !.clear = None]
                     IN  IF m.skull = "white" THEN NoSkull(m) ELSE m)
  /\ UNCHANGED <<online, clock, tallyVars, fighting>>

\* As if a white skull ended with the fight.
EndFightAndMark(p) ==
  /\ p \in Present \intersect fighting
  /\ fighting' = fighting \ {p}
  /\ SetMark(p, IF skull[p] = "white" THEN [Mark(p) EXCEPT !.skull = "none"] ELSE Mark(p))
  /\ UNCHANGED <<online, clock, tallyVars>>

\* Player::onEndCondition, a while after the last attack.
EndFight(p) ==
  /\ p \in Present \intersect fighting
  /\ fighting' = fighting \ {p}
  /\ SetMark(p, IF skull[p] = "white" /\ skullEnd[p] <= clock
                THEN [Mark(p) EXCEPT !.skull = "none"] ELSE Mark(p))
  /\ UNCHANGED <<online, clock, tallyVars>>

\* Skull, storages and the condition are saved; the timer holds the id of a
\* creature that is gone.
LogoutOfPvp(p) ==
  /\ p \in Present
  /\ online' = online \ {p}
  /\ SetMark(p, [Mark(p) EXCEPT !.clear = None])
  /\ UNCHANGED <<clock, tallyVars, fighting>>

\* IOLoginData::loadPlayer.
LoginToPvp(p) ==
  /\ p \in Trainer \ online
  /\ online' = online \union {p}
  /\ LET m == [Mark(p) EXCEPT !.came = markedUntil[p] > clock]
     IN  SetMark(p, IF skullEnd[p] > clock THEN m ELSE NoSkull(m))
  /\ UNCHANGED <<clock, tallyVars, fighting>>

\* Timers run in time: their slack is far below the unit of the clock.
PassHour ==
  /\ clock < LastHour
  /\ \A p \in Present : clearAt[p] # None => clearAt[p] > clock
  /\ clock' = clock + 1
  /\ UNCHANGED <<online, markVars, tallyVars, fighting>>

PvpNext ==
  \/ PassHour
  \/ \E p \in Trainer :
       \/ ShowStatus(p) \/ ClearWhiteSkull(p) \/ EndFight(p)
       \/ LogoutOfPvp(p) \/ LoginToPvp(p)
       \/ \E q \in Trainer : Target(p, q) \/ Strike(p, q) \/ PokemonDies(p, q)

PvpSpec == online = Player /\ PvpInit /\ [][PvpNext]_pvpVars

-----------------------------------------------------------------------------
(* Properties.                                                             *)

\* The types of the state.
PvpTypeOK ==
  /\ clock \in Nat
  /\ skull \in [Trainer -> {"none", "white", "red", "black"}]
  /\ skullEnd \in [Trainer -> Nat] /\ markedUntil \in [Trainer -> Nat]
  /\ clearAt \in [Trainer -> Nat \union {None}]
  /\ frags \in [Killer -> [Span -> Nat]]
  /\ fighting \subseteq Trainer
  /\ cameMarked \in [Trainer -> BOOLEAN]

\* A mark shows as a skull as long as it lasts, through the end of the fight,
\* kills and red or black skulls in between.  Who logs in with a mark may have
\* lost the red skull over it.
MarksShow ==
  \A p \in Present : markedUntil[p] > clock => WearsSkull(p) \/ cameMarked[p]

\* A white skull goes when its time is over, whatever renewed it.  Who logs in
\* with one keeps it beyond its time: no timer is set.
WhiteSkullsEnd ==
  \A p \in Present :
    skull[p] = "white" /\ markedUntil[p] < clock => p \in fighting \/ cameMarked[p]

\* Days lie within weeks and months, so no counter of a longer span is behind
\* one of a shorter, although they start anew at different times.
CountersNest ==
  \A p \in Killer : frags[p]["day"] <= frags[p]["week"] /\ frags[p]["day"] <= frags[p]["month"]

\* Marks, skulls and counters agree with each other at any time.
MarksAreTrue == MarksShow /\ WhiteSkullsEnd /\ CountersNest

\* Where everybody else wears a skull nobody becomes an aggressor: neither the
\* attacks nor the kills of those who fight back open a mark.
DefendersStayInnocent ==
  [][\A p \in Present :
       ~IsAggressor(p) /\ (\A q \in Present \ {p} : WearsSkull(q)) =>
         ~IsAggressor(p)']_pvpVars

=============================================================================
