---------------------------- MODULE WaitingList ----------------------------
(***************************************************************************)
(* The queue of players at the door (Src/waitlist.cpp).  An entry is known *)
(* by the name of the player and the address it came from.                 *)
(***************************************************************************)
EXTENDS Players, Naturals, Sequences, FiniteSets, SequencesExt

CONSTANTS
  MaxPlayers,    \* maxPlayers of the configuration
  Premium,       \* players whose premium time lasts
  PremiumSkips   \* premiumPlayerSkipWaitList of the configuration

ASSUME WaitingAssumption ==
  /\ MaxPlayers \in Nat /\ PremiumSkips \in BOOLEAN
  /\ Premium \subseteq Player

VARIABLE waitList

Entry(p, ip) == [name |-> p, ip |-> ip]
Named(w, p, ip) == w.name = p /\ w.ip = ip

\* cleanup removes every entry whose time is over.
Cleanup(list) ==
  LET kept[i \in 0..Len(list)] ==
        IF i = 0 THEN <<>>
        ELSE IF list[i].late THEN kept[i - 1] ELSE Append(kept[i - 1], list[i])
  IN kept[Len(list)]

\* find: the place of the player, 0 if there is none.
Slot(list, p, ip) == SelectInSeq(list, LAMBDA w : Named(w, p, ip))

\* As if premium time did not count.
AtTheEnd(list, p) == Len(list) + 1

\* A premium player is put before the first who is not.
Place(list, p) ==
  LET normal == SelectInSeq(list, LAMBDA w : w.name \notin Premium)
  IN IF p \in Premium /\ normal # 0 THEN normal ELSE Len(list) + 1

Waiter(p, ip) == [name |-> p, ip |-> ip, late |-> FALSE]
Enqueue(list, p, ip) == InsertAt(list, Place(list, p), Waiter(p, ip))

\* login.  Who has a place waits on until all before her fit in as well.
Privileged == AlwaysLogin \union (IF PremiumSkips THEN Premium ELSE {})
Skips(p) == p \in Privileged
             \/ (waitList = <<>> /\ Cardinality(online) < MaxPlayers)

\* As if those who wait in front did not count.
FitsAlone(list, s) == s # 0 /\ Cardinality(online) + 1 <= MaxPlayers

FitsIn(list, s) == s # 0 /\ Cardinality(online) + s <= MaxPlayers

Admits(p, ip) ==
  LET list == Cleanup(waitList)
      s == Slot(list, p, ip)
  IN \/ Skips(p) /\ UNCHANGED waitList
     \/ ~Skips(p) /\ FitsIn(list, s) /\ waitList' = RemoveAt(list, s)

\* As if whoever asks again began again.
PutsBack(p, ip) ==
  LET list == Cleanup(waitList)
      s == Slot(list, p, ip)
  IN /\ ~Skips(p) /\ ~FitsIn(list, s)
     /\ waitList' = Enqueue(IF s = 0 THEN list ELSE RemoveAt(list, s), p, ip)

PutsOff(p, ip) ==
  LET list == Cleanup(waitList)
      s == Slot(list, p, ip)
  IN /\ ~Skips(p) /\ ~FitsIn(list, s)
     /\ waitList' = IF s = 0 THEN Enqueue(list, p, ip) ELSE list

\* A limit passes: nobody has come back within getTime and 15 seconds.
LimitPasses(i) ==
  /\ i \in DOMAIN waitList /\ ~waitList[i].late
  /\ waitList' = [waitList EXCEPT ![i].late = TRUE]

-----------------------------------------------------------------------------
(* Properties.                                                             *)

\* Premium players wait in front of all others, and nobody has two places.
PremiumFirst ==
  /\ \A i, j \in DOMAIN waitList :
       i < j /\ waitList[j].name \in Premium => waitList[i].name \in Premium
  /\ \A i, j \in DOMAIN waitList :
       Named(waitList[i], waitList[j].name, waitList[j].ip) => i = j

\* Nobody loses a place she came back for in time: those behind her stay behind
\* her, through every arrival, admission and expiry.
Before(list, v, w) ==
  \E i, j \in DOMAIN list : i < j /\ Named(list[i], v.name, v.ip)
                                  /\ Named(list[j], w.name, w.ip)
OrderIsKept ==
  [][\A v, w \in Range(waitList) :
       Before(waitList, v, w) /\ ~v.late => ~Before(waitList', w, v)]_waitList

\* Whoever is let in by her place leaves room for all who waited before her,
\* and a newcomer finds nobody waiting.
Ahead(p, ip) ==
  LET s == Slot(Cleanup(waitList), p, ip)
  IN IF s = 0 THEN Len(waitList) ELSE s - 1

=============================================================================
