-------------------------------- MODULE Rent --------------------------------
(***************************************************************************)
(* The rent of a house (Houses::payHouse and payRent of Src/house.cpp), at *)
(* every start and every global save.  The owner of whom nothing is known  *)
(* any more, the guild and the owner without premium time are the same:    *)
(* the house is lost at once.                                              *)
(***************************************************************************)
EXTENDS Players, Integers

CONSTANTS
  Period,         \* days a rent is paid for
  WarningsLimit,  \* letters before the house is lost
  Renter,         \* bound: the players who rent the house
  LastDay, Funds  \* bounds: days, and rents a player can afford

ASSUME RentAssumption ==
  /\ Period \in Nat \ {0} /\ {WarningsLimit, LastDay, Funds} \subseteq Nat
  /\ Renter \subseteq Player

Never == -1

VARIABLES
  today,
  tenant,                    \* House::owner
  paidUntil, lastWarning, rentWarnings,
  funds,                     \* balance and depot, as they are stored
  ultimatum                  \* history: "Have it within" that day

rentVars == <<online, today, tenant, paidUntil, lastWarning, rentWarnings,
              funds, ultimatum>>

RentInit ==
  /\ today = 0 /\ tenant = None
  /\ paidUntil = 0 /\ lastWarning = Never /\ rentWarnings = 0
  /\ funds = [p \in Renter |-> 0]
  /\ ultimatum = Never

\* As if the counters came with the house.
MovesOnly(o) ==
  /\ tenant' = o
  /\ UNCHANGED <<paidUntil, rentWarnings, lastWarning>>
  /\ ultimatum' = Never

\* setOwnerEx.
Moves(o) ==
  /\ tenant' = o
  /\ IF tenant = None THEN UNCHANGED <<paidUntil, rentWarnings>>
     ELSE paidUntil' = 0 /\ rentWarnings' = 0
  /\ lastWarning' = IF o = None THEN Never ELSE today
  /\ ultimatum' = Never

Rented(o) ==
  /\ o # tenant /\ Moves(o)
  /\ UNCHANGED <<online, today, funds>>

NextDay ==
  /\ today < LastDay
  /\ today' = today + 1
  /\ UNCHANGED <<online, tenant, paidUntil, lastWarning, rentWarnings, funds,
                 ultimatum>>

Earn(p) ==
  /\ funds[p] < Funds
  /\ funds' = [funds EXCEPT ![p] = @ + 1]
  /\ UNCHANGED <<online, today, tenant, paidUntil, lastWarning, rentWarnings,
                 ultimatum>>

ComeOrGo(p) ==
  /\ online' = IF p \in online THEN online \ {p} ELSE online \union {p}
  /\ UNCHANGED <<today, tenant, paidUntil, lastWarning, rentWarnings, funds,
                 ultimatum>>

-----------------------------------------------------------------------------
Due == tenant # None /\ paidUntil <= today

Forfeit ==
  /\ Due /\ Moves(None)
  /\ UNCHANGED <<online, today, funds>>

\* An owner who is not in the game is loaded for the purpose and not saved.
PayRent ==
  /\ Due /\ funds[tenant] > 0
  /\ paidUntil' = today + Period
  /\ funds' = IF tenant \in online THEN [funds EXCEPT ![tenant] = @ - 1] ELSE funds
  /\ UNCHANGED <<online, today, tenant, lastWarning, rentWarnings, ultimatum>>

Unpaid ==
  /\ Due /\ funds[tenant] = 0
  /\ lastWarning = Never \/ today > lastWarning

Warn ==
  /\ Unpaid /\ rentWarnings < WarningsLimit
  /\ rentWarnings' = rentWarnings + 1
  /\ lastWarning' = today
  /\ ultimatum' = today + WarningsLimit - rentWarnings
  /\ UNCHANGED <<online, today, tenant, paidUntil, funds>>

Evict ==
  /\ Unpaid /\ rentWarnings >= WarningsLimit
  /\ Moves(None)
  /\ UNCHANGED <<online, today, funds>>

RentNext ==
  \/ \E o \in Renter \union {None} : Rented(o)
  \/ \E p \in Renter : Earn(p) \/ ComeOrGo(p)
  \/ NextDay \/ Forfeit \/ PayRent \/ Warn \/ Evict

RentSpec == online = Player /\ RentInit /\ [][RentNext]_rentVars

-----------------------------------------------------------------------------
(* Properties.                                                             *)

\* The types of the state.
RentTypeOK ==
  /\ today \in Nat /\ tenant \in Renter \union {None}
  /\ paidUntil \in Nat /\ lastWarning \in Nat \union {Never}
  /\ rentWarnings \in 0..WarningsLimit
  /\ funds \in [Renter -> Nat]
  /\ ultimatum \in Nat \union {Never}

\* "Have it within n days or you will lose your house": nobody is evicted
\* before the days of the last letter are over, however often rents are
\* collected, and the counters of one owner never tell against the next.
LettersKeepTheirWord == [][Evict => ultimatum # Never /\ today >= ultimatum]_rentVars

=============================================================================
