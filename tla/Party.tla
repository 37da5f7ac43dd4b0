------------------------------- MODULE Party -------------------------------
(***************************************************************************)
(* Parties and their chat channel (Src/party.cpp, the party requests of    *)
(* game.cpp, Player's list of invitations, and CHANNEL_PARTY of chat.cpp). *)
(* Every request is a task of the dispatcher, hence one step.              *)
(*                                                                         *)
(* A party is its address, for the map of channels is keyed by it and a    *)
(* new party may be allocated where an old one was.  roster[a] is leader   *)
(* followed by memberList, empty while there is no party at a.             *)
(***************************************************************************)
EXTENDS Players, Naturals, Sequences, SequencesExt

CONSTANT Address

ASSUME PartyAssumption == None \notin Address

VARIABLES
  roster, invites,   \* Party::leader, memberList and inviteList
  share,             \* sharedExpActive and sharedExpEnabled
  partyOf,           \* Player::party
  invitedBy,         \* Player::invitePartyList
  hears              \* users of the channel in Chat::m_partyChannels

partyVars == <<online, roster, invites, share, partyOf, invitedBy, hears>>

Members(a) == Range(roster[a])
Leads(p) == partyOf[p] # None /\ Head(roster[partyOf[p]]) = p
IsInviting(l, p) == Leads(l) /\ p \in invites[partyOf[l]]
Parties == {a \in Address : roster[a] # <<>>}

PartyInit ==
  /\ roster = [a \in Address |-> <<>>]
  /\ invites = [a \in Address |-> {}]
  /\ share = [a \in Address |-> "off"]
  /\ partyOf = [p \in Player |-> None]
  /\ invitedBy = [p \in Player |-> {}]
  /\ hears = [a \in Address |-> {}]

-----------------------------------------------------------------------------
(* The parts of requests.                                                  *)

\* As if the leader were company enough.
SharedAlone(s, n) == IF s = "off" THEN {"off"} ELSE {"active", "enabled"}

\* updateSharedExperience, of a party left with n players: the levels, places
\* and deeds of the members decide, but a leader alone shares with nobody.
SharedAfter(s, n) ==
  IF s = "off" THEN {"off"}
  ELSE {"active"} \union (IF n > 1 THEN {"enabled"} ELSE {})

\* What becomes of all parties when those in Ended disband, the others are
\* left with the rosters r and the invitations i, and p belongs to none.
\* disband takes everybody who has a client out of the channel first, as long
\* as getParty still names it.
Settle(Ended, r, i, p) ==
  /\ roster' = [a \in Address |-> IF a \in Ended THEN <<>> ELSE r[a]]
  /\ invites' = [a \in Address |-> IF a \in Ended THEN {} ELSE i[a]]
  /\ partyOf' = [q \in Player |->
       IF q = p \/ partyOf[q] \in Ended THEN None ELSE partyOf[q]]
  /\ invitedBy' = [q \in Player |-> {a \in invitedBy[q] \ Ended : q \in i[a]}]
  /\ share' \in [Address -> {"off", "active", "enabled"}]
  /\ \A a \in Address :
       IF a \in Ended THEN share'[a] = "off"
       ELSE IF p # None /\ partyOf[p] = a
            THEN share'[a] \in SharedAfter(share[a], Len(r[a]))
            ELSE share'[a] = share[a]

\* closeChannel is sent through the client, so whoever is not linked stays.
ClosedIn(Ended, p, linked) ==
  [a \in Address |->
     IF a \in Ended THEN hears[a] \ ((Members(a) \intersect linked) \ {p})
                    ELSE hears[a]]
Linked(Ended) == SUBSET (online \intersect UNION {hears[a] : a \in Ended})
Hear(Ended, p) == \E linked \in Linked(Ended) : hears' = ClosedIn(Ended, p, linked)

\* Party::leave.  A leader who goes hands over to the first member.
Without(p) == [a \in Address |-> RemoveFirst(roster[a], p)]

\* As if a leader alone could lead on.
DissolvesEmptyOnly(a, p) == RemoveFirst(roster[a], p) = <<>>

Dissolves(a, p) ==
  \/ RemoveFirst(roster[a], p) = <<>>
  \/ (Len(roster[a]) = 2 /\ invites[a] = {})

-----------------------------------------------------------------------------
(* The requests of players.                                                *)

\* playerInviteToParty founds the party if there is none yet.
InviteToParty(p, q) ==
  /\ p # q /\ {p, q} \subseteq online
  /\ ~IsInviting(q, p) /\ partyOf[q] = None
  /\ \E a \in Address :
       /\ \/ /\ partyOf[p] = None /\ roster[a] = <<>>
             /\ roster' = [roster EXCEPT ![a] = <<p>>]
             /\ partyOf' = [partyOf EXCEPT ![p] = a]
             /\ share' = [share EXCEPT ![a] = "off"]
          \/ /\ partyOf[p] = a /\ Leads(p) /\ q \notin invites[a]
             /\ UNCHANGED <<roster, partyOf, share>>
       /\ invites' = [invites EXCEPT ![a] = @ \union {q}]
       /\ invitedBy' = [invitedBy EXCEPT ![q] = @ \union {a}]
  /\ UNCHANGED <<online, hears>>

JoinParty(p, l) ==
  /\ {p, l} \subseteq online
  /\ IsInviting(l, p) /\ partyOf[p] = None
  /\ LET a == partyOf[l] IN
       /\ roster' = [roster EXCEPT ![a] = Append(@, p)]
       /\ partyOf' = [partyOf EXCEPT ![p] = a]
       /\ invites' = [invites EXCEPT ![a] = @ \ {p}]
       /\ invitedBy' = [invitedBy EXCEPT ![p] = @ \ {a}]
       /\ \E s \in SharedAfter(share[a], Len(roster[a]) + 1) :
            share' = [share EXCEPT ![a] = s]
  /\ UNCHANGED <<online, hears>>

\* playerRevokePartyInvitation.
RevokeInvitation(p, q) ==
  /\ {p, q} \subseteq online
  /\ IsInviting(p, q)
  /\ LET a == partyOf[p]
         i == [invites EXCEPT ![a] = @ \ {q}]
         Ended == IF Len(roster[a]) = 1 /\ i[a] = {} THEN {a} ELSE {}
     IN /\ Settle(Ended, roster, i, None)
        /\ Hear(Ended, None)
  /\ UNCHANGED online

PassLeadership(p, q) ==
  /\ {p, q} \subseteq online
  /\ Leads(p) /\ p # q /\ partyOf[q] = partyOf[p]
  /\ LET a == partyOf[p] IN
       /\ roster' = [roster EXCEPT ![a] = <<q>> \o RemoveFirst(@, q)]
       /\ \E s \in SharedAfter(share[a], Len(roster[a])) :
            share' = [share EXCEPT ![a] = s]
  /\ UNCHANGED <<online, invites, partyOf, invitedBy, hears>>

\* playerLeaveParty: allowed only outside a fight.
LeaveParty(p) ==
  /\ p \in online /\ partyOf[p] # None
  /\ LET a == partyOf[p]
         Ended == IF Dissolves(a, p) THEN {a} ELSE {}
     IN /\ Settle(Ended, Without(p), invites, p)
        /\ Hear(Ended, p)
  /\ UNCHANGED online

SetSharedExperience(p, on) ==
  /\ p \in online /\ Leads(p)
  /\ LET a == partyOf[p] IN
       /\ (share[a] # "off") # on
       /\ \E s \in SharedAfter(IF on THEN "active" ELSE "off", Len(roster[a])) :
            share' = [share EXCEPT ![a] = s]
  /\ UNCHANGED <<online, roster, invites, partyOf, invitedBy, hears>>

\* A member moves, fights, heals or gains a level.
UpdateSharedExperience(p) ==
  /\ p \in online /\ partyOf[p] # None
  /\ LET a == partyOf[p] IN
       \E s \in SharedAfter(share[a], Len(roster[a])) :
         share' = [share EXCEPT ![a] = s]
  /\ UNCHANGED <<online, roster, invites, partyOf, invitedBy, hears>>

-----------------------------------------------------------------------------
(* The channel.                                                            *)

\* A member opens the party channel, which getChannelList has created.
OpenPartyChannel(p) ==
  /\ p \in online /\ partyOf[p] # None
  /\ hears' = [hears EXCEPT ![partyOf[p]] = @ \union {p}]
  /\ UNCHANGED <<online, roster, invites, share, partyOf, invitedBy>>

\* Only the channel of the present party is ever found.
ClosePartyChannel(p) ==
  /\ p \in online /\ partyOf[p] # None
  /\ hears' = [hears EXCEPT ![partyOf[p]] = @ \ {p}]
  /\ UNCHANGED <<online, roster, invites, share, partyOf, invitedBy>>

-----------------------------------------------------------------------------
(* Players come and go.                                                    *)

\* As if invitations were not declined.
LogoutKeepingInvitations(p) ==
  /\ p \in online
  /\ LET Ended == {a \in Address : a = partyOf[p] /\ Dissolves(a, p)}
     IN /\ Settle(Ended, Without(p), invites, p)
        /\ hears' = [a \in Address |-> hears[a] \ {p}]
  /\ online' = online \ {p}

\* As if the channels were left only through the party.
LogoutKeepingChannel(p) ==
  /\ p \in online
  /\ LET i == [a \in Address |-> invites[a] \ {p}]
         Ended == {a \in invitedBy[p] : Len(roster[a]) = 1 /\ i[a] = {}}
                  \union {a \in Address : a = partyOf[p] /\ Dissolves(a, p)}
     IN Settle(Ended, Without(p), i, p) /\ Hear(Ended, p)
  /\ online' = online \ {p}

\* Player::onCreatureDisappear: invitations are declined, then the party is
\* left, then every channel.
LogoutOfParty(p) ==
  /\ p \in online
  /\ LET i == [a \in Address |-> invites[a] \ {p}]
         Ended == {a \in invitedBy[p] : Len(roster[a]) = 1 /\ i[a] = {}}
                  \union {a \in Address : a = partyOf[p] /\ Dissolves(a, p)}
     IN /\ Settle(Ended, Without(p), i, p)
        /\ \E linked \in Linked(Ended) :
             hears' = [a \in Address |-> ClosedIn(Ended, p, linked)[a] \ {p}]
  /\ online' = online \ {p}

LoginToParty(p) ==
  /\ p \notin online
  /\ online' = online \union {p}
  /\ UNCHANGED <<roster, invites, share, partyOf, invitedBy, hears>>

\* A client that takes over from another (ProtocolGame::login) finds all
\* channels left.
TakeOverInParty(p) ==
  /\ p \in online
  /\ hears' = [a \in Address |-> hears[a] \ {p}]
  /\ UNCHANGED <<online, roster, invites, share, partyOf, invitedBy>>

PartyNext ==
  \/ \E p, q \in Player :
       InviteToParty(p, q) \/ JoinParty(p, q) \/ RevokeInvitation(p, q)
       \/ PassLeadership(p, q)
  \/ \E p \in Player :
       \/ LeaveParty(p) \/ UpdateSharedExperience(p)
       \/ \E on \in BOOLEAN : SetSharedExperience(p, on)
       \/ OpenPartyChannel(p) \/ ClosePartyChannel(p)
       \/ LogoutOfParty(p) \/ LoginToParty(p) \/ TakeOverInParty(p)

PartySpec == online = Player /\ PartyInit /\ [][PartyNext]_partyVars

-----------------------------------------------------------------------------
(* Properties.                                                             *)

\* The types of the state.
PartyTypeOK ==
  /\ online \subseteq Player
  /\ roster \in [Address -> Seq(Player)]
  /\ invites \in [Address -> SUBSET Player]
  /\ share \in [Address -> {"off", "active", "enabled"}]
  /\ partyOf \in [Player -> Address \union {None}]
  /\ invitedBy \in [Player -> SUBSET Address]
  /\ hears \in [Address -> SUBSET Player]

\* Both sides of a party agree, with plain pointers in both directions: a
\* player's party lists her, once, and everybody it lists is in the game and
\* has it for her party.  So do both sides of an invitation.
SidesAgree ==
  /\ \A a \in Address :
       /\ IsInjective(roster[a])
       /\ Members(a) = {p \in online : partyOf[p] = a}
  /\ \A p \in Player, a \in Address :
       a \in invitedBy[p] <=> p \in invites[a] /\ p \in online

\* canDisband: no party is left of a leader alone, who waits for nobody.
PartiesServeSomebody ==
  \A a \in Parties : Len(roster[a]) > 1 \/ invites[a] # {}

\* A leader never shares with nobody: shared experience is enabled only in a
\* party that has members, through every leave and handing over.
SharedWithMembers == \A a \in Address : share[a] = "enabled" => Len(roster[a]) > 1

\* The channel of a party keeps plain pointers to those who hear it, companions
\* or not: it outlives the party, and whoever left that before her channel, but
\* points to nobody who has left the game.
HearersArePresent == \A a \in Address : hears[a] \subseteq online

\* Players and parties name each other, through every way to come and go, and
\* nothing of a party outlasts its use.
PartiesAreWhole ==
  /\ SidesAgree
  /\ PartiesServeSomebody
  /\ SharedWithMembers
  /\ HearersArePresent

=============================================================================
