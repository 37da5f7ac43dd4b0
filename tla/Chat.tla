-------------------------------- MODULE Chat --------------------------------
(***************************************************************************)
(* Private chat channels (Src/chat.cpp and the requests of game.cpp about  *)
(* them).  A channel holds plain pointers to its users; every request is a *)
(* task of the dispatcher, hence one step.                                 *)
(***************************************************************************)
EXTENDS Players, Naturals

CONSTANT ChannelId    \* ids of private channels, 100 to 9999 in the code

ASSUME ChannelIdAssumption == ChannelId \subseteq Nat

VARIABLES
  owner, users, asked,  \* m_owner, m_users and m_invites of a private channel
  chatAlive             \* FALSE once the loop of a logout has gone wrong

chatVars == <<online, owner, users, asked, chatAlive>>

Channels == {c \in ChannelId : owner[c] # None}
Allowed(c) == asked[c] \union {owner[c]}
OwnChannel(p) == {c \in Channels : owner[c] = p}

ChatInit ==
  /\ owner = [c \in ChannelId |-> None]
  /\ users = [c \in ChannelId |-> {}] /\ asked = [c \in ChannelId |-> {}]
  /\ chatAlive = TRUE

-----------------------------------------------------------------------------

\* As if a player might own several.
CreateAnother(p) ==
  /\ p \in online
  /\ \E c \in ChannelId \ Channels :
       /\ owner' = [owner EXCEPT ![c] = p]
       /\ asked' = [asked EXCEPT ![c] = {}]
       /\ users' = [users EXCEPT ![c] = {p}]
  /\ UNCHANGED <<online, chatAlive>>

\* createChannel takes the lowest free id; the script on joining may keep even
\* the owner out, the channel stays.
CreatePrivateChannel(p) ==
  /\ p \in online /\ OwnChannel(p) = {}
  /\ \E c \in ChannelId \ Channels :
       /\ \A d \in ChannelId \ Channels : c <= d
       /\ owner' = [owner EXCEPT ![c] = p]
       /\ asked' = [asked EXCEPT ![c] = {}]
       /\ \E u \in {{}, {p}} : users' = [users EXCEPT ![c] = u]
  /\ UNCHANGED <<online, chatAlive>>

\* playerChannelInvite and playerChannelExclude find players in the game only.
InviteToChannel(p, q) ==
  /\ {p, q} \subseteq online /\ p # q
  /\ \E c \in OwnChannel(p) : asked' = [asked EXCEPT ![c] = @ \union {q}]
  /\ UNCHANGED <<online, owner, users, chatAlive>>

ExcludeFromChannel(p, q) ==
  /\ {p, q} \subseteq online /\ p # q
  /\ \E c \in OwnChannel(p) :
       /\ q \in asked[c]
       /\ asked' = [asked EXCEPT ![c] = @ \ {q}]
       /\ users' = [users EXCEPT ![c] = @ \ {q}]
  /\ UNCHANGED <<online, owner, chatAlive>>

OpenChannel(p, c) ==
  /\ p \in online
  /\ c \in Channels /\ p \in Allowed(c)
  /\ users' = [users EXCEPT ![c] = @ \union {p}]
  /\ UNCHANGED <<online, owner, asked, chatAlive>>

\* deleteChannel for the channels C, after p has left all others.
Cleared(f, C, nothing) ==
  [c \in ChannelId |-> IF c \in C THEN nothing ELSE f[c]]

\* As if the users were left to the next owner.
DeleteOwnerOnly(C, p) ==
  /\ owner' = Cleared(owner, C, None)
  /\ asked' = Cleared(asked, C, {})
  /\ users' = [c \in ChannelId |-> users[c] \ {p}]

Delete(C, p) ==
  /\ owner' = Cleared(owner, C, None)
  /\ asked' = Cleared(asked, C, {})
  /\ users' = [c \in ChannelId |-> Cleared(users, C, {})[c] \ {p}]

\* removeUserFromChannel: an owner who was a user takes the channel along.
CloseChannel(p, c) ==
  /\ p \in online
  /\ c \in Channels /\ p \in Allowed(c) /\ p \in users[c]
  /\ IF owner[c] = p
     THEN Delete({c}, None)
     ELSE users' = [users EXCEPT ![c] = @ \ {p}] /\ UNCHANGED <<owner, asked>>
  /\ UNCHANGED <<online, chatAlive>>

\* As if the own channel were spared, for its users' sake.
LeaveJoinedChannels(p) == Delete({}, p) /\ chatAlive' = TRUE

\* removeUserFromAllChannels.  Deleting the own channel erases the element the
\* loop stands on; the increment that follows is undefined.
LeaveAllChannels(p) ==
  /\ Delete(OwnChannel(p), p)
  /\ chatAlive' \in IF OwnChannel(p) = {} THEN {TRUE} ELSE BOOLEAN

-----------------------------------------------------------------------------
(* Players come and go.                                                    *)

\* Player::onCreatureDisappear.
LogoutOfChat(p) ==
  /\ p \in online
  /\ LeaveAllChannels(p)
  /\ online' = online \ {p}

LoginToChat(p) ==
  /\ p \notin online
  /\ online' = online \union {p}
  /\ UNCHANGED <<owner, users, asked, chatAlive>>

\* A second client takes the player over (ProtocolGame::login).
TakeOverInChat(p) ==
  /\ p \in online
  /\ LeaveAllChannels(p)
  /\ UNCHANGED online

ChatNext ==
  /\ chatAlive
  /\ \E p \in Player :
       \/ CreatePrivateChannel(p)
       \/ LogoutOfChat(p) \/ LoginToChat(p) \/ TakeOverInChat(p)
       \/ \E q \in Player : InviteToChannel(p, q) \/ ExcludeFromChannel(p, q)
       \/ \E c \in ChannelId : OpenChannel(p, c) \/ CloseChannel(p, c)

ChatSpec == online = Player /\ ChatInit /\ [][ChatNext]_chatVars

-----------------------------------------------------------------------------
(* Properties.                                                             *)

\* The types of the state.
ChatTypeOK ==
  /\ online \subseteq Player
  /\ owner \in [ChannelId -> Player \union {None}]
  /\ users \in [ChannelId -> SUBSET Player]
  /\ asked \in [ChannelId -> SUBSET Player]
  /\ chatAlive \in BOOLEAN

\* No channel keeps a pointer to a player who has left the game: a private
\* channel ends with its owner's stay, and users leave before they go.
ListenersArePresent ==
  \A c \in Channels : owner[c] \in online /\ users[c] \subseteq online

\* Everybody owns one channel at most, and only those are in it who are asked,
\* whatever invitations, exclusions and reopenings came before.
ChannelsAreTheirOwners ==
  /\ \A c \in Channels : users[c] \subseteq Allowed(c)
  /\ \A c, d \in Channels : owner[c] = owner[d] => c = d

\* What all the properties need of a channel that does not exist.
NothingLeftBehind ==
  \A c \in ChannelId \ Channels : users[c] = {} /\ asked[c] = {}

\* A private channel has one owner who has no other, and neither listeners nor
\* invitations outlast what they are for.
ChannelsAreSound ==
  /\ ListenersArePresent
  /\ ChannelsAreTheirOwners
  /\ NothingLeftBehind

\* Together they are inductive.
ChatInvariant ==
  ChatTypeOK /\ ListenersArePresent /\ ChannelsAreTheirOwners /\ NothingLeftBehind

=============================================================================
