# Verification of the PokeZOt server

PokeZOt is an OpenTibia server (The Forgotten Server 0.3.6) with Pokémon game
rules written in Lua. `Src/` is the C++ server, `data/` and `mods/` hold its
scripts and content, `doc/` its manuals. This directory models the parts of the
server whose correctness depends on the order of events, checks the models with
TLC and proves the main results with TLAPS.

Contents: [the system](#1-the-system), [plan](#2-plan),
[models](#3-the-models), [runs](#4-the-runs), [fairness](#5-fairness),
[proofs](#6-the-proofs), [disagreements](#7-where-code-and-text-disagree),
[limits](#8-what-is-not-modelled).

## 1. The system

Three threads share the work:

- the **dispatcher thread** (`tasks.cpp`) runs the whole game, one task after
  the other, and ends every task with `OutputMessagePool::sendAll`;
- the **scheduler thread** (`scheduler.cpp`) sleeps until the next timed event
  is due and hands it to the dispatcher as a task;
- the **service thread** (`server.cpp`, boost::asio) accepts connections, reads
  packets, finishes writes and runs the connections' timers. A packet becomes
  tasks of the dispatcher.

Signal handlers (`otserv.cpp:174-218`) run on whichever thread is interrupted.

| component | state | operations | meets | hard about it | correct when |
|---|---|---|---|---|---|
| Scheduler (`scheduler.cpp`) | heap of events, set of live ids, thread state | addEvent, stopEvent, stop, shutdown, thread | dispatcher (hand-over), every caller | condition variable, notify after unlock, lazy removal, id wrap | an event fires once or is cancelled, never early, never lost |
| Dispatcher (`tasks.cpp`) | task list, thread state | addTask front or back, stop, shutdown, flush, thread | everybody | notify only on an empty list, shutdown from a task, flush under the lock | order kept, nothing lost or repeated, it ends |
| Game connection (`connection.cpp`, `protocol.cpp`, `outputmessage.cpp`) | connection state, pending reads and writes, timers, reference counts, message queues | accept, parse, send, onWrite, timeouts, close, release | service and dispatcher threads, pool | two threads, queued plain pointers, aborted operations | one write at a time, no use after deletion, every close completes |
| Ports and services (`server.cpp`) | acceptors, protocols per port, running | open, accept, handle, close, run, stop | connection manager | accept errors and re-open by timer | a port is accepting or about to be reopened |
| Connection manager (`connection.cpp:40-183`) | connections, login and connect counters per address | create, release, isDisabled, addAttempt, acceptConnection | connections, login | counters over time | limits hold, no connection stays listed |
| Game session (`protocolgame.cpp:61-566`) | player, m_eventConnect, m_acceptPackets, Player::client, isConnecting | login, connect, logout, release | waiting list, scheduler, game | takeover of a logged-in player a second later | at most one client per player, no player without way out |
| Waiting list (`waitlist.cpp`) | ordered list with time limits | login, cleanup, getSlot | game session | slots shift, limits pass | order kept among equals, nobody admitted beyond the limit |
| Other protocols (login, status, admin, old, http, gameservers) | admin: login and encryption | one request, one answer | connection | – | – |
| Game state, shutdown, global save (`game.cpp:169-240, 6702-6804`) | gameState, three messages | setGameState, prepareGlobalSave, shutdown | all three threads | queued state changes, game code in signal handlers | a save sees a closed game, a shutdown ends |
| Player trade and house sale (`game.cpp:3180-3596`, `player.cpp` hooks, `talkaction.cpp`, `house.cpp`) | state, partner and goods of each player, register of goods, house owners | request, accept, close, every hook that closes a trade, sell, buy, leave | item moves, movement, logout, scripts | the goods live on in the game while they are offered | partners agree, nobody is cheated, a swap is whole |
| Cylinders: containers, inventory, tiles (`container.cpp`, `player.cpp`, `tile.cpp`, `game.cpp:1423-2180`), depots, mailbox | things and their parents, weights, counted balls, container windows | query, add, update, remove, move, exchange, open, close | everything | a move searches, splits, exchanges and notifies in many steps; clients name things by window and index | every thing is in one place; weights, counts and windows tell the truth |
| Items and decay (`item.cpp`, `game.cpp`) | decay buckets, the items to be put into one, references | startDecay, checkDecay, cleanup, transformItem | scheduler, equipment, scripts | an item changes, pauses or goes while it is on a list; the buckets go round | decays once, not early, not late; a list entry is a reference |
| Creatures, monsters, NPCs, players | check vectors, target lists, masters, reference counts | place, walk, see, harm, check, die, remove | game, scheduler, spawns | death in one task, onDeath in a later one; counted and plain pointers to each other | every object lives as long as somebody refers to it, and the dead are found |
| Combat, spells, weapons, conditions | conditions per creature | add, merge, execute, end | creatures | merge and end orders | an ended condition leaves no trace |
| Party (`party.cpp`) | leader, members, invitations | invite, join, leave, pass, disband | players | disband while leaving | all sides agree on membership |
| Houses (`house.cpp`, `beds.cpp`) | owner, rent, lists, sleepers | setOwner, payHouses, kick, sleep, wake | trade, global save | rent while online, owner change | no tenant inside another's house |
| Spawns and raids | spawned set, raid state | spawn, check, raid events | scheduler | respawn while cleared | capacity kept |
| Chat, guilds | channels, invitations | join, leave, invite, exclude | players | private channel of a leaving owner | members only |
| Bans, accounts, map storage, databases | database rows | load, save | players, houses | failure half way | out of reach here |
| Quests, script events, Lua interface | storage values, registrations, timed Lua events | register, execute | everything | scripts that remove their own arguments | ids of the environment stay valid |
| Skulls and frags (`pvp system.lua`, `player.cpp`) | skull, its end, storages of marks, periods and frags | target, strike, death of a pokémon, timers, login | players, scheduler | a timer of one stay and marks of many; days, weeks, months | who only fights back stays unmarked; marks and skulls agree |
| Ailments (`newStatusSyst.lua`) | storages of rounds, chains of timed events, ball attributes | afflict, tick, cure, call out | creatures, conditions | ailments overlap and each frees the creature of all | each runs out, and the last one gives back speed and movement |
| Balls (`goback.lua`, `pbar.lua`, `cdbar.lua`) | place, state and health of each ball, pokémon out, events of the bar | use, change, move, return, death, revive, heal, logout | items, creatures | changes due later, refused returns; whoever is told writes to the ball at the feet | one pokémon out per ball in use, and the ball tells its health |
| Other Pokémon systems (`data/lib/pokemon`, `data/actions/scripts/pokemon`, `data/lib/systems`) | attributes of balls, storage values | order, catch, evolve, duel | creatures, items | state kept in item attributes and storages over logout and death | a duel ends for both |
| Market (`mods/marketplayer.xml`) | offers in the database | offer, buy, cancel | items, balance | – | goods and money conserved |
| Configuration, tools, vendored digests, Windows GUI | – | – | – | – | – |

`PROJECT.json` lists every component with its sources and status, and under
`hazards` every place found so far where the code is hard to test, with the
properties that watch it or the reason why none does yet.

## 2. Plan

The order follows what everything else rests on: first the two threads that run
the game, then the connection between them and the network, then the protocols
between players, then the parts of the world that keep state over many tasks.

Done, in this order:

1. `Scheduler`, with the abstract `TimerService` it implements; `Dispatcher`,
   with the shutdown; `Connection`, one game connection on its two threads.
2. `Trade`: the trade of two players and the sale of a house.
3. `WaitingList`, `GameState` and, composed of them, `Session`: who plays whom
   through logins, takeovers, kicks, closings and saves.
4. The parts of the world: `Party`, `Chat`, `Reports`, `House`, `Rent`, `Raids`,
   `Spawns`, `Creatures`, `Pvp`, `Decay`, `Ailments`, `Balls`, `Containers`.

Left, by what it would add:

1. `TaskThreads`: Scheduler and Dispatcher composed (`HandOver` is `AddTask`),
   and the two locks of `sendAll` and `parsePacket`, whose order differs.
2. `Conditions`: merging and ending of the engine's conditions
   (`condition.cpp`, `creature.cpp:1308-1453`); two INFIGHT conditions of
   different ids, of which the end of one clears the lock of the other.
3. Depots, mailboxes, trash holders and teleports, the cylinders that
   `Containers` lacks.
4. `ConnectionManager`, ports and services; the market.

Theorems left: what is in containers is never lost, weights, counted balls and
windows (`BelongingsAreTrue`, of which only `RoomForAll` is proved).

## 3. The models

`MC<Module>` modules only give constants their values for TLC. Operators that
stand directly before a definition and look like it (`PopUnchecked` before
`Pop`, or those whose comment begins "As if") are slips the code could contain;
each property is checked to notice one. Everything the game does runs in tasks
of the dispatcher, one after the other, so outside Scheduler, Dispatcher and
Connection a handler is one step with all it calls; what interleaves are tasks,
timers and clients. Many modules keep *history*: variables the code does not
have, marked so where they are declared, which remember what a property needs.

### Scheduler

One action is one critical section under `m_eventLock`.

| model | code |
|---|---|
| `status[t] = "queued"`, `expiration` | `m_eventList`, a heap ordered by due time; ties in any order (`Tops`) |
| `eventIds`, `lastEvent` | `m_eventIds`, `m_lastEvent`; `MaxEventId` stands for 0xFFFFFFFF |
| `pc` = loop, enter, wait / timed, woken, handover | the thread before its loop test, before the lock, in `wait` / `timed_wait`, after `wait` returned, after the unlock |
| `notifying` | callers between the unlock and `notify_one` in addEvent |
| `AddEvent`, `RefuseEvent`, `NotifyOne` | addEvent on a running, on a closed scheduler, and its last line |
| `StopEvent`, `Stop`, `Shutdown` | the methods of the same names |
| `LoopTest`, `Sleep`, `TakeTop`, `TakeFromEmpty`, `AwakeTerminated`, `HandOver` | one round of schedulerThread |
| `Tick`, `SpuriousWakeup` | time, and what a boost condition variable may do |

The thread tests `ret` after its wait. The untimed `wait` leaves it false,
which the code below takes for a timeout; the model keeps that: `Awake` holds
after an untimed wait and after a timed one that ran out. Calling `top` and
`pop` on an empty queue is undefined and ends the model's run in `"undefined"`.
`stopped` and `wrapped` are history variables.

`TimerService` is what callers rely on: an event is scheduled once, then fires
or is cancelled, and a shutdown forgets the rest. `ImplementsTimer` maps a task
to *pending* while it is queued and its id is live.

### Dispatcher

| model | code |
|---|---|
| `taskList`, `threadState` | `m_taskList`, `m_threadState` |
| `Front`, `Expiring`, `Adders` | tasks added with front = true, tasks with a time limit, tasks whose body calls addTask |
| `AddTask`, `RefuseTask`, `NotifyOne` | addTask from another thread |
| `Take`, `TakeAfterWait`, `TaskAdds`, `Finish` | one round of dispatcherThread |
| `Close`, `QueueShutdown`, `Stop` | the task `setGameState(GAME_STATE_SHUTDOWN)`: it queues Kill, then closes the dispatcher |
| `Kill`, `Term`, `Shutdown` | `Game::shutdown`, queued by Close or by the handler of SIGTERM |
| `FlushTake`, `FlushFinish`, `FlushHang`, `FlushEnd`, `Exit` | flush under `m_taskLock`, and the end of the process |

`m_taskLock` is a plain `boost::mutex`. flush holds it while it runs tasks, so
a flushed task that calls addTask waits for its own thread (`"hung"`).
`accepted` and `stamp` are history: the order in which addTask took the tasks.

### Trade

Every handler is a task of the dispatcher, so it is one step, with every trade
its moves close.

| model | code |
|---|---|
| `tradeState`, `tradePartner`, `tradeItem` | the members of Player with these names |
| `tradeItems` | `Game::tradeItems`, which good is offered by whom |
| `at`, `spot`, `online` | the parent of an item, the place of a player, who is logged in |
| `<<h, p>>`, `attached` | the transfer document of house h in the `transferContainer` of p, and whether that container has a parent |
| `shown` | what `sendTradeItemRequest` last told each client |
| `RequestTrade`, `SellHouse`, `StartTrade` | playerRequestTrade, houseSell, internalStartTrade |
| `AcceptAndWait`, `AcceptWithoutRoom`, `AcceptAndSwap` | playerAcceptTrade: first accept, room or a script missing, the exchange |
| `CloseTrade`, `CloseTrades`, `EndTrades` | playerCloseTrade, internalCloseTrade |
| `Walk`, `Logout`, `MoveItem` with `OutOfReach`, `Hears`, `Disturbed`, `Filled` | the hooks of Player that close a trade: onCreatureMove, onCreatureDisappear, on...Item |
| `BuyHouse`, `LeaveHouse`, `Transfer`, `Clear` | houseBuy, leavehouse.lua, TransferItem::onTradeEvent, House::setOwnerEx with clean |

A client accepts only when it was shown both offers (`BothShown`; the client is
not part of this repository). A trade script may refuse at any time.

### Connection

`m_connectionLock` is held for the length of a handler, so a handler is one
step; `sendAll` takes the lock per message, so it is one step per message.

| model | code |
|---|---|
| `connState`, `pendingRead`, `pendingWrite`, `readError`, `writeError` | the members of Connection |
| `reading`, `writing`, `readTimer`, `writeTimer` | the operations asio is busy with |
| `service` | handlers that are ready, in the order asio runs them |
| `msg[m]` | auto: in `m_autoSend`; waiting: in `m_addQueue`; writing: until onWrite; released: until internalReleaseMessage |
| `InUse` | the reference counts: a message in use holds one of the protocol and one of the connection |
| `outputBuffer` | `Protocol::m_outputBuffer`, the message the game still appends to |
| `closeTasks`, `releasing` | queued closeConnection tasks, a scheduled releaseConnection |
| `ParseHeader`, `ParsePacket`, `ReadFails`, `OnWrite`, `OnTimeout`, `OnStop` | the handlers of the service thread |
| `GameWrites`, `GameCloses`, `SendAll`, `DropOld`, `ReleaseMessage`, `CloseConnection`, `RetryProtocol`, `RetryRelease` | the dispatcher's side |

The model begins where `Connection::handle` ends: the protocol exists, its
greeting is being written and the first header read. Closing the socket queues
the aborted read and write handlers, behind those that are ready already.

### Players

Declares who exists and `online`, those in the game (`Player::autoList`). The
modules below extend it, so that all mean the same players.

### Session, WaitingList, GameState

| model | code |
|---|---|
| `conn`, `entered` | a protocol and its connection (open, closing, released), whether its login task has run |
| `plays`, `client` | `ProtocolGame::player` and `Player::client`, plain pointers to each other |
| `eventConnect`, `isConnecting` | the connect scheduled a second after a takeover, and the player's mark of it |
| `waitList` | WaitList, its entries known by name and address; `late` when the time limit is over |
| `gameState`, `orders`, `announced`, `saveIsDue` | `Game::gameState`, queued setGameState tasks, `globalSaveMessage`, the event of prepareGlobalSave |
| `LoginRefused`, `LoginPutOff`, `LoginPlaced`, `LoginReturns`, `LoginTakesOver` | the ways out of ProtocolGame::login |
| `Connect`, `ConnectTooLate`, `ConnectUnlinked` | ProtocolGame::connect, when the player has gone, when the client has |
| `Logout`, `IdleLogout`, `Kick`, `Disconnect` | the ways out of the game |
| `CloseConnection`, `ReleaseAgain` | the closing task and releaseProtocol, which waits for what still refers to it |
| `Skips`, `FitsIn`, `Place`, `PutsOff`, `LimitPasses` | WaitingList::clientLogin, its premium order and cleanup |
| `OrderState`, `SetGameState`, `AnnounceSave`, `GlobalSave` | Game::setGameState by a task, prepareGlobalSave, globalSave |

### Party

`roster`, `invites`, `share` are the members of Party, `partyOf` and
`invitedBy` those of Player, `hears` the users of its channel. Actions are the
requests (`InviteToParty`, `JoinParty`, `RevokeInvitation`, `PassLeadership`,
`LeaveParty`, `SetSharedExperience`, `UpdateSharedExperience`), the channel
(`OpenPartyChannel`, `ClosePartyChannel`) and `LogoutOfParty`, `LoginToParty`,
`TakeOverInParty`. `Settle` is `disband`, which a departure may end in.

### Chat and Reports

`owner`, `users`, `asked` are those of the private channels; a logout walks the
map of channels and erases from it (`LogoutOfChat`). `desk` are the users of the
report channel, `report` is `ruleViolations` with the gamemaster in charge,
`listed` what the window of each gamemaster shows. Actions bear the names of the
requests in `game.cpp` and `chat.cpp`.

### House and Rent

`houseOwner`, `subOwnerList`, `guestList`, `inside`, `sleeper`, `bedOf`
(`BedSleepersMap`) and `kicks` (scheduled by an edit of a list) make a house;
`SetOwnerEx` is a change with clean, `SetOwnerUnswept` without. `Rent` follows
one house through days: `PayRent`, `Warn`, `Evict` and `Forfeit` are the ways
through `payHouses`; `ultimatum` remembers the day the last letter promised.

### Raids and Spawns

| model | code |
|---|---|
| `running`, `eventCount`, `nextEvent`, `due` | `Raids::running`, `Raid::eventCount`, `nextEvent`, events in the scheduler |
| `raidOf` | the plain pointer of an invader to the raid that counts it |
| `StartRaid`, `ExecuteRaidEvent`, `Falls`, `ReloadRaids` | checkRaids and startRaid, executeRaidEvent with resetRaid, unRef by a death, reload |
| `key`, `atSpawn`, `life` | spawnedMap, `Monster::spawn`, the monster's object |
| `StartupSpawn`, `CheckSpawn`, `ClearSpawn`, `Vanish`, `Convince`, `Forget` | startup, checkSpawn, the deletion of spawns, removals, convincing, clearing of the map entry |

`neglected` marks blocks vacated in a way that starts no check.

### Creatures

One record `world`: stage, health, check vector, target lists, idleness, masters
and summons, reference counts, `releaseThings`. A handler calls many functions
that change several creatures, so these are operators from a world to a world:
`Place`, `Found`, `Left`, `Look`, `SetIdle`, `Kill`, `Die`, `Remove2`,
`Disappear`, `Destroy` (the destructors). Actions are the tasks: `PlaceMonster`,
`LoginCreature`, `PlaceSummon`, `CastSummon`, `ConvinceCreature`, `Walk`, `Harm`,
`BlackSkull`, `RemoveCreature`, `CheckCreatures` (one vector, in any order).
Creatures are assumed to be finitely many, as objects in memory are.

### Pvp

`skull` and `skullEnd` are Player's; `markedUntil`, `period`, `frags` are
storages that outlive the stay; `clearAt` is the timer of this stay. Actions:
`Target` and `Strike` (playerattack.lua, markPokemonPvpAttack), `PokemonDies`
(registers a frag), `ClearWhiteSkull`, `EndFight`, `ShowStatus`, `LogoutOfPvp`,
`LoginToPvp`, `PassHour`. Days, weeks, months and years begin as the constants
say, so that a week may end within a month and the year with it.

### Decay

`decay` holds the items (type, duration, mark, placed, references), the buckets,
`toDecayItems` and `releaseThings`. `CheckDecay` is one round of checkDecay with
the cleanup it ends in, `CleanupItems` the cleanup of the creature checks.
`CreateGood`, `UseGood` (a script or the equipment changes the type), `RemoveGood`,
`TakeAlong` and `BringBack` (a player leaves with an item and returns) are what
happens meanwhile. What a function does to one item has an operator of its own
(`NewGood`, `NewID`, `Started`, `Paid`, `GoneOut`, `Unreferred`, `Aged`, `Back`), so that it can
be reasoned about apart from the lists. `Keeping` are the types under which
`Item::setID` leaves the time of another as it is. A step needs as many free objects
as it can take (`RoomForOne`, `RoomForTwo`); in the run one is always free.

### Ailments

The patient is a player or a summon. `rounds` are its storage values, `ticks` the
events under way for each ailment, `soon` the short ones (the slowness that comes
back after 10 ms, the speed that is restored after 50), `slowed` the engine's
PARALYZE condition, `own` whether the speed without it is the normal one, `still`
is `mayNotMove`, `ball` what the ball remembers. `Apply` is one call of an
ailment's function: a refresh, the end (`Ended`) or another second (`Suffers`).
Actions: `Afflict`, `Tick`, `SoonEvent`, `ConditionEnds`, `CureStatus`,
`UseMedicine`, `NurseHeals`, `CallOut` and `Restore` (adjustStatus), `LeaveAndReturn`.
Events come in any order, which allows more than their times do.

### Balls

A ball is what it contains, since a change of balls moves the content from item to
item: `place` is its slot or the bag, `ball` the state that the item's type shows,
`fit` that its attribute `hp` is not 0. `out` are the player's summons, the first
one first; `later` the events that `/goaction` left to the scheduler. `UseBall` is
goback.lua, `Bar` a number of the pokébar with both calls of `volta` and
`Game::doMoveBar` in between, `GoAction`, `ReturnLater` and `ChangeLater` the other
bar, `MoveBall` the player's own moves; then `SummonDeath`, `LogoutWithPokemon`,
`HealthChange`, `Revive`, `NurseHealsBalls`. History: `tidy`, no ball in use has
left the feet since everything was last back in its ball.

### Containers

A thing is a stack of coins (its size), a ball with a pokémon or a bag. One
record `goods`, since a handler calls many functions that change several parts of
it; each is an operator from such a record to the next.

| model | code |
|---|---|
| `inside`, `worn`, `weight`, `balls` | `itemlist`, `inventory`, `totalWeight`, `pokeballsCount` |
| `window`, `screen` | `containerVec`, and what the client was last told of each window |
| `near` | the players next to the one square of ground; the carrier is near whom he can show his bags |
| `QueryAdd`, `QueryMaxCount`, `Onward` | `__queryAdd`, `__queryMaxCount`, `__queryDestination` of Container, Player and Tile |
| `Put`, `AddThing`, `UpdateThing`, `RemoveThing`, `Told` | `__addThing`, `__updateThing`, `__removeThing`, with what they send |
| `PostAdd`, `PostRemove` | the notifications that follow: windows sent anew or closed, balls counted |
| `InternalMoveItem` (`Exchanged`, `Carried`), `InternalAddItem`, `InternalRemoveItem`, `RemoveMoney` | the functions of Game |
| `Move`, `UseContainer`, `MoveUpContainer`, `UpdateContainer`, `CloseContainer`, `ComeNearOrGo` | what players do |
| `Give`, `Take`, `Pay` | what scripts do |

`meant` is history: what there should be after all that was given and taken.
When a client uses a bag on which it has two windows it shuts both and the server
forgets one (`actions.cpp:517-521`); the other stays in `containerVec` until it is
used again, and the model keeps it there.

### MCWorld

The parts of the world share only who is in the game, and no property speaks of
two of them. Each behaviour of `MCWorld` therefore plays one `scene`: one part
moves from its own initial state, the others stand still. What other parts would
do between two steps changes nothing for a property that does not see them, so
the states to visit are the sum of the parts, not their product. Logins and
logouts are part of every scene that hears of them. `WorldView` leaves the parts
that stand still out of what tells states apart; they never leave their initial
states, so no two states of a scene are taken for one.

## 4. The runs

| run | expects | properties | shows |
|---|---|---|---|
| `Scheduler_safety` | pass | StopsAreHonoured, WakesInTime, ImplementsTimer, EventLeavesQueue | stopped events never run, live ones keep their id, no wake-up is lost, a timeout finds a due event, the timer service is implemented, every event leaves the queue |
| `Scheduler_early` | violation | FiresOnlyWhenDue | an event may be run before it is due |
| `Scheduler_empty` | violation | AlwaysAnEventToExecute | the empty queue may be asked for its top |
| `Dispatcher_safety` | pass | QueueIsHonest, NoLostWakeup, ExitLeavesNothing, TaskIsTaken | order, no loss, no repetition, no lost wake-up, a complete flush, every task taken unless the shutdown hangs |
| `Dispatcher_sigterm` | violation | SigtermEndsTheProcess | SIGTERM may leave the process hanging |
| `Connection_safety` | pass | OneWrite, MessagesAreSafe, OpenListens, StopIsLast, ClosedIsReleased | one write at a time, sealed messages, an open connection listens, deletion comes last and once, every close completes |
| `Connection_limit` | violation | RateLimitDisconnects | exceeding the packet limit does not disconnect |
| `Trade_safety` | pass | TradesAgree, OffersStand, SwapIsWhole | partners agree, the register is exact, offers stay apart, at hand and as shown, a swap is whole |
| `Trade_second_house` | violation | OneHouseEach | a player may get a second house |
| `Trade_stale_deed` | violation | OwnerSells | an old transfer document may take a house from its new owner |
| `Session_safety` | pass | SessionsAreTrue, WaitingIsFair, ClosedWorldIsEmpty, ClosingsEnd | plain pointers between clients, players and scheduled connects hold; places are granted in order; nobody plays in a closed world; every protocol is deleted, and a save reopens the world |
| `World_safety` | pass | PartiesAreWhole, ChannelsAreSound, ReportsAreTrue, HouseIsKept, LettersKeepTheirWord, RaidsAreOrderly, SpawnsAreExact, CreaturesAreKept, MarksAreTrue, DefendersStayInnocent, DecayIsTrue, AilmentsPass, BallsAgree, BelongingsAreTrue | the parts of the world, see below |

Each passing run checks its type invariant, too. What the properties of the
world say:

- `PartiesAreWhole`: members, leader and invitations agree from both sides; a
  party has somebody in it, shares only with members, and its channel has no
  listener who is gone.
- `ChannelsAreSound`, `ReportsAreTrue`: no pointer to a player who left, one
  private channel each, no channel without its owner; every open report is in
  every gamemaster's window, and closed ones are in none.
- `HouseIsKept`: nobody stays inside without a right, but for the tick until a
  kick and for owners who lost the house without a clean; a right does not
  outlive the owner who gave it; the register of sleepers wakes the right one.
  `LettersKeepTheirWord`: who is evicted had the days the last letter gave.
- `RaidsAreOrderly`: the running raid has an event or invaders to wait for,
  begins at its first event, and is the only one. `SpawnsAreExact`: a block has
  one monster at most, spawn and monster know each other, and a missing one is
  looked for.
- `CreaturesAreKept`: the reference counts are the pointers there are, and no
  removed objects keep each other; the dead are found by a check, and a monster
  that sleeps has no target.
- `MarksAreTrue`: who has a mark shows its skull, a white skull has a timer, the
  counters of day, week and month nest. `DefendersStayInnocent`: who only strikes
  back at the marked gets no mark.
- `DecayIsTrue`: nothing lasts longer or shorter than its time, pauses counted
  out, and every list entry is a reference.
- `AilmentsPass`: rounds are left only where an event counts them down; when
  nothing is left of any ailment the creature has its speed and may move; a
  summon that is called back loses nothing of what it suffers from.
- `BallsAgree`: each slot holds one ball; and as long as no ball in use leaves the
  feet, one pokémon is out, of the one ball in use, and every ball shows whether
  its pokémon can fight.
- `BelongingsAreTrue`: whatever is moved, stacked, exchanged, given, taken or paid,
  no coin, ball or bag is lost or doubled, no container is overfull, weights and
  the counted balls are those of what is there, and no more balls are carried than
  allowed; a window is on a container its player can reach and shows what it holds.

Bounds, and why they are enough:

- Scheduler: two tasks, clock up to 4, delays 0 and 3 with a minimum of 1, ids
  up to 2. One event may be added before or behind another, be due at the same
  time, be stopped or fire while the other sleeps, arrive between unlock and
  notify; the shutdown may fall anywhere. All safety properties of the run are
  proved for any number of tasks, delays and ids.
- Dispatcher: two game tasks (one adds tasks, one has a time limit), one
  front-queued release, and the three tasks of the shutdown. Each kind of task
  can be before and behind each other kind; the proofs cover any set of tasks.
- Trade: three players, so that two can deal while a third interferes; a coin
  and two bags that can hold each other or the coin; an inventory of two and a
  bag of one, so that room runs out; three places one, two and three steps
  apart, so that every distance test has both outcomes. The two house runs have
  two houses, a seller, a buyer and a rival. `Symmetry` exchanges players and
  bags, which no definition tells apart.
- Connection: three messages in use at a time (the code allocates as many as it
  needs): one being written, one waiting for it, one the game is filling. A
  fourth could only wait like the second. Reads, timers and closes are not
  bounded.
- Session: two clients and two players, three of the four pairs of them: a
  client that takes over and one that waits. One place in the game, so the second
  always waits; one player with premium time. `premiumPlayerSkipWaitList` is
  FALSE in this run although `config.lua:122` ships TRUE: with it the premium
  player never waits, and the order of the list is not put to a test. One order
  of a state under way when another is given.
- World: three players in Party, Chat and Reports, two private channels, two
  gamemasters; two tenants, two beds and one who may edit every house. Rent: a
  period of two days, two letters, seven days. Raids: one without references, one
  that happens once, one in turn, two events each, three invaders. Spawns: two
  blocks, four monsters over time, one placed per check. Creatures: two monsters
  and a player, up to two in a vector in every order; monsters fall asleep
  together. Pvp: two trainers, one of whom kills; white skulls last an hour, red and
  black ones two, a day has one hour, a week two days, a month and a year
  three, so that each period ends within and with another one; up to three frags.
  Decay: two items, six types (one put out and lit again, one that keeps its
  time, one that goes out into it, a corpse and its bones), three buckets where
  the code has sixteen, with times on both sides of their number. Ailments: two at
  a time, of two rounds, two events of ailments under way; an end waits
  while a short event is: chains of one ailment may run double, two may overlap in
  every order, and a new one may come before the speed is back. Balls: two, with or
  without the slots of the hand and the ammunition free, up to two pokémon out, one
  order of the bar under way, as its delay of two seconds has it. Three balls were
  checked once (372,000 states) and showed nothing new. Containers: two
  bags, of two things and of one, which can hold each other; three things at a time,
  so that bags are full and nested; stacks of two, one ball allowed, one square of
  ground; two windows for the one who carries and one for an onlooker. With four
  things at a time (72,696 states) the same was found.

`CHECK_DEADLOCK FALSE` is said where the system may stop: the scheduler and the
dispatcher end or hang, a connection is deleted, a shutdown ends the sessions,
and the bounded days, hours and monsters of the world run out. Trade is checked
for deadlock.

## 5. Fairness

- Scheduler: weak fairness of the thread, of callers that are about to notify,
  and of time. Strong fairness of `TakeTop`: a spurious wake-up sends the thread
  back to its wait, and without it could do so for ever; a `timed_wait` whose
  time is up returns at once, so the thread that is not interrupted just then
  takes the event.
- Dispatcher: weak fairness of the thread and of the notifiers. Task bodies end:
  the game has no loop without end, and the model has none that waits.
- Connection: weak fairness of the service thread, of the timers, of queued
  dispatcher and scheduler work, and of `sendAll` for each message, as it runs
  after every task and the game's own timers never stop adding tasks. Nothing is
  assumed of the peer: reads and writes need never end. `DropOld` is not fair.
- Session: weak fairness of the queued tasks (closing a connection, a state that
  was ordered) and of scheduled events (a delayed connect, a release tried again,
  the announcements and the save): the dispatcher gets to every task and the
  scheduler to every event, as `TaskIsTaken` and `EventLeavesQueue` say of them.
  Nothing is assumed of clients, administrators or idle timers.
- The world has no liveness property: what must happen there is stated as an
  invariant on the events that are scheduled (a check, a tick, a kick is due).

## 6. The proofs

The theorems of the eight proof modules hold for every value of the constants
that satisfies the modules' ASSUMEs, which say only what kind of value each is.

Scheduler:

- `TypeCorrect`: `TypeOK` is inductive.
- `StopsDecide`: neither of the two parts of `StopsAreHonoured` is inductive, since
  stopEvent and the thread meet only in the set of ids. `IdInv` adds what makes
  them so: a task has an id exactly when it was accepted, ids increase, an id
  names one task, an active id belongs to a queued task, a stopped task's id is
  not active. All but the first hold until the ids start over (`~wrapped`).
- `NoWakeupIsLost`, `TimeoutIsForAnEvent`: only AddEvent makes the thread's
  deadline wrong and it then owes a notify; only the thread takes events.
  `ThreadWakesInTime` puts the two together.
- `SchedulerImplementsTimer`: a step-by-step refinement under `EnoughIds`, that
  there are no more tasks than ids. `IdsCounted` shows that the ids then do not
  start over, `IdInv` that the mapping's sets move as TimerService demands.

Dispatcher:

- `ThreadInv` ties the program point of the thread to the tasks it has taken:
  one runs, one more under flush, none is left when it waits or ends. It gives
  `NoWakeupIsLost` and, with the order, `NothingIsLeftAtExit`.
- `OrderInv` says that the list is exactly the waiting tasks, that its back
  tasks are sorted by stamp and no stamp is ahead of the counter. It is
  inductive and contains the two parts of `QueueIsHonest` (`QueueStaysHonest`); the
  lemmas `PutInFront`, `PutBehind` and `TakeOff` say what the list operations do.

Connection:

- `TypeCorrect`, `OneWriteAtATime`: neither is inductive alone. A message counts
  as written until its onWrite has run, so `WriteInv` says that it is either the
  one the socket is busy with or the one of the only write handler in the queue,
  and that `m_pendingWrite` tells the truth as long as the connection is open
  (closeSocket clears it while a handler is still due). `CloseInv` says that a
  closeConnection is queued exactly in REQUEST_CLOSE; it bounds `closeTasks`.
  The lemmas `TakeOff`, `PutBehind`, `PutWriteBehind` and `Closed` say what
  happens to the queue of handlers.
- `StopComesLast`: `StopInv` adds that the socket of a closed connection is busy
  with nothing, that only a closed connection waits for its release, and that by
  then the protocol takes no more messages. So nothing can start again what
  onStop ends. `Shorter`, `Longer` and `Ending` say where in the queue handlers
  of a kind can be after one was taken, put behind, or a socket closed.
- `ClientIsHeard`: `OpenListens` is inductive by itself, with the types.
- `MessagesStaySafe`: `SealedMessages` and `ProtocolOutlivesMessages` are
  inductive together with the types.

Trade (`TradeProofs`, `TradeSafe`): that two players deal with each other or not
at all, and that the register is exact, is inductive only together with what the
windows show and what transfer documents say: an accept trusts its window, so
`WindowsAreOfTrades` says that windows show only offers there are, and the swap
of a document trusts its name, so `DeedsAreSellers` says that who offers one is
the seller. The lemmas say what ending a set of trades does to all four.

That offers stand (`TradeTypesHold`, `OffersStandFirm`) is inductive only with that,
with `TradersHere` (only players in the game trade, so the one whose offer is touched
hears of it) and with how things lie: no bag is in a bag in a bag (`ShallowIn`), so
none is in itself and what is in a bag is where the bag is (`HeldTogether`,
`HeldThrough`). `PutHolds`, `PutShallow` and `PutTop` say what putting one thing into
another changes of what bags hold and of where things are, for a state in between as
well: the swap puts one offer, then the other, and the second still fits because
`Destination` keeps clear of the offer. `Unheard` is the reason a move may leave a
trade open: what the player did not hear of is neither part of his offer nor around
it. `StillStands` gathers what any step owes to the trades it leaves. `SwapsAreWhole`
follows from `SwapGoes`, which says where every item is after a swap, and from
`MoveKeeps`: nobody can reach into another's inventory.

Session (`SessionProofs`): `ClientInv` adds to the two pointer properties the
types and `WaitersPlayNobody`, that a client with a connect to come plays nobody
yet; without it a connect could overwrite a client's player. `ClosedWorldSafe`
needs nothing else: whoever is let in while the world is closed is
among those who always may, and every order that closes expels the others.
`TurnsAreKept` is about the waiting list. `WaitInv` says that it is typed and in
order (`InOrder`: premium players first, each client once) and that finitely many
play; `Passes` says what a step may make of it. `Cleanup` is a recursive function: the
library's induction rules cannot be instantiated, so `Least` takes the first number of
which a claim about the first n entries is false, and `KeptGrows` refutes it.
`SessionTypes` adds the types of all that is left.

Chat and Reports (`PlayersProofs`): the parts of `ChannelsAreSound` are inductive
together with the types, in `ChatInvariant`: closing one channel keeps the others
sound only while nothing is left in those that do not exist. `ReportsInvariant`
ties the reports to the windows of the gamemasters.

House and Rent (`PlayersProofs`): `HouseInvariant` is `HouseIsKept` with the types;
a changed list has those it strikes kicked, a change of the owner clears the house
or leaves only the old owner behind. `LettersAgree` says that the number of letters
and the day of the latest tell the day that was promised, from which no eviction
comes too soon whatever the period is.

Party (`PlayersProofs`, `PartiesSafe`): the four parts of `PartiesAreWhole` are
inductive together with `NothingLingers`: who is not in the game has no party and no
invitation, nobody is invited by her own party, and where there is no party there
are no invitations. Without it a logout could strike the last invitation of a party
that has just stayed for it. `SettledWhole` says what disbanding a set of parties
while one member leaves keeps; `Joins`, `Leaves` what happens to a list of members.

Raids (`MonstersProofs`): `RaidsInvariant` says which of the raids has an event,
which invaders hold it up, and that raids which are not running are at their
first event.

Spawns (`MonstersProofs`, `SpawnsSafe`): the three parts of `SpawnsAreExact` are
inductive once the monsters that were never born have no block and are not at the
spawn (`SpawnedHavePointers` and the types). That a missing monster is looked for
compares two cardinalities: the blocks that are filled inject into the living, so
the check that fills the last block may end the checks. That is where the blocks
and monsters are assumed finite. `Spawning` says what filling a set of blocks does.

Creatures (`MonstersProofs`, `CreaturesSafe`): that every object lives as long as
somebody refers to it is not inductive, since a handler drops references one by one
and settles them at its end. `CreaturesInv` says four things of the world between
tasks. `Core`: references are the pointers there are (`Counted`), summons and masters
know each other (`Tied`), nobody looks for itself or its summons (`Apart`), a free
object holds nothing and only what is on the map is checked (`Staged`). `Watched`:
players, the dead and every monster that is not idle are in a check vector, and an
idle one looks for nobody. `Unwanted(world) = {}`: no object is left that nobody refers to.
`Untangled`: summons are on the map with their masters, a placed summon of a monster
looks only for the harmless, no summon on the map looks for somebody off it
who keeps another (`Loose`), and of any set of removed objects there is one that none of
the set holds (`Acyclic`); so objects that are let go of are all deleted in the end.
`Untangled` holds until monsters are commanded between a death and its report
(`hurried`), the case `CreaturesAreKept` exempts as well. Within a task `Unwanted` may be
anything; `Destroy` settles it in rounds, of which each deletes an object, so that
they end as the creatures are finite. There is a lemma for each function of the code
(place, found, left, look, idle, kill, die, remove, disappear), one for each task, and
for each fold one lemma that says what every step keeps the whole fold keeps.
These come from `AllNumbers`: the set of the numbers of which a claim is false has no
least element. The induction is over a set, not an operator, so the prover
can use it (`WFMin` with `NatLessThanWellFounded`).

Pvp (`PlayersProofs`): what shows of a mark depends on whether its owner is here,
so `PvpInvariant` speaks of each mark twice: `MarkIsKept` holds of every
one (no white skull ends after its mark, the timer runs out within it) and
`MarkIsShown` of those present, where a mark shows as a skull that does not end
before it; a login goes from one to the other. Counters nest because the three
periods of a killer were written on one day (`TallyIsKept`); a day decides the week
and the month, whatever their lengths. `DefendersInnocent` is a property of steps,
proved from the same invariant: the one who strikes back is only marked where the
other one shows no skull.

Ailments (`PlayersProofs`, `AilmentsSafe`): an ailment ends through functions that
call each other, each of which leaves the creature half restored. `KeptBut(p, E)`
is the invariant for a creature while the events of the ailments in E are under
way: any other ailment that counts has an event, and speed or steps that were
taken are known to an event of an ailment that takes them. There is a lemma for
each function (`Lifting`, `Regaining`, `Suffering`, `Ticking`, `Applying`), so that
`CallOut`, which applies five ailments in a row, needs only that each of them
keeps `IsKept`.

Balls (`PlayersProofs`, `BallsSafe`): `OneBallASlot` is inductive by itself; the
story of balls and pokémon is not. Within a handler a ball in use may have left the
feet for a moment (`MoveBar` takes both out and adds them anew), and whether `tidy`
stays is only known at its end. So `NearlyTold` says that the story is true if the
ball in use is at the feet after all, and `Tidying` that `Turns` makes `TeamInv` of
it; each function that the handlers call has a lemma (`Fainting`, `Recalling`,
`Going`, `Turning`, `Changing`, `Putting`). While `tidy` holds, whoever is written to
as "the ball at the feet" is the ball in use (`InUseAtFeet`), which is why late
returns and deaths hit the right one. It takes no assumption on the number of
pokémon, and none of the bounds of the run.

Decay (`ItemsProofs`, `DecaySafe`): whether an item decays in time depends on when its
entry comes up, on what a turn of the buckets costs and on what the lists still owe
it. `DecayInv` holds between steps; within a round it is `GoodInv(s, b, c, e)`, for
the bucket b of which c entries are still to be checked and a round that has been
counted or not (e). It says of the item in the game that it is `Timely`: if it
decays, one of its entries comes up (`Comes`) before its time is over, or it
is still to be put into a bucket with enough time left (`InTime`); if it never
paused, it is on the lists once, and its entry comes up no earlier than its time
ends (`Lasting`). `Referred` counts the references, listings and releases of every
object, `OneHere` says that one item at most is in the game, as the actions have
it. `Turns` is the arithmetic of the buckets; `ComesTaken`, `ComesPut` and `ComesSooner`
say when entries come up after one is taken out, put in, or the buckets move on.
There is a lemma for every function of the code; `EntryChecked` puts together what
an entry that comes up can do: be given up, go on, end. The four folds (listings,
releases, the entries to be sorted, the bucket that is checked) are shown to go
through their lists one by one (`SortsInTurn` and its like, by `AllNumbers`), so that
what each entry keeps the round keeps. Freeing an entry's reference before its item
decays or after makes no difference (`AwayFreed`), which is why an item
may decay while its entry is being checked. Of the bounds the proof needs `RoomForOne`
and `RoomForTwo`: an object for what an item turns into.

Containers (`ItemsProofs`, `RoomSafe`): no container is ever overfull, whatever is
moved, exchanged, filled up, given, taken or paid (`RoomForAll`). It is not checked
where things are put (`Put`), only asked beforehand, at an index and of a state that
the steps in between change, and `__queryAdd` of a container compares its size only
for a thing that may go anywhere. So the proof follows the questions: if of what
`QueryMaxCount` allows not all goes onto the stack that is there, a place is free
(`RoomToLay`); an exchange needs a free place where the other thing comes from
(`RoomToExchange`), and only what is worn is exchanged (`OnlyWornGivesWay`); what is
taken out and filled up before the thing is laid down adds nothing (`NoMore`,
`RoomStays`). After an exchange the thing that moves is found one place further
(`MoveToIsWhole`). The inductive invariant is `Whole(goods)`: the lists hold things,
and windows are on containers, which clients name. What it searches, the way to a
destination and the stacks that pay, is followed step by step by `AllNumbers`
(`DestinationIsPlace`, `RemoveMoneyIsWhole`). It assumes that containers are finitely
many and that nothing, the carrier and the ground are none of them.

Only model-checked: `BelongingsAreTrue` but for `RoomForAll`, and the types of the world
(`WorldTypeOK`, of which the invariants above contain the parts they need). Only ever
model-checked: the liveness properties (`EventLeavesQueue`, `TaskIsTaken`, `ClosedIsReleased`, `ClosingsEnd`),
as the prover has no rule for fairness. The rest of `BelongingsAreTrue` sums up coins,
balls and the weights of bags in bags: each sum is a further induction over data.

## 7. Where code and text disagree

- `scheduler.cpp:57` "ok we had a timeout, so there has to be an event we have
  to execute": after the untimed wait there was no timeout. The first event on
  an empty queue is run at once (`Scheduler_early`), and a late notify finds an
  empty queue whose top is taken (`Scheduler_empty`).
- `otserv.cpp:298` "shutdown" (SIGTERM): `Dispatcher::shutdown` flushes under its
  own lock and may wait for it for ever (`Dispatcher_sigterm`).
- `talkaction.cpp:523` "Trade player already rents another house.": tested at the
  offer only, not at the transfer (`Trade_second_house`).
- `talkaction.cpp:449` "This flat is already owned by someone else.": a transfer
  document is honoured whoever owns the house by then (`Trade_stale_deed`).
- `connection.cpp:359` "disconnected for exceeding packet per second limit.":
  `closeConnection` does nothing unless `close` was called before; the client
  stays connected and is not read any more (`Connection_limit`).

Cases the properties of the world exempt, by a history variable named here, since
the code states no rule they break, or its text is vague about them:

- Pvp: a white skull outlives its ten minutes when its owner logs out and in
  (`cameMarked`; `doc/SISTEMA_PVP_POKEMON.md:48`); a red skull that ends at a login
  leaves the mark, and striking back at it marks the defender
  (`pvp system.lua:159-161`).
- Decay: a lit torch that a script changes into a type with its own time is on the
  lists twice and decays early (`doubled`); a light that goes out into a type that
  keeps its time stays marked as decaying and never goes out again (`spent`); what
  a started round took is not saved when a player leaves with the item.
- Ailments (`forgotten`, `stranded`): `isSleeping` of `status library.lua` counts
  Silence, so an ailment that ends under Silence frees nobody, and neither does
  Silence; a player whose Confusion ends while asleep or paralyzed keeps no speed;
  speed restored while the slowness counts comes out too high. The rounds of a
  player who logs out are saved, the events that count them are not: such an
  ailment stays until it is cured. A cure or a renewed ailment in the last second
  starts a second chain of events, which counts twice as fast; slowness put back
  10 ms after Slow ended lasts its whole 50 seconds; a cured summon that is called
  back at once is ill again.
- Balls (`tidy`): a return may be refused for a while after a fight with a player,
  and pbar.lua changes the balls all the same (`pbar.lua:103`, `310-314`); a player
  may drag a ball in use out of the slot. What is written afterwards, a death, the
  health, a return, goes to another pokémon's ball, or to none.
- Houses: an owner who loses a house without a clean may stay in it (`unswept`).
- Spawns: a block vacated by convincing waits for the next check (`neglected`).

## 8. What is not modelled

The map of `PROJECT.json` covers a small part of the lines of the repository.
Most of the rest has no order of events to check:

- Data and formulas: items, combat, spells, weapons, experience, vocations,
  pokémon tables and moves, scripts of the world, NPC dialogues. A handler there
  reads tables and computes numbers; its result depends on no other task.
- Input and output: databases, map storage, configuration, logging, packets and
  ciphers, the GUI, bans and accounts (each operation is one statement).
- The Lua interface: several hundred wrappers that take arguments from a stack and
  call one function of the game. Those functions are modelled where they matter;
  the wrappers add a conversion.
- The map: a large structure with one operation at a time. The moves a trade hears
  of are in Trade, what monsters see in Creatures, a square that holds things in
  Containers.

Left out inside the modelled parts:

- Scheduler and Dispatcher: what leaks in memory, and a signal that interrupts a
  critical section.
- Connection: the packets' content, encryption, the other protocols (which get
  their protocol object with the first packet), `ConnectionManager`'s limits and
  shutdown, the references a pending login holds, an exception thrown by asio when
  an operation is started, and the order of `m_outputPoolLock` and
  `m_connectionLock`: handlers are atomic here, so a deadlock between the two locks
  cannot show.
- Session: ghosts, clones of a character, bans, and the several reasons for a
  refusal, which are one action. A machine runs one client at a time.
- Trade: weight, guild halls, premium time, stacks that merge, items that decay,
  bags nested deeper than two.
- Party: who is near enough to share (a choice). Chat: guild and world channels,
  mutes. House: guild halls, doors with lists of their own, the depot of an evicted
  tenant. Creatures: friend lists and guardians, which are kept like target lists
  and summons; conditions; NPCs, which have no targets.
- Pvp: kills of players themselves; whether trainers may fight (levels, zones,
  parties, the button) is left open. Decay: stacks, charges, types that change
  between the top and the bottom of a tile. Ailments: Burn, Poison, Leech, Miss and
  the buffs, which hold nobody; Fear, which has Confusion's code; outfits; immunity;
  summons under control. Balls: duels, teams, controlled minds, evolution, mounts,
  bags in bags, a bag without room; who may use which pokémon (level, clan).
  Containers: depots and the other cylinders, trades, scripts that refuse a move,
  transformations, coins of several worths, players who leave the game, things
  thrown to other squares.

The components of section 1 that are planned (section 2) are listed in
`PROJECT.json` with their reasons.
