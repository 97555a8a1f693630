# A verification project for the maple104 game server

The repository is a Java server for a two-dimensional multi-player game: about
430 classes (130,000 lines) under `src/YIM/src/main/java`, and content scripts
under `src/resource`. One process runs the login server, the channels, the cash
shop and the `World`. Netty reads the packets of a connection on one event
loop, so the handlers of one connection run one after the other, and those of
different players run at the same time. Timers (`server/Timer.java`) run on
pools of their own. Nearly all state lives in Java objects that these threads
share; the database is written when a character leaves a server, with one
statement per transaction.

What makes such a server correct is mostly not arithmetic. It is that things
are neither copied nor lost while several threads and several servers handle
them, that a player is in one place, and that nothing is stuck when connections
break at a bad moment. The project models those parts.

Paths below are relative to `src/YIM/src/main/java`.

## Inventory

Every component is also listed in `PROJECT.json`, with its sources and the
reason when it is not modelled. The hazards (what can go wrong and a test would
hardly reach) are listed there with their lines.

| component | state | operations | talks to | hard behaviour | correct when |
|---|---|---|---|---|---|
| Trade (`server/MapleTrade`, `PlayerInteractionHandler`) | two objects with partner, window of items and meso, `locked`, exchange fields | start, invite, visit, put up, confirm, cancel, decline | inventories, purses, karma flags; `leaveMap` | offers against confirmations, invitation over an invitation, inventories that fill meanwhile | nothing copied or lost; what was confirmed is what is delivered; both leave together |
| Drops (`server/maps/MapleMapItem`, `MapleMap`, `InventoryHandler`, `PetHandler`, `DamageParse`) | object on the map, owner, type, `pickedUp`, timers, a lock | drop, pick up by hand, pet or stride, blow up, expire, free for all, clear, go home | characters, parties, respawn worker | threads that take the lock against threads that do not; a player moved in mid pick-up | handed out once; no ghost and no vanished drop; the owner first |
| Sessions (`client/MapleClient`, `handling/MapleServerHandler`, `handling/login`, `InterServerHandler`, `CashShopOperation`) | flags per connection; the account's row; authorisations; transfers | connect, log in, select, enter, change channel, enter and leave the cash shop, disconnect | `PlayerStorage`, `World.Find`, database | late ends of old connections, crossing of packets and saves, time limits | one place per character, found there; nothing lost; never locked out |
| `PlayerStorage`, `World.Find` | characters by id and name; pending transfers; the server of a character | register, deregister, hand over, look up | sessions | entries nobody removes | entries match connections |
| Inventories (`client/inventory`, `MapleInventoryManipulator`) | slots per type, quantity and flags per stack | add, merge, split, move, drop, remove | nearly everything | several threads give to one player | quantities conserved, slots within limits |
| Storage (`server/MapleStorage`) | the account's items and meso | store, take out, arrange, save | inventories | same account, several characters | nothing in both places |
| Shops (`server/shops`) | items with bundles and price, meso, visitors, rows of `hiredmerch` | put up, buy, take back, tidy up, close, restore | inventories, world | concurrent buyers, owner against buyer, crash in a save | meso earned equals bundles sold |
| Parties, expeditions (`handling/world/MapleParty`, `World.Party`, `PartyHandler`) | members, leader, link to an expedition; the party in each character | create, invite, join, leave, expel, disband, change leader, log off | sessions, maps | members act at once; a leader drops out | both sides agree, six at most, the leader is a member |
| Guilds, alliances (`handling/world/guild`) | members with ranks, capacity, rows | found, invite, join, leave, expel, promote, hand over, disband; repair at the start | sessions, database | changes to a member who is between servers, unlocked look-ups, a crash in a handover | list, row and character agree; one leader; seats kept |
| Families, sidekicks (`handling/world/family`, `sidekick`) | tree of seniors and juniors; pairs | adopt, split, disband | database | edits of two branches at once | the tree stays a tree |
| Buddies (`client/BuddyList`) | entry per buddy, pending requests | ask, accept, delete | other list in memory or in the database | one side offline | lists name each other, within capacity |
| Messenger (`handling/world/MapleMessenger`) | three seats, silent links | open, join, leave, move with a channel change | sessions | a seat taken twice, a member that never returns | who is told to be in is in |
| Event instances, squads (`scripting/EventInstanceManager`, `EventManager`, `server/MapleSquad`, their scripts) | players, mobs, timer, `disposed`; members, queue, status of a squad; the script's property | sign up, accept, ban, reserve, start, register, leave, disconnect, return, time out, dispose | maps, NPC dialogs, timers | the timer against the last one out; a dialog answered late; a leader who starts while the squad expires | character, instance and map agree; one battle, behind a shut door; the boss is free again |
| Transport lines (`src/resource/scripts/event/Boats.js` and five more, their ushers, doors and exits) | gate, dock, scheduled functions | dock, close the gate, take off, arrive, board, leave | timers, maps, NPC dialogs | two functions due together; a warp that is refused or comes late; old questions | passengers get where they were promised; nobody waits for ever or rides along unseen |
| Monsters and respawn (`server/maps/MapleMap`, `server/life`) | monsters, spawn points, counters | spawn, damage, kill, respawn | drops, parties | counters beside the list; two last hits | the counter is the number of monsters; one kill, one reward |
| Reactors, doors, mists, summons (`server/maps`) | state and timer per object | hit, trigger, expire | drops, maps | an item swallowed while it is picked up | see drops |
| Characters: statistics, skills, buffs (`client`, `server/MapleStatEffect`) | numbers, effects with timers | cast, expire, cancel | timers | expiry against cancellation | an effect ends once |
| Buffs between servers (`handling/world/PlayerBuffStorage`) | three maps by character | store, fetch | sessions | a change that never completes | given to the next server, once |
| Quests (`server/quest`) | status per quest | start, complete, forfeit | inventories | sequential | a reward per completion |
| Cash shop, MTS (`server/CashShop`, `server/MTSStorage`) | cash inventory, gifts, carts | buy, gift, take out | database | a gift between SELECT and DELETE | a gift arrives |
| Duey, NPC shops, cash items | none of their own, or rows | send, receive, buy, sell | inventories, database | partial failure | value conserved |
| Games and events (`MapleMiniGame`, `PokemonBattle`, carnival, `server/events`) | board, turn, score | move, forfeit | maps | one side leaves | one winner |
| Timers, shutdown (`server/Timer`, `server/ShutdownServer`) | pools; mode | schedule, stop | everything | order of stopping | everything saved before the database is gone |
| Codec (`handling/netty`, `tools/MapleAESOFB`) | length of the packet under way, IVs | decode, encode | sessions | packets cut or joined by TCP | frames come out as they went in |
| Anti-cheat, database access, packet creators, constants, providers, commands, scripts | thresholds, connections per thread, tables | | | | not modelled, see `PROJECT.json` |

## Modules

| module | what it is |
|---|---|
| `MapleTrade` | trading, one action per packet handler |
| `TradeContract`, `TradeRefinement` | what trading promises, and the mapping under which `MapleTrade` implements it |
| `MapleTradeProofs` | theorems about `MapleTrade` |
| `TradeRefinementProofs` | that `MapleTrade` implements `TradeContract` |
| `MapleMapItem` | drops and the threads that race for them |
| `MapItemProofs` | theorems about `MapleMapItem` |
| `LoginSession` | connections, the account's row, the storages, `World.Find` |
| `LoginSessionProofs` | theorems about `LoginSession` |
| `Expedition` | a squad, its boss battle, the arena and the NPC that leads there |
| `ExpeditionProofs`, `ExpeditionBattleProofs` | theorems about `Expedition`: of its lists and instances, and of its one battle behind a shut door |
| `Transport`, `TransportScripts` | what runs a transport line, and the scripts of six lines as data |
| `TransportProofs` | theorems about `Transport` |
| `Guild` | membership of guilds in the list, the database and the character |
| `GuildProofs` | theorems about `Guild` |
| `MCTrade`, `MCTradeRefinement`, `MCMapItem`, `MCLogin`, `MCExpedition`, `MCTransport`, `MCGuild` | values of the constants for TLC |

The definitions whose names end in a description of a fault (`AlwaysTradeable`,
`NeverPickedUp`, `RemovesByName`, ...) stand before the definition they
resemble. They are the faults that each property is known to catch, are used in
no specification, and are listed under `mutants` in `PROJECT.json`.

### Trade

Every `MapleTrade` object is a member of `Trade`. The Java fields are functions
on it (`chr`, `partner`, `locked`, `inTrade`, `items`, `meso`, `exchangeItems`,
`exchangeMeso`), and the field of a character is `trade[c]`. `bag` and `purse`
are the inventory and the meso, `karma` the items whose flag is still set.
`lost` and `sunk` are history: stacks no inventory had room for, and meso taxed
or refused.

| action | code |
|---|---|
| `StartTrade`, `InviteTrade`, `VisitTrade` | the static methods of the same names |
| `SetMeso`, `SetItems` | `setMeso`, `setItems`, with the guards of `addItem` and of the restrictions |
| `ConfirmFirst`, `ConfirmSecond` | `completeTrade`, without and with the exchange; `check` is `Accepts`, `CompleteTrade` is `Collect` |
| `CancelTrade`, `DeclineTrade` | `cancelTrade` (also from `leaveMap`), `declineTrade` |
| `ReceiveItem`, `ReceiveMeso` | what reaches a trading character from outside: gifts of a script to the party, the share of a party member's pick-up |

There is no lock in `MapleTrade`. A handler is one step of the model, so two
handlers that touch the same pair of players do not overlap; the hazard at
`MapleTrade.java:245` is what that leaves out. A stack takes one slot; merging
and the five inventory types are left out.

`reinvited` is history as well. An inviter that already has a partner may invite
somebody else (line 297), which overwrites its partner field: the code then does
leave a guest behind in a trade whose other side points elsewhere. `Linked` and
`OfferOnlyGrows` hold whatever is invited; the other properties are stated for
the histories in which this did not happen, and fail without that condition.

### Drops

A drop is a pair of a map and an object id. A pick-up is cut where another
thread can see or change what it uses: `Look` (find the object), `Enter` (take
the lock and pass the guards), `Grant` or `Refuse`, then `Mark` (`setPickedUp`),
`Remove` (`removeMapObject`) and `Refill` (the market's random drop asks for the
next). The respawn worker and the threads that clear a map take a snapshot and
go through it (`Snapshot`, `WorkerVisits`, `ClearerVisits`) and never take the
lock; `Mark` and `Remove` serve them as well. `Depart`, `Return`, `ReturnGrant`
and `Arrive` are a change of maps made by another thread, with
`returnEverLastItem` on an everlast map.

What makes a drop is `MobDrop`, `DropItem`, `DropMeso`, `AutoDrop` and
`RandDrop`. `spawnMobDrop` calls `spawnAutoDrop` at its end when the monster's item
is one of a few (`MobAutoDrop`), so a second drop may appear beside the first.
`spawnItemDropdir`, which only `EventInstanceManager.startmapitem` calls, and the
drops of kind 291xxxx that are used as they appear are left out.

`age` stands for the two timers: 0 fresh, 1 past 30 seconds, 2 past 120.
Distances, the quest guard and a full inventory are the nondeterministic choice
of `Refuse`.

Two conditions come from the code. On an everlast map `returnEverLastItem` gives
every own drop without the lock and without `isPickedUp`, so it can hand out what
somebody else is being handed; `GrantedOnce` excludes those maps. And
`removeItem` asks `chr.getMap()` again, so a character moved in mid pick-up
takes the object off the wrong map; `strayed` remembers that.

### Sessions

A session is a connection with its `MapleClient`: `client[s]` is a record of the
server it is on, the player, a phase, the flags `loggedIn`, `serverTransition`
and `open`, the channel, and which copy of the character it plays on (`current`
or `old`). The account's row is `loggedin` (0 to 3), `lapsed` (the 20 seconds of
`getLoginState` have passed) and `saved`. `loginAuth`, `loginIPAuth`, `pending`
with `origin` (transfers), `idToChar` (storages) and `idToChannel`
(`World.Find`) are shared by all servers.

| phase | meaning |
|---|---|
| `new` | connected, nothing claimed |
| `entering` | in `Loggedin` or `EnterCS`, the character loaded or handed over |
| `playing` | in a storage, in the game |
| `leaving` | has told the game client where to go and is not done |
| `left`, `refused` | the handler is over, there is no player on the connection |
| `dropped` | given up by the server, `channelInactive` to come |

The game client is part of the model: it opens the connection it was told to
open, is turned away by a channel that does not expect it, breaks, and starts
again at the login server. When a server notices a broken connection is a
separate step, so several connections of one account may be ending while the
next begins.

`overtaken` remembers that a player came back, or was saved, while an earlier
connection of it was still in a handler. In that case the code does misbehave:
the late `channelInactive` calls `getLoginState`, which sets `loggedIn` when the
row says 2 for the newer connection, and then resets the row. `leftover`
remembers that a transfer was left at a server when the player logged in anew:
the row lapses after 20 seconds and transfers are thrown away after 40 to 100,
so a quick player can be given the character as it was. The properties name
these exceptions; without them TLC finds each of the two.

One player plays one game client: a second machine on the same account is not
modelled. `getLoginState` (a SELECT and an UPDATE) and the pair of check and
`addPlayer` are one step each. Left out are the addresses' and passwords'
checks, the gender state 4, the limit of ten transfers, bans, the market place
and the server's shutdown.

### Expeditions

`Expedition` follows the players of one channel at one boss: `npc/2141001.js`
(the dialogs), `server/MapleSquad`, `scripting/EventManager` and
`EventInstanceManager` driven by `event/PinkBeanBattle.js`, and
`MapleMap.checkStates`. The scripts of the other bosses differ in numbers and
maps. `squad` and `battle` are the Java objects; `squadOn`, `named` and `state`
are the tables and the property through which others find them. `job[p]` says
where the thread of a client is: a question on the screen (`Dialogs`) or a
handler cut where another thread sees what it has done so far (`Working`).

| part | actions |
|---|---|
| questions and answers | `AskToLead`, `OpenMenu`, `OfferReturn`, `OfferReservation`; `Register` and `AddSquad`, `Join`, `Withdraw`, `Ban`, `Accept`, `Reserve`, `Start`, `Rejoin` |
| the squad's timer | `Expire` (`scheduleRemoval`: cleared after five minutes, the next reservation served) |
| the battle | `RegisterMember`, `Enter`, `SetStatus`; `TimeUp`, `TakeLock`, `Evict`, `CloseBattle`, `ResetState` |
| leaving | `Leave`, `Unregister`, `DisposeIfEmpty`, `Reset`, `Depart`, `LogOut`, `Quit`, `LogIn` |

`Habits` names what the players of an instance make use of. Without `haste` no
dialog is opened while a handler or a timer works; without `dawdle` the leader
starts only while the squad of its menu is the channel's; `LieDetector` FALSE means
that no test refuses a warp. `expedition` leaves these three out and
`expedition_door` has them. In every instance a connection does not end while the
leader is about to register its player, no member quits during `Start`, the hour does not run out
while the members are still being registered, and the twelve hours of the quest
record do not pass. Each of these excludes a case in which the code goes wrong;
they are listed under *Known deviations*.

The code does lose its one battle behind a shut door, and `lapses` is history that
says how it came to it:

| lapse | what happened | the code |
|---|---|---|
| `returned` | somebody was let back into a battle; `checkStates` does not count it while it is on its way | `Rejoin` (`EventInstanceManager.java:79`) |
| `refused` | a lie detector test refused a warp into or out of the arena | `Enter`, `Evict` (`:867`) |
| `misled` | a battle was started from the menu of an earlier squad, or by a leader who is not the first on its list, having got the squad by reservation and then taken itself off | `Start` (`npc/2141001.js:192`, `MapleSquad.java:231`) |
| `hasty` | a battle was started while a player was still on the way out of the one before, or its timer was winding it up | `Start` (`MapleMap.java:3676`) |

A lapse is set by the step at which it happens, whatever comes of it. `OneBattle` and
`DoorShut` are claimed until the first one and say that nothing else the players do
breaks them. None of the exceptions is idle: without `misled` or without `hasty` TLC
finds either property violated, and without `returned` or without `refused` it finds
`DoorShut` violated. `InBattle` excepts `refused`, `BossFree` excepts `returned`.

### Transport

The scripts are data: `TransportScripts` has a record per line with the
statements of each function, the rides, the doors and the persons who ask.
`Transport` runs them: `Fire` starts a function that is due on a thread of the
pool, and its statements are steps (`SetProperty`, `ScheduleTask`, `KillAllMonsters`,
`SpawnMonsters`, `CopyCharacters`, `WarpOne`). `warpAllPlayer` goes through a copy of
the list, so a passenger in it is warped wherever it is by then. Passengers ask
(`Ask`), answer later (`Yes`, `No`), use doors, walk to the next line, are tested
by the lie detector, log out and in. `bound` remembers what the usher promised,
`own` that the passenger came or stayed aboard by itself while the ship landed.
What clients see of the ship is left out, and so is the elevator
(`event/Elevator.js`): `portal/elevator.js` makes its rooms unreachable.
`world.properties` (line 146) loads `Boats`, `Trains` and `Flight`, but not
`Subway`, `AirPlane` and `Geenie`; those are checked as they stand.

### Guilds

A membership is kept three times: on the guild's list (`members`, with the rank),
in the character (`mine`) and in its row (`charRow`). `leader` and `guildRow` are the
leader in the object and in the table. `place` says where a character is: loaded
and not yet told to the guild (`entering`), in the game, with its transfer made
and still on the server (`leaving`), off it (`transit`). `Reach` is
`World.Guild.setGuildAndRank` together with `setOfflineGuildStatus`: which of the
three records a change gets to depends on what the list believes (`online`) and
on where the character is.

The list's entry may be the character's own. A newcomer is added with the
`MapleGuildCharacter` of its `MapleCharacter` (`GuildHandler.java:126`,
`MapleGuild.java:761`), while a list that was loaded from the tables has entries of
its own; `shared` says on which guild's list a character's own entry is, until it
leaves the server or the guild. `setGuildRank` writes through it
(`MapleCharacter.java:5450`), so whatever rank `setGuildAndRank` tells such a
character goes to the list too: `Own` and `Ranked`. `gainGP` tells the rank that
it read without a lock, and with it undoes one given meanwhile (`ApplyPoints`).
`stale` names the handlers of `changeRank` whose member was taken off after they
had found it: what they change is an entry that is on the list no more.

| action | code |
|---|---|
| `Create`, `Found` | `MapleGuild.createGuild`, then the handler's second half |
| `Invite`, `Lapse`, `Accept`, `Join`, `Joined` | `GuildHandler`, `addGuildMember` (under the write lock), `gainGP` |
| `Earn`, `ApplyPoints` | `gainGP`, found without the lock and changed later, on the list as well if the entry is shared |
| `Leave`, `Expel`, `Disband` | `leaveGuild`, `expelMember` under the write lock; `World.Guild.disbandGuild` from the hall's NPC |
| `ChangeRank`, `FinishRank` | `changeRank`, found and changed later |
| `HandOver`, `Crown`, `Uncrown`, `Crowned` | the steps of `changeGuildLeader` |
| `Load`, `Enter`, `LogOut`, `Transfer`, `Depart`, `Stray` | coming to a server, `setOnline`, going, changing servers, not arriving |
| `Restart` | a crash, and `GuildLoad` with the repair `gFix` |

The game client offers a leader no way to leave, and commands only over members
below the own rank on the list; the handlers test less than that, and the model
takes the client at its word. That an old connection may end after a new one has
entered is the subject of `LoginSession` and left out here. Left out as well are the
deletion of a character (`World.Guild.deleteGuildCharacter`, `World.java:1079`, a
departure made from the login server), the second entry that a list gets when
somebody is added whom it lists already (only the first is found), and that
`setOnline` compares the guild's id with that of an entry which was told another guild.

`astray`, `disturbed` and `revived` are history. A member that is between two
servers when its membership changes keeps what it had (`astray`), and a change of
rank or points that was under way when the member was expelled gives it guild and
rank again; a restart lists such a character once more (`revived`), also above the
capacity. A guild is left with no member of the first rank, or with two, in the cases
that set `disturbed`: the heir leaves, is expelled or is given a rank before the handover
is through, or the leader is given one; a second handover begins, or the guild is
disbanded; `gainGP` tells a newcomer the rank it had before it took over or gave away the
lead; a rank given in one guild goes to the entry a character has on the list of
another; a newcomer is told the first rank of its old guild while it joins.
Within these exceptions the code goes wrong.

## Runs

| run | question | bounds, and why they are enough |
|---|---|---|
| `trade_pair` | Is anything copied, lost track of, traded twice on one karma flag, or changed after it was confirmed? Does an exchange deliver? | two players, three stacks, one slot, at most 2 meso each, which the two can fill by trading and overrun by what they pick up, four objects: two trades one after the other, so that a second trade starts from what a first left; gifts make every refund and exchange meet a full inventory; one stack is restricted, two are of one kind |
| `trade_three` | Who is linked to whom? | three players and four objects, the least in which an invitation overwrites a partner and the orphan meets somebody again |
| `trade_contract` | Does `MapleTrade` implement `TradeContract`? | three players, three objects; two stacks are one of a kind and a window takes two, so that without `OneOfAKind` the contract is violated |
| `drops_race` | Is a drop handed out once, whoever races for it, the owner first, and do the shares of a heap add up? | one object id, two players in a party and one in a party of its own with the bonus, the worker, a clearing thread, three ways of picking up, 99 meso for the rounding: every pair of threads that can meet at one drop |
| `drops_cleared` | Does `pickedUp` tell whether a drop is on its map, does every timed drop go, and does the market keep its random drop? | two maps, the market and an everlast one, one id each; one player who picks up and is moved between them, also in mid pick-up, beside the worker's rounds |
| `session_moves` | One place, found there, row true, nothing lost? | one account, two channels, three connections of which up to two may be ending while the third begins, one break of the game client beside any number of moves |
| `session_comeback` | Does the player get in again? | two connections, two breaks |
| `expedition` | Do character, instance and map agree, and is the boss free in the end? | two players (a leader, and one who is banned, waits or returns), three squads (the one that fights, the one in the queue, the one a handler still holds), two battles (one winding up, one starting) |
| `expedition_door` | Is there one battle at a time, behind a shut door, until the first lapse? | three players: one leads, one waits with a reservation, one joins or keeps an old menu open, among whom each of the four lapses leads to a violation if it is not excepted; two squads, two battles; every habit but bans, refused warps included, and nothing is followed beyond the first lapse |
| `transport` | Does a passenger get where it was promised, and ever? | each of five lines with one passenger (passengers do not touch each other), one test and one logout at any moment |
| `transport_genie` | The same of the genie: violated | a finding: the usher in Ariant sends passengers to 260000301, `takeoff` empties 260000110 |
| `guild` | Do list, row and character agree, is there one leader, and no member too many? | a leader, a member and a newcomer for two seats; three handlers at a time, so that a handover, a change of rank and a join overlap; two characters between servers; any number of restarts |

Deadlock is not checked where the bounds make a run stop: the objects of
`Trade` and the object ids are used up, players of an expedition may stop, and
a guild's history ends at the constraint below. The two session runs and the
two transport runs check it.

The bounds are sets of objects, ids and connections, `MaxMeso`, `MaxBreaks`,
`MaxTests`, `MaxLogouts`, `MaxBusy`, `MaxMoving` and `Habits`. Two runs restrict
the state space besides: `guild` stops where a second character has gone astray,
a restart has revived a member, or a handover was disturbed (`MCBound`), because
the properties claim nothing there. `expedition_door` stops at the first lapse (`MCNoLapse`)
for the same reason: a state in which one has happened is checked, what follows it is not. It
leaves out bans, with which it takes four minutes and shows no error, and a fourth player;
the theorems cover both. One guild is founded in
`guild`; with two guilds and two characters TLC finds no error either. Symmetry is
declared in runs that check safety only. `expedition` takes states for one that differ
only in the lapses other than `returned` (`MCView`): no guard reads the history, and of its
lapses the properties of that run read no others, refused warps being left out.

## Fairness

- `drops_cleared`: the worker (`World.Respawn`, registered on the world timer
  every 4.5 seconds) comes to every map again and again; the strong fairness of
  its snapshot says that it does not skip a map for ever, which its loop over all
  maps guarantees. An exception in its round is caught (`LoggingSaveRunnable`),
  so the timer goes on. A thread in the middle of a handler goes on, since
  nothing in these handlers waits but for the drop's lock, and that is released
  in a `finally`. Time passes. Players owe nothing.
- `session_comeback`: a handler that has started ends, netty reports every
  closed connection once, the database's clock moves on, and the game client
  keeps trying, as the property asks about a player who wants to get in. Nothing
  is assumed of moves, of the server giving a connection up (`sendPing`) or of
  the storages' cleaning (`PersistingTask`).
- `expedition`: a handler that has started goes on (`Works`), the timers of the
  squad and of the battle run (`Expire`, `BattleTimer`): both are scheduled once on
  pools that log exceptions and go on. Players owe nothing, not even an answer.
- `transport`, `transport_genie`: the clock ticks and due functions run
  (`EventTimer`), and a lie detector test ends, having a time limit of its own.
  Passengers owe nothing.

## What is proved

The theorems hold for every value of the constants that satisfies the assumption
named in each module: any number of players, items, maps, channels and
connections. TLC evaluates the assumptions in every run.

**`MapleTradeProofs`.** `TypeCorrect` and `LinksSound` rest on `TypedLinks`: the
types together with `Linked`, since the type of a refund depends on who owns the
window. `OffersGrow` needs no more than that. `NothingCopied`, `AgreementKept` and
`PartnersTogether` rest on
`TradeInv == TypedLinks /\ Paired /\ AgreedOffer /\ SoleHolder`. None of the
three last is inductive alone. An exchange copies nothing because what the second
to confirm collects is what the first has in the window (`AgreedOffer`), which
stays so because a partner's partner is oneself (`Paired`), which stays so
because the two leave together. The lemma `Redistribute` is the heart: goods that
move inside a pair, each to one place or to `lost`, keep one holder.
`KarmaOnce` rests on `KarmaInv == TradeInv /\ KarmaSpent`: an exchange takes the
flag off what changes hands, and that is in no third window because it has one
holder. `ExchangesDeliver` rests on `RoomInv`, which adds that every bag is one
`addFromDrop` could have filled; that of the two sides the second to collect finds
the room that `check` counted for it is its main step. `MesoKept` rests on
`MesoInv`, which adds to `TradeInv` that purses, open windows and `sunk` together hold
what the purses held at the start. The sum is `MapThenSumSet`, a recursive function on the
subsets of `Char`. Its induction is done by hand: a property of all subsets of a finite set
holds if it has no smallest counterexample (`SmallestSubset`), which gives that the recursive
function exists (`SumsExist`), is the only one (`SumsAgree`), and changes with one summand
by as much (`TotalChanges`); `SumIsTotal` and `WealthIsTotal` link it to the model's. Then
each action changes the wealth of one character, or of the two ends of a pair, by what it
changes `sunk`; that the second confirmation collects what the partner's window lost is
`AgreedOffer` again. Assumed are finitely many characters and
stacks, and bags that are no fuller at the start than the code could make them.

**`TradeRefinementProofs`.** `TradeImplementsContract` shows under the mapping of
`TradeRefinement` that every handler is one step of `TradeContract` or changes
nothing it speaks of, handler by handler, from
`OrderlyInv == RoomInv /\ OneOfAKind /\ ~reinvited`. It is about the histories of
`SpecOneInvitation`: no second invitation, and never two one-of-a-kind stacks in
one window. Both are deviations listed below; with either, TLC shows the contract
broken.

**`MapItemProofs`.** `MapItemTypes` needs that a thread in a handler works on a
drop that exists. `HandedOutOnce` rests on `OnceInv`, which adds that a handler
past its guard holds the drop's lock (`LocksHeld`), that the mover works on
everlast maps only (`MoverAtHome`), and for each drop that it has not been handed
out yet, or is marked, or is in the hands of the holder of its lock between the
hand-out and the mark (`AllHandedOut`). So it is shown why it does not matter
that the worker and the clearing threads mark drops without the lock: they only
ever mark. `NoMesoMade` builds on it: what was not handed out has paid nothing
(`PaidOnce`), so the shares are those of one hand-out, and the lemmas about
`Split` and `SplitInto` bound what rounding leaves of them. It assumes finitely
many characters with the bonus. `OwnersGoFirst` rests on `RightInv`: a drop changes
its type only when it is past its 30 seconds (`Freed`), and whoever passed the guard
was entitled then and still is, since time does not run back (`Rightful`).
`MapsTellTheTruth` rests on `TruthInv`. `MapTellsTruth` speaks of drops no thread
works on; the invariant says what holds of one that is worked on: that a drop marked and
still there is in the hands of a thread that is about to remove it (`Going`), one
unmarked is on the map (`Shown`), one handed out is marked or about to be
(`Given`); and it says where such threads are (`Blasting`, `OnTheSpot`,
`MarkedFirst`). `MarketIsServed` adds `RandDropKept` to it: four actions matter,
and of two threads that remove at once the last sees neither drop.

**`LoginSessionProofs`.** `SessionTypes` rests on `TypeInv`, which adds that a
connection in use belongs to a player and a server, whichever phase it is in.
`NobodyLeftBehind` (`NoGhost`) rests on
`GhostInv == TypeInv /\ NoGhost /\ NotBoth`: a player in a channel's storage is
never one that `World.Find` has in the cash shop, because in that case `disconnect`
takes the branch that leaves the channel's storage alone. This theorem has no
exception: it covers overtaken connections and left-over transfers as well.

`InOnePlace`, `FoundWherePlayed` and `RowsTellTheTruth` rest on `OrderInv`. None of
the three is inductive, nor are they together: that a second connection is not let in
depends on connections that are not in the game yet, and that the row stays true
on connections that are no longer. `OrderInv` therefore says of every player
that was not overtaken that at most one connection of it is in the game, holds the
row or is about to be let in (`OneLive`), and none while its game client is between two servers
(`Travels`); that connections left behind carry flags with which
their late `channelInactive` changes nothing (`LeftBehind`); and that row and storages
follow the live one (`RowOf`, `FoundOf`). `Base` says of all players, overtaken or not,
that only a change of servers times out, that a game client uses one connection, and which flags go with
which phase. `OneStep` and `EndOrder` prove this once for a step of one connection
and for `disconnect`; each handler is an instance.

`PlayedAsLeft` rests on `FreshInv`, which adds for each player that was neither
overtaken nor found with a transfer left over: a transfer waits at one
server at most, is current, and waits only while no connection is live (`HandsOver`); an
authorisation to load the character is there only if no transfer waits and nobody
plays or is still leaving (`Authorised`), for which one has to know that nobody sits
at the login server while a handler is still leaving (`AtLogin`); what the database does not have yet is in the
hands of a connection that will save it (`SafeCopy`); and who is in the game or
about to be has the current copy (`OnCurrent`).

**`ExpeditionProofs`.** `ExpeditionTyped` and `SquadsAreRemoved` (`Waiting`) rest on `Sound`: the
types, that a list names nobody twice, and that a thread in a
handler has the squad and the battle it works with. `EverybodyEnrolled` rests on
`Rolls`: whom a thread still has to register is in no battle and on no list of those
who left (`Expected`), so nobody is registered twice or for two battles. `FightersBelong` (`InBattle`)
holds until a warp is refused, which leaves a player in the arena without a battle.

**`ExpeditionBattleProofs`.** `OneBattleAtATime` and `DoorStaysShut` rest on
`Peace`: as long as `lapses` is empty, `Fray` and `MenuLeads` hold. They assume nothing of
what the players make use of, of lie detectors or of the number of players. `Fray` follows a battle from its start to its end: the
leader is registered first and stays while the others are (`Leads`), who is on the list
fights or is being warped in (`Listed`), one battle is live and every thread at work works
for it (`Alone`), and somebody in the arena holds it (`Fought`). `MenuLeads` says who may
start the next one: a leader's menu of the squad that the channel has is open only while
that squad forms and no battle is fought (`NoFight`: one that is still live is being wound
up). A start from any other menu is a lapse, and so is one while a battle is wound up or
somebody is on its way out; after what is left, nothing remains to do of the battle before
(`Quiet`), and the leader is the first to be registered (`Leads`).

**`TransportProofs`.** `TransportTyped`, `GateStaysShut`, `NobodyStowsAway` and
`RidesEndAsPromised` hold for the lines of `TransportScripts`, any number of passengers, and
any bounds on tests and logouts. The argument has two parts. `Timetabled` and `Charted` collect
what the proof needs of a script, and `AllTimetabled` proves them for each of the six.
`Timetabled` says which function docks and undocks, schedules which other, shuts the gate and
warps from which deck, and that the gate shuts before takeoff is due (of the ship, `Boats`, all
but the part about the gate, which is what is wrong with it, and `GateShutOnRide` excepts it);
`Charted` says that two rides share no maps and that nobody gets from near one to near the
other but by riding. The rest needs no script. `TransportInv`: of `init`, `takeoff` and `arrived`
one runs or one is scheduled (`Round`); the gate is shut, or will be before takeoff (`Gate`);
and who is aboard of a ship that lands came by itself or will be warped (`Swept`). `RideInv`
adds, for each passenger, that what the usher promised is the end of the ride it waits for or
is on (`Promising`); that in a waiting room no question is open from elsewhere (`Asked`); and
that whoever is on the list of a warp is on the ride which the warp ends, or near the one
it begins, and stays there if it answers what it was asked (`Caught`), so that a warp of someone
who has left the room meanwhile still takes it along the same ride.

**`GuildProofs`.** `GuildTypes` and `SeatsAreKept` rest on
`GuildInv`: the types; only guilds that were made have a list or a row; a handler
works on a guild that was made; and a guild that is being founded has an empty list and
no handler but its founder's. The seats are kept although a newcomer points to the guild
before it is let in, because `Join` counts and adds under the write lock, `Found` fills an
empty list, and every other step but a restart leaves a list as it is or makes it smaller;
a restart that lists somebody anew is what `revived` excepts. `OneLeads` rests on `LeadInv`,
which adds `Led`: while a guild is handed over, who has the first rank on the list in each
phase (the old leader, both, the heir alone), that the heir is a member and that the
handler's entry of it is the one on the list (`Holding`). Where a rank goes is `RankGoes`: to the
list of the guild that gives it unless another list has the character's own entry
(`Elsewhere`); that the points of a newcomer leave the first rank where it is, or are
excepted, is `ApplyPointsLed`. A restart ends a handover in any phase, and the guild's row decides who leads. `RecordsAgreed` rests on
`RecordsInv`, which speaks of every character that is not `astray`: outside the handlers that are
changing it, row and character say what the lists say (`OnRow`, `OnServer`); a founder
has no guild yet, and a newcomer points to a guild that does not list it (`Founder`, `Newcomer`); and who is in the
game is online on its guild's list (`Announced`), by which `Reach` decides
between the character and its row. Assumed are finitely many characters, a capacity of one at least, and that no
rank given by `ChangeRank` is the first.

**Model-checked only.** Liveness under fairness is outside what the prover does:
`Cleared`, `Comeback`, `BossFree` and `Served`. Every other property of the
passing runs is proved, most from an invariant that the runs do not list.

## Known deviations

Where the code does not do what one would expect, the models do what the code
does, and a property says what is left. One case contradicts a text of the
repository and is a run of its own, `transport_genie`. The others:

- Trade: a second invitation by an inviter (`MapleTrade.java:297`); goods lost when
  an inventory fills (`:71`) or two one-of-a-kind stacks are in one window (`:230`).
- Drops: an everlast map hands out what is being handed out
  (`MapleMap.java:2208`); a player moved in mid pick-up leaves a ghost
  (`InventoryHandler.java:2535`).
- Sessions: a late end resets the row of the next login (`MapleClient.java:924`); a
  left-over transfer takes the character back in time (`:659`).
- Expeditions: a refused warp leaves a player in the arena without a battle, and the
  squad for ever (`EventInstanceManager.java:867`, `npc/2141001.js:125`); the loser of two registrations
  clears the winner's squad (`NPCConversationManager.java:916`); a leader's old menu
  starts a second battle while a later squad has another leader (`npc/2141001.js:192`); a
  leader by reservation that takes itself off the list is not in the battle it starts, and the
  door opens on that battle (`MapleSquad.java:231`, `MapleMap.java:3673`); an old question lets a banned player
  join (`MapleSquad.java:219`); the squad takes one more than its seats (`:221`); a
  player returns into a battle that is being wound up (`EventInstanceManager.java:79`), and the door opens behind
  one who is in transit, so that a second battle can start; a battle started while the one
  before is wound up loses its shut door to the late reset (`MapleMap.java:3676`). `LiveBattle`, `OwnClear`, `BannedStayOut` and `AtMostThirty` at the end of `Expedition`
  state what is not kept.
- Transport: the usher in Singapore tests the gate the other way round from the one in
  Kerning (`npc/9270038.js:51`, `npc/9270041.js:50`); the ship's gate closes five minutes
  after takeoff (`event/Boats.js:9`); the Balrog is due when the ship arrives (`:28`).
- Guilds: the exceptions `astray`, `disturbed` and `revived` above, among them that
  `gainGP` puts back an old rank on the list of a newcomer's guild (`MapleGuild.java:1055`,
  `MapleCharacter.java:5450`), so that a guild handed over to a newcomer may be left without
  a member of the first rank; a list on which nobody has a better rank than the last may take
  a member to be added and add nobody (`MapleGuild.java:759`).

## Not modelled

Shops and merchants, parties, families, buddies, the messenger, monsters and
reactors, inventories and storage, cash shop and MTS, mini-games, quests, statistics, the
codec, and the components that keep no state; `PROJECT.json` has the reason for each.
Guild alliances, capacity, emblem, bulletin board and skills, the deletion of a member's character, event instances
other than the boss battles, and a second machine on one account are left out of
modules that exist.

`src/resource/scripts` holds some 10,700 JavaScript files and 620,000 lines. Nearly all are
dialogs that show text and warp or sell, many of them several times over in copies of the
directory (`npc`, `npc2`, `npc - 副本`, `scripts107`). Only scripts that keep state
between calls or are run by timers have a behaviour to model, and of these the
transport lines and a boss battle are; the models cover a small share of the
scripts' lines, and the core of the server they call.

## Plan

What is left, most useful first:

1. Abstract specifications with proved refinements beside `TradeContract`: sessions (a
   character is nowhere, in one place, or on its way, and never older than it was), and
   drops (one drop, one hand-out).
2. Shops: buyers cut at `getMeso` and `setMeso`, the owner who tidies up or closes,
   the DELETE and INSERT of a save with a crash in between.
3. Parties: membership in the party and in the character, six seats, leadership.
4. Extensions: the item reactor as a thread of `MapleMapItem`; `MapleTrade` with
   handlers cut at their reads and writes.
