-------------------------------- MODULE Guild --------------------------------
(***************************************************************************)
(* Guilds: handling/world/guild/MapleGuild.java and World.Guild, reached   *)
(* through handling/channel/handler/GuildHandler.java and the guild hall's *)
(* NPC.                                                                    *)
(*                                                                         *)
(* Who is in which guild, and with which rank, is kept three times: in the *)
(* guild's list of members (`members'), in the character that plays        *)
(* (`mine'), and in the character's row of the database (`charRow'), from  *)
(* which a restart builds the lists anew.  Each player has a thread.  A    *)
(* handler is cut where it reads the list without the guild's lock and     *)
(* acts on what it found later; what runs under a write lock is one step.  *)
(***************************************************************************)
EXTENDS Integers, FiniteSets

CONSTANTS
    Char,        \* the characters
    GuildId,     \* ids of guilds; its size bounds how many are ever founded
    NoGuild,     \* guild id 0
    NoOne,       \* the leader of a guild without a row
    Capacity,    \* MapleGuild.capacity
    GivenRanks,  \* the ranks a player gives to a member
    MaxBusy,     \* bound: handlers that run at a time
    MaxMoving    \* bound: characters that come or change servers at a time

ASSUME GuildAssumption ==
    /\ NoGuild \notin GuildId
    /\ NoOne \notin Char
    /\ Capacity \in Nat \ {0}
    /\ IsFiniteSet(Char)
    /\ GivenRanks \subseteq 2..5
    /\ MaxBusy \in Nat
    /\ MaxMoving \in Nat

Membership == [guild : GuildId \cup {NoGuild}, rank : 1..5]
\* Outside a guild the rank is 5 (not 0).
OutsideUnranked == [guild |-> NoGuild, rank |-> 0]
Outside == [guild |-> NoGuild, rank |-> 5]

Ops == {"idle", "founding", "joining", "joined", "points", "rank",
        "crown", "uncrown", "crowned"}
Task == [op : Ops, guild : GuildId \cup {NoGuild}, target : Char \cup {NoOne}, rank : 1..5]
Idle == [op |-> "idle", guild |-> NoGuild, target |-> NoOne, rank |-> 5]

VARIABLES
    guildRow,  \* the table guilds: the leader column
    charRow,   \* the table characters: guildid and guildrank
    made,      \* the ids the table has given out
    guilds,    \* World.Guild.guilds
    leader,    \* MapleGuild.leader
    members,   \* MapleGuild.members: a rank, or 0 for somebody not listed
    online,    \* the members whose MapleGuildCharacter.online is set
    place,     \* where a character is
    mine,      \* MapleCharacter.guildid and guildrank, or their transfer's
    shared,    \* the guild whose list has the character's own MapleCharacter.mgc
    invited,   \* GuildHandler.invited
    task,      \* what is left of each player's handler
    stale,     \* players whose handler has found a member taken off since
    astray,    \* history: characters that missed a change, or got a late one
    disturbed, \* history: somebody else acted on the heir, or as the leader,
               \* while a guild was handed over, or an old rank came back
    revived    \* history: a restart listed somebody who was listed no more

dbVars == <<guildRow, charRow, made>>
guildVars == <<guilds, leader, members, online>>
charVars == <<place, mine, shared>>
historyVars == <<astray, disturbed, revived>>
vars == <<dbVars, guildVars, charVars, invited, task, stale, historyVars>>

Place == {"offline", "entering", "game", "leaving", "transit"}

-----------------------------------------------------------------------------
Init ==
    /\ guildRow = [g \in GuildId |-> NoOne]
    /\ charRow = [c \in Char |-> Outside]
    /\ made = {}
    /\ guilds = {}
    /\ leader = [g \in GuildId |-> NoOne]
    /\ members = [g \in GuildId |-> [c \in Char |-> 0]]
    /\ online = [g \in GuildId |-> {}]
    /\ place = [c \in Char |-> "offline"]
    /\ mine = [c \in Char |-> Outside]
    /\ shared = [c \in Char |-> NoGuild]
    /\ invited = [c \in Char |-> NoGuild]
    /\ task = [c \in Char |-> Idle]
    /\ stale = {}
    /\ astray = {}
    /\ disturbed = FALSE
    /\ revived = FALSE

Listed(g) == {c \in Char : members[g][c] # 0}

\* A player's packets, and the end of its connection, are handled one by one.
Free(c) == place[c] = "game" /\ task[c] = Idle
MayBegin == Cardinality({c \in Char : task[c] # Idle}) < MaxBusy
MayMove == Cardinality({c \in Char : place[c] \notin {"offline", "game"}}) < MaxMoving
\* ... the player is in a guild that can be found (getGuild), with one of the
\* first n ranks.
In(c, g, n) == Free(c) /\ g \in guilds /\ mine[c].guild = g /\ mine[c].rank <= n

Begin(c, op, g, d, r) ==
    task' = [task EXCEPT ![c] = [op |-> op, guild |-> g, target |-> d, rank |-> r]]
Doing(c, op) == task[c].op = op
Finish(c) == task' = [task EXCEPT ![c] = Idle]

-----------------------------------------------------------------------------
(* Telling members.                                                        *)

\* The members in S become m, the entries of those in `on' being set online.
\* setGuildAndRank finds only a character that is on a server: it is lost on
\* one between two servers, and one whose transfer has been made keeps the old
\* values in it.  A member that the list has for offline is changed in the
\* database only (setOfflineGuildStatus).
Finds(on, d) == d \in on /\ place[d] \in {"game", "leaving"}
Hears(on, d) == d \in on /\ place[d] = "game"
Stored(on, d) == d \in on => place[d] \in {"game", "leaving"}
Reach(on, S, m) ==
    /\ mine' = [d \in Char |-> IF d \in S /\ Hears(on, d) THEN m ELSE mine[d]]
    /\ charRow' = [d \in Char |-> IF d \in S /\ Stored(on, d) THEN m ELSE charRow[d]]
    /\ shared' = [d \in Char |-> IF d \in S /\ Finds(on, d) /\ m = Outside
                                  THEN NoGuild ELSE shared[d]]

\* The rank a character is told goes to its own entry as well (setGuildRank),
\* on whichever list that is.
Own(on, d) == IF Finds(on, d) THEN {shared[d]} ELSE {}
Ranked(d, G, r) ==
    [g \in GuildId |-> [c \in Char |->
        IF c = d /\ g \in G /\ c \in Listed(g) THEN r ELSE members[g][c]]]

\* Those in S that a change misses somewhere: between two servers, or gone
\* from there without having been seen to leave.
Missed(g, S) ==
    {d \in S : \/ place[d] \in {"entering", "leaving", "transit"}
               \/ place[d] = "offline" /\ d \in online[g]}

\* A change of d that was found on the list of g by an earlier step is late
\* when d, or the guild, has been taken off meanwhile, or the list says
\* something else by now.
Late(g, d, r) == IF g \in guilds /\ members'[g][d] = r THEN {} ELSE {d}

\* changeRank, once c has found the member.  An entry taken off since is no
\* more the one on the list, and may be online or not.
ApplyRank(c, g, d, r) ==
    \E on \in IF c \in stale THEN SUBSET {d} ELSE {online[g]} :
        /\ Reach(on, {d}, [guild |-> g, rank |-> r])
        /\ members' = Ranked(d, Own(on, d) \cup (IF c \in stale THEN {} ELSE {g}), r)
        /\ astray' = astray \cup Missed(g, {d}) \cup Late(g, d, r) \cup {e \in {d} : c \in stale}

\* A change of d for the guild g that reaches the list of another one.
Elsewhere(g, d) == shared[d] \notin {NoGuild, g}

-----------------------------------------------------------------------------
(* Founding and joining.                                                   *)

\* createGuild: a row with a fresh id.
Create(c) ==
    /\ MayBegin
    /\ Free(c) /\ mine[c].guild = NoGuild
    /\ \E g \in GuildId \ made :
        /\ made' = made \cup {g}
        /\ guildRow' = [guildRow EXCEPT ![g] = c]
        /\ Begin(c, "founding", g, c, 1)
    /\ UNCHANGED <<charRow, guildVars, charVars, invited, stale, historyVars>>

\* The founder's status is saved, and the guild is loaded with it.
Found(c) ==
    LET g == task[c].guild
        m == [guild |-> g, rank |-> 1]
    IN
    /\ Doing(c, "founding")
    /\ mine' = [mine EXCEPT ![c] = m]
    /\ charRow' = [charRow EXCEPT ![c] = m]
    /\ guilds' = guilds \cup {g}
    /\ leader' = [leader EXCEPT ![g] = c]
    /\ members' = [members EXCEPT ![g][c] = 1]
    /\ online' = [online EXCEPT ![g] = {c}]
    /\ Finish(c)
    /\ UNCHANGED <<guildRow, made, place, shared, invited, stale, historyVars>>

\* sendInvite
Invite(c, d) ==
    /\ \E g \in guilds :
        /\ In(c, g, 2)
        /\ invited[d] = NoGuild
        /\ place[d] = "game" /\ mine[d].guild = NoGuild
        /\ invited' = [invited EXCEPT ![d] = g]
    /\ UNCHANGED <<dbVars, guildVars, charVars, task, stale, historyVars>>

\* An invitation is denied or pruned; nothing else takes it back.
Lapse(d) ==
    /\ invited[d] # NoGuild
    /\ invited' = [invited EXCEPT ![d] = NoGuild]
    /\ UNCHANGED <<dbVars, guildVars, charVars, task, stale, historyVars>>

\* The invitation is taken up: the character has the guild before the guild
\* has it, unless the guild is gone.
Accept(c) ==
    LET g == invited[c] IN
    /\ MayBegin
    /\ Free(c) /\ mine[c].guild = NoGuild
    /\ g # NoGuild
    /\ invited' = [invited EXCEPT ![c] = NoGuild]
    /\ IF g \in guilds
       THEN /\ mine' = [mine EXCEPT ![c] = [guild |-> g, rank |-> 5]]
            /\ Begin(c, "joining", g, c, 5)
       ELSE /\ mine' = [mine EXCEPT ![c] = Outside]
            /\ UNCHANGED task
    /\ UNCHANGED <<dbVars, guildVars, place, shared, stale, historyVars>>

\* The test of addGuildMember (and one that is off by one)
OverFull(g) == Cardinality(Listed(g)) > Capacity
Full(g) == Cardinality(Listed(g)) >= Capacity

\* The list has the character's own entry, with what another thread may have
\* told it since it accepted.
Enlist(g, c) ==
    /\ members' = [members EXCEPT ![g][c] = mine[c].rank]
    /\ online' = [online EXCEPT ![g] = @ \cup {c}]
    /\ shared' = [shared EXCEPT ![c] = IF mine[c].guild = NoGuild THEN NoGuild ELSE g]

\* addGuildMember, under the write lock: the character's own entry goes on the
\* list, before the first that has the last rank and a greater name - if all
\* have, nowhere.  Somebody astray may be listed already: of its two entries,
\* the one with a better rank than the last comes first and is found.
Join(c) ==
    LET g == task[c].guild IN
    /\ Doing(c, "joining")
    /\ IF Full(g)
       THEN /\ mine' = [mine EXCEPT ![c].guild = NoGuild]
            /\ Finish(c)
            /\ UNCHANGED <<members, online, shared, astray, disturbed>>
       ELSE /\ \E put \in IF \E d \in Listed(g) : members[g][d] < 5 THEN {TRUE} ELSE BOOLEAN :
                /\ IF put /\ members[g][c] \in {0, 5}
                   THEN Enlist(g, c)
                   ELSE UNCHANGED <<members, online, shared>>
                /\ astray' = astray \cup (IF put THEN {} ELSE {c})
            /\ disturbed' = (disturbed \/ mine[c].rank = 1)
            /\ Begin(c, "joined", g, c, 5)
            /\ UNCHANGED mine
    /\ UNCHANGED <<dbVars, guilds, leader, place, invited, stale, revived>>

\* gainGP for one member: getMGC takes no lock, ...
Points(c, g) ==
    /\ Begin(c, "points", g, c, members[g][c])
    /\ UNCHANGED <<dbVars, guildVars, charVars, invited, stale, historyVars>>

\* ... and the status is set to what was found, on the list too if the entry is
\* the character's own: a rank given meanwhile is lost.
ApplyPoints(c) ==
    LET g == task[c].guild
        r == task[c].rank
    IN
    /\ Doing(c, "points")
    /\ Reach(online[g], {c}, [guild |-> g, rank |-> r])
    /\ members' = Ranked(c, Own(online[g], c), r)
    /\ astray' = astray \cup Missed(g, {c}) \cup Late(g, c, r)
    /\ disturbed' = (disturbed \/ Elsewhere(g, c)
                               \/ (members' # members /\ 1 \in {members[g][c], r}))
    /\ Finish(c)
    /\ UNCHANGED <<guildRow, made, guilds, leader, online, place, invited, stale, revived>>

\* The newcomer brings the guild points; saveGuildStatus writes what the
\* character has by then, which is news only if there were none.
Joined(c) ==
    LET g == task[c].guild IN
    /\ Doing(c, "joined")
    /\ \/ c \in Listed(g) /\ Points(c, g)
       \/ /\ c \notin Listed(g)
          /\ charRow' = [charRow EXCEPT ![c] = mine[c]]
          /\ Finish(c)
          /\ UNCHANGED <<guildRow, made, guildVars, charVars, invited, stale, historyVars>>

\* A member earns points: a level, an hour with the fairy pendant.
Earn(c) == MayBegin /\ \E g \in guilds : In(c, g, 5) /\ c \in Listed(g) /\ Points(c, g)

-----------------------------------------------------------------------------
(* Leaving, ranks, the leader.  The game client offers a leader no way to   *)
(* leave, and nobody a command over members of the own rank or above; the   *)
(* code tests only the ranks from 1 to 2 that the guards show.              *)

\* changeGuildLeader: two changes of rank, then the leader.
Handover(g) == {c \in Char : task[c].guild = g /\ task[c].op \in {"crown", "uncrown", "crowned"}}
Heir(g, d) == \E c \in Handover(g) : task[c].target = d

Remove(g, d) ==
    /\ members' = [members EXCEPT ![g][d] = 0]
    /\ Reach(online[g], {d}, Outside)
    /\ stale' = stale \cup {c \in Char : /\ task[c].op \in {"rank", "crown"}
                                        /\ task[c].guild = g /\ task[c].target = d}
    /\ astray' = astray \cup Missed(g, {d})
    /\ disturbed' = (disturbed \/ Heir(g, d))

\* leaveGuild, under the write lock.
Leave(c) ==
    /\ \E g \in guilds :
        /\ In(c, g, 5) /\ members[g][c] # 1
        /\ c \in Listed(g)
        /\ Remove(g, c)
    /\ UNCHANGED <<guildRow, made, guilds, leader, online, place, invited, task, revived>>

\* expelMember, under the write lock.
Expel(c, d) ==
    /\ \E g \in guilds :
        /\ In(c, g, 2)
        /\ mine[c].rank < members[g][d]
        /\ Remove(g, d)
    /\ UNCHANGED <<guildRow, made, guilds, leader, online, place, invited, task, revived>>

\* changeRank: without a lock, the member is found, ...
ChangeRank(c, d, r) ==
    /\ MayBegin
    /\ \E g \in guilds :
        /\ In(c, g, 2)
        /\ r <= 2 => mine[c].rank = 1
        /\ c \in Listed(g) /\ members[g][c] < members[g][d]
        /\ Begin(c, "rank", g, d, r)
    /\ UNCHANGED <<dbVars, guildVars, charVars, invited, stale, historyVars>>

\* ... and changed.
FinishRank(c) ==
    LET t == task[c] IN
    /\ Doing(c, "rank")
    /\ ApplyRank(c, t.guild, t.target, t.rank)
    /\ disturbed' = (disturbed \/ Heir(t.guild, t.target) \/ leader[t.guild] = t.target
                               \/ Elsewhere(t.guild, t.target))
    /\ Finish(c)
    /\ stale' = stale \ {c}
    /\ UNCHANGED <<guildRow, made, guilds, leader, online, place, invited, revived>>

HandOver(c, d) ==
    /\ MayBegin
    /\ \E g \in guilds :
        /\ In(c, g, 1) /\ members[g][c] = 1
        /\ d # c /\ d \in Listed(g)
        /\ Begin(c, "crown", g, d, 1)
        /\ disturbed' = (disturbed \/ Handover(g) # {})
    /\ UNCHANGED <<dbVars, guildVars, charVars, invited, stale, astray, revived>>

Crown(c) ==
    LET t == task[c] IN
    /\ Doing(c, "crown")
    /\ ApplyRank(c, t.guild, t.target, 1)
    /\ disturbed' = (disturbed \/ Elsewhere(t.guild, t.target))
    /\ Begin(c, "uncrown", t.guild, t.target, 2)
    /\ stale' = stale \ {c}
    /\ UNCHANGED <<guildRow, made, guilds, leader, online, place, invited, revived>>

\* The second change looks for the old leader, whom nobody can take off.
Uncrown(c) ==
    LET t == task[c] IN
    /\ Doing(c, "uncrown")
    /\ IF leader[t.guild] \in Listed(t.guild)
       THEN /\ ApplyRank(c, t.guild, leader[t.guild], 2)
            /\ disturbed' = (disturbed \/ Elsewhere(t.guild, leader[t.guild]))
            /\ Begin(c, "crowned", t.guild, t.target, 2)
       ELSE /\ Finish(c)
            /\ UNCHANGED <<charRow, members, mine, shared, astray, disturbed>>
    /\ UNCHANGED <<guildRow, made, guilds, leader, online, place, invited, stale, revived>>

\* The list's leader and the table's; a table without the row stays so.
Crowned(c) ==
    LET t == task[c] IN
    /\ Doing(c, "crowned")
    /\ leader' = [leader EXCEPT ![t.guild] = t.target]
    /\ guildRow' = [guildRow EXCEPT ![t.guild] = IF @ = NoOne THEN NoOne ELSE t.target]
    /\ Finish(c)
    /\ UNCHANGED <<charRow, made, guilds, members, online, charVars, invited, stale, historyVars>>

\* disbandGuild of the NPC, under the lock of World.Guild: the row is deleted,
\* everybody told, the guild forgotten.  The object keeps its list.
Disband(c) ==
    /\ \E g \in guilds :
        /\ In(c, g, 1)
        /\ guildRow' = [guildRow EXCEPT ![g] = NoOne]
        /\ guilds' = guilds \ {g}
        /\ Reach(online[g], Listed(g), Outside)
        /\ astray' = astray \cup Missed(g, Listed(g))
        /\ disturbed' = (disturbed \/ Handover(g) # {})
    /\ UNCHANGED <<made, leader, members, online, place, invited, task, stale, revived>>

-----------------------------------------------------------------------------
(* Coming, going, and between two servers.                                 *)

\* loadCharFromDB
Load(c) ==
    /\ MayMove
    /\ place[c] = "offline"
    /\ place' = [place EXCEPT ![c] = "entering"]
    /\ mine' = [mine EXCEPT ![c] = charRow[c]]
    /\ UNCHANGED <<dbVars, guildVars, shared, invited, task, stale, historyVars>>

\* setOnline (and its omission)
SetOnlineNever(g, c) == online' = online
SetOnline(g, c) ==
    online' = IF c \in Listed(g) THEN [online EXCEPT ![g] = @ \cup {c}] ELSE online

\* The end of Loggedin: the member is online, or its guild is gone and left.
Enter(c) ==
    LET g == mine[c].guild IN
    /\ place[c] \in {"entering", "transit"}
    /\ place' = [place EXCEPT ![c] = "game"]
    /\ IF g \in guilds
       THEN SetOnline(g, c) /\ UNCHANGED <<mine, charRow>>
       ELSE /\ mine' = [mine EXCEPT ![c] = IF g = NoGuild THEN @ ELSE Outside]
            /\ charRow' = [charRow EXCEPT ![c] = IF g = NoGuild THEN @ ELSE Outside]
            /\ UNCHANGED online
    /\ UNCHANGED <<guildRow, made, guilds, leader, members, shared, invited, task, stale, historyVars>>

\* disconnect
LogOut(c) ==
    LET g == mine[c].guild IN
    /\ Free(c)
    /\ place' = [place EXCEPT ![c] = "offline"]
    /\ mine' = [mine EXCEPT ![c] = Outside]
    /\ shared' = [shared EXCEPT ![c] = NoGuild]
    /\ online' = IF g \in guilds /\ c \in Listed(g) THEN [online EXCEPT ![g] = @ \ {c}] ELSE online
    /\ UNCHANGED <<dbVars, guilds, leader, members, invited, task, stale, historyVars>>

\* changeChannel, EnterCS: the transfer is made, ...
Transfer(c) ==
    /\ MayMove
    /\ Free(c)
    /\ place' = [place EXCEPT ![c] = "leaving"]
    /\ UNCHANGED <<dbVars, guildVars, mine, shared, invited, task, stale, historyVars>>

\* ... then the character is taken off the server.  The list keeps it online.
Depart(c) ==
    /\ place[c] = "leaving"
    /\ place' = [place EXCEPT ![c] = "transit"]
    /\ shared' = [shared EXCEPT ![c] = NoGuild]
    /\ UNCHANGED <<dbVars, guildVars, mine, invited, task, stale, historyVars>>

\* The game client does not come to the next server.
Stray(c) ==
    /\ place[c] \in {"entering", "transit"}
    /\ place' = [place EXCEPT ![c] = "offline"]
    /\ mine' = [mine EXCEPT ![c] = Outside]
    /\ UNCHANGED <<dbVars, guildVars, shared, invited, task, stale, historyVars>>

-----------------------------------------------------------------------------
(* A crash, and GuildLoad at the next start: what is in the tables is all   *)
(* there is.  A guild without members, or without its leader among them, is *)
(* deleted.                                                                 *)

Heirs(g) == {c \in Char : charRow[c].guild = g}
Kept == {g \in GuildId : guildRow[g] \in Heirs(g)}

\* The rank on the list (and the one in the row)
RowRank(g, c) == charRow[c].rank
ListRank(g, c) ==
    CASE guildRow[g] = c -> 1
      [] guildRow[g] # c /\ charRow[c].rank = 1 -> 2
      [] OTHER -> charRow[c].rank

\* The repair of the row, gFix, is always written to the leader: 1 if the
\* leader had another rank, and else 2 if somebody else had the leader's.
Mended(g, c) ==
    CASE guildRow[g] # c -> charRow[c].rank
      [] guildRow[g] = c /\ charRow[c].rank # 1 -> 1
      [] guildRow[g] = c /\ charRow[c].rank = 1 ->
            IF \E d \in Heirs(g) \ {c} : charRow[d].rank = 1 THEN 2 ELSE 1

Restart ==
    /\ guilds' = Kept
    /\ guildRow' = [g \in GuildId |-> IF g \in Kept THEN guildRow[g] ELSE NoOne]
    /\ leader' = guildRow'
    /\ members' = [g \in GuildId |-> [c \in Char |->
          IF g \in Kept /\ c \in Heirs(g) THEN ListRank(g, c) ELSE 0]]
    /\ charRow' = [c \in Char |->
          IF charRow[c].guild \in Kept
          THEN [charRow[c] EXCEPT !.rank = Mended(charRow[c].guild, c)]
          ELSE charRow[c]]
    /\ online' = [g \in GuildId |-> {}]
    /\ place' = [c \in Char |-> "offline"]
    /\ mine' = [c \in Char |-> Outside]
    /\ shared' = [c \in Char |-> NoGuild]
    /\ invited' = [c \in Char |-> NoGuild]
    /\ task' = [c \in Char |-> Idle]
    /\ stale' = {}
    /\ astray' = {c \in Char : \E g \in Kept :
          c \in Heirs(g) /\ Mended(g, c) # ListRank(g, c)}
    /\ disturbed' = FALSE
    /\ revived' = (revived \/ \E g \in Kept : ~ (Heirs(g) \subseteq Listed(g)))
    /\ UNCHANGED made

-----------------------------------------------------------------------------
Handles(c) ==
    \/ Found(c) \/ Join(c) \/ Joined(c) \/ ApplyPoints(c) \/ FinishRank(c)
    \/ Crown(c) \/ Uncrown(c) \/ Crowned(c)

Next ==
    \/ \E c \in Char :
        \/ Create(c) \/ Accept(c) \/ Earn(c) \/ Leave(c) \/ Disband(c) \/ Lapse(c)
        \/ Handles(c)
        \/ Load(c) \/ Enter(c) \/ LogOut(c) \/ Transfer(c) \/ Depart(c) \/ Stray(c)
    \/ \E c, d \in Char :
        \/ Invite(c, d) \/ Expel(c, d) \/ HandOver(c, d)
        \/ \E r \in GivenRanks : ChangeRank(c, d, r)
    \/ Restart

Spec == Init /\ [][Next]_vars

-----------------------------------------------------------------------------
TypeOK ==
    /\ guildRow \in [GuildId -> Char \cup {NoOne}]
    /\ charRow \in [Char -> Membership]
    /\ made \subseteq GuildId
    /\ guilds \subseteq made
    /\ leader \in [GuildId -> Char \cup {NoOne}]
    /\ members \in [GuildId -> [Char -> 0..5]]
    /\ online \in [GuildId -> SUBSET Char]
    /\ place \in [Char -> Place]
    /\ mine \in [Char -> Membership]
    /\ shared \in [Char -> GuildId \cup {NoGuild}]
    /\ invited \in [Char -> GuildId \cup {NoGuild}]
    /\ task \in [Char -> Task]
    /\ stale \subseteq Char
    /\ astray \subseteq Char
    /\ disturbed \in BOOLEAN
    /\ revived \in BOOLEAN

\* Two that join on two threads, a newcomer that finds the guild disbanded
\* meanwhile, a rank or a leader that changes: the list never grows beyond
\* MapleGuild.capacity, but by a restart that lists again whom the list had
\* lost.
SeatsKept == ~ revived => \A g \in GuildId : Cardinality(Listed(g)) <= Capacity

\* c is not in the middle of joining, where the three follow one another.
Settled(c) == task[c].op \notin {"joining", "joined", "points"}

\* The three records of a membership agree: the list of a guild, the row that
\* a restart would build it from, and the character in the game or on its way
\* (MapleGuild.members, setOfflineGuildStatus, setGuildAndRank) - except for
\* a character that was between two servers when its membership changed, or
\* whose change of rank or points came after it was taken off.
Agreed ==
    \A c \in Char \ astray : Settled(c) =>
        \A g \in guilds :
            /\ charRow[c].guild = g <=> c \in Listed(g)
            /\ c \in Listed(g) => charRow[c].rank = members[g][c]
            /\ place[c] # "offline" =>
                /\ mine[c].guild = g <=> c \in Listed(g)
                /\ c \in Listed(g) => mine[c].rank = members[g][c]

\* A guild is led by the one member of the first rank, as soon as nobody is
\* handing it over, and also after a crash in the middle of a handover.  The
\* code does not keep it when, before the old leader's handler is through, the
\* heir leaves, is expelled or given a rank, the leader is given one, or a
\* second handover or the end of the guild comes; when the points of a newcomer
\* (gainGP) bring back the rank it had before it took over, or gave away, the
\* lead; when a rank of one guild goes to the entry that a character has on the
\* list of another; when one is told the first rank of its old guild while it
\* joins.  `disturbed' is set by these and nothing else.
OneLeader ==
    ~ disturbed => \A g \in guilds : Handover(g) = {} =>
        {c \in Char : members[g][c] = 1} = {leader[g]}
=============================================================================
