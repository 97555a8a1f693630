---------------------------- MODULE GuildProofs ----------------------------
(* What is proved of the guilds of any number of characters, with any      *)
(* number of handlers, moves between servers and restarts.                 *)
EXTENDS Guild, FiniteSetTheorems, TLAPS

-----------------------------------------------------------------------------
(* The inductive invariant.                                                *)

\* Only a guild that has been given an id has a row or a list.
MadeFirst ==
    \A g \in GuildId : (guildRow[g] # NoOne \/ Listed(g) # {}) => g \in made

\* A handler under way works on such a guild and on a character.
Aimed ==
    \A c \in Char : task[c] # Idle => task[c].guild \in made /\ task[c].target \in Char

\* Nobody else knows the guild that a handler is founding.
FoundsAlone ==
    \A c \in Char : task[c].op = "founding" =>
        /\ task[c].guild \notin guilds
        /\ Listed(task[c].guild) = {}
        /\ \A d \in Char \ {c} : task[d].guild # task[c].guild

GuildInv == TypeOK /\ MadeFirst /\ Aimed /\ FoundsAlone

-----------------------------------------------------------------------------
(* The operators that the actions are made of.                             *)

LEMMA OutsideType == Outside \in Membership
  BY DEF Outside, Membership

LEMMA IdleType == Idle \in Task /\ Idle.op = "idle" /\ Idle.guild = NoGuild
  BY DEF Idle, Task, Ops

LEMMA ListedChar ==
    ASSUME NEW g
    PROVE  Listed(g) \subseteq Char
  BY DEF Listed

LEMMA ListedIn ==
    ASSUME TypeOK, NEW g \in GuildId, NEW c \in Listed(g)
    PROVE  members[g][c] \in 1..5
  BY DEF TypeOK, Listed

\* Telling a change keeps the two records' types.
LEMMA ReachType ==
    ASSUME TypeOK, NEW on, NEW S, NEW m \in Membership, Reach(on, S, m)
    PROVE  /\ mine' \in [Char -> Membership] /\ charRow' \in [Char -> Membership]
           /\ shared' \in [Char -> GuildId \cup {NoGuild}]
  BY DEF TypeOK, Reach

LEMMA MissedType ==
    ASSUME NEW g, NEW S \in SUBSET Char
    PROVE  Missed(g, S) \subseteq Char
  BY DEF Missed

LEMMA LateType ==
    ASSUME NEW g, NEW d \in Char, NEW r
    PROVE  Late(g, d, r) \subseteq Char
  BY DEF Late

\* A change of rank lists nobody and takes nobody off.
LEMMA RankedEffect ==
    ASSUME TypeOK, NEW d \in Char, NEW G, NEW r \in 1..5, members' = Ranked(d, G, r)
    PROVE  /\ members' \in [GuildId -> [Char -> 0..5]]
           /\ \A h \in GuildId : Listed(h)' = Listed(h)
           /\ \A h \in GuildId, c \in Char :
                 members'[h][c] = IF c = d /\ h \in G /\ members[h][c] # 0 THEN r ELSE members[h][c]
  <1>1. \A h \in GuildId, c \in Char :
            members'[h][c] = IF c = d /\ h \in G /\ members[h][c] # 0 THEN r ELSE members[h][c]
    BY DEF Ranked, Listed
  <1>2. members' \in [GuildId -> [Char -> 0..5]]
    <2>1. \A h \in GuildId, c \in Char : members[h][c] \in 0..5
      BY DEF TypeOK
    <2> QED BY <2>1 DEF Ranked
  <1>3. ASSUME NEW h \in GuildId, NEW c \in Char
        PROVE  members'[h][c] # 0 <=> members[h][c] # 0
    BY <1>1
  <1>4. \A h \in GuildId : Listed(h)' = Listed(h)
    BY <1>3 DEF Listed
  <1> QED BY <1>1, <1>2, <1>4

LEMMA ApplyRankEffect ==
    ASSUME GuildAssumption, TypeOK, NEW c \in Char, NEW g \in GuildId, NEW d \in Char,
           NEW r \in 1..5, ApplyRank(c, g, d, r)
    PROVE  /\ mine' \in [Char -> Membership]
           /\ charRow' \in [Char -> Membership]
           /\ shared' \in [Char -> GuildId \cup {NoGuild}]
           /\ members' \in [GuildId -> [Char -> 0..5]]
           /\ astray' \subseteq Char
           /\ \A h \in GuildId : Listed(h)' = Listed(h)
  <1>1. [guild |-> g, rank |-> r] \in Membership
    BY DEF Membership
  <1>2. PICK on : /\ Reach(on, {d}, [guild |-> g, rank |-> r])
                  /\ members' = Ranked(d, Own(on, d) \cup (IF c \in stale THEN {} ELSE {g}), r)
                  /\ astray' = astray \cup Missed(g, {d}) \cup Late(g, d, r) \cup {e \in {d} : c \in stale}
    BY DEF ApplyRank
  <1>3. /\ mine' \in [Char -> Membership] /\ charRow' \in [Char -> Membership]
        /\ shared' \in [Char -> GuildId \cup {NoGuild}]
    BY <1>1, <1>2, ReachType
  <1>4. astray' \subseteq Char
    <2>1. Missed(g, {d}) \subseteq Char /\ Late(g, d, r) \subseteq Char /\ astray \subseteq Char
      BY MissedType, LateType DEF TypeOK
    <2> QED BY <1>2, <2>1
  <1>5. members' \in [GuildId -> [Char -> 0..5]] /\ \A h \in GuildId : Listed(h)' = Listed(h)
    BY <1>2, RankedEffect
  <1> QED BY <1>3, <1>4, <1>5

\* Taking a member off.
LEMMA RemoveEffect ==
    ASSUME GuildAssumption, TypeOK, NEW g \in GuildId, NEW d \in Char, Remove(g, d)
    PROVE  /\ mine' \in [Char -> Membership]
           /\ charRow' \in [Char -> Membership]
           /\ shared' \in [Char -> GuildId \cup {NoGuild}]
           /\ members' \in [GuildId -> [Char -> 0..5]]
           /\ stale' \subseteq Char
           /\ astray' \subseteq Char
           /\ disturbed' \in BOOLEAN
           /\ \A h \in GuildId : Listed(h)' \subseteq Listed(h)
  <1>1. /\ mine' \in [Char -> Membership] /\ charRow' \in [Char -> Membership]
        /\ shared' \in [Char -> GuildId \cup {NoGuild}]
    BY OutsideType, ReachType DEF Remove
  <1>2. astray' \subseteq Char /\ stale' \subseteq Char
    BY MissedType DEF Remove, TypeOK
  <1>3. members' = [members EXCEPT ![g][d] = 0]
    BY DEF Remove
  <1>4. members' \in [GuildId -> [Char -> 0..5]]
    BY <1>3 DEF TypeOK
  <1>5. ASSUME NEW h \in GuildId, NEW c \in Char
        PROVE  members'[h][c] # 0 => members[h][c] # 0
    BY <1>3 DEF TypeOK
  <1>6. \A h \in GuildId : Listed(h)' \subseteq Listed(h)
    BY <1>5 DEF Listed
  <1>7. disturbed' \in BOOLEAN
    BY DEF Remove, TypeOK
  <1> QED BY <1>1, <1>2, <1>4, <1>6, <1>7

LEMMA BeginEffect ==
    ASSUME TypeOK, NEW c \in Char, NEW op \in Ops, NEW g \in GuildId,
           NEW d \in Char, NEW r \in 1..5, Begin(c, op, g, d, r)
    PROVE  /\ task' \in [Char -> Task]
           /\ task'[c].op = op /\ task'[c].guild = g /\ task'[c].target = d
           /\ \A e \in Char \ {c} : task'[e] = task[e]
  BY DEF TypeOK, Begin, Task

LEMMA FinishEffect ==
    ASSUME TypeOK, NEW c \in Char, Finish(c)
    PROVE  /\ task' \in [Char -> Task]
           /\ task'[c] = Idle
           /\ \A e \in Char \ {c} : task'[e] = task[e]
  BY IdleType DEF TypeOK, Finish

\* What keeps the rest of the invariant: nothing is given an id, no list but
\* one of a guild that is found grows, and a handler goes on or ends.
LEMMA GoesOn ==
    ASSUME GuildAssumption, GuildInv, TypeOK', NEW c \in Char,
           made' = made, guildRow' = guildRow \/ (\A g \in GuildId : guildRow'[g] # NoOne => guildRow[g] # NoOne),
           guilds' \subseteq guilds,
           \A g \in GuildId : Listed(g)' \subseteq Listed(g),
           \A e \in Char \ {c} : task'[e] = task[e],
           \/ task'[c] = task[c]
           \/ task'[c] = Idle
           \/ /\ task'[c].op # "founding"
              /\ task'[c].guild \in guilds \/ (task'[c].guild = task[c].guild /\ task[c].op \notin {"idle", "founding"})
              /\ task'[c].target \in Char
    PROVE  GuildInv'
  <1>1. MadeFirst'
    BY DEF GuildInv, MadeFirst
  <1>2. Aimed'
    BY IdleType DEF GuildInv, Aimed, TypeOK
  <1>3. ASSUME NEW a \in Char, task'[a].op = "founding"
        PROVE  /\ task'[a].guild \notin guilds'
               /\ (Listed(task[a].guild) = {})'
               /\ \A d \in Char \ {a} : task'[d].guild # task'[a].guild
    <2>1. task'[a] = task[a] /\ task[a].op = "founding"
      BY <1>3, IdleType
    <2>2. task[a].guild \in made /\ task[a].guild \in GuildId /\ task[a].guild # NoGuild
      BY <2>1, IdleType DEF GuildInv, Aimed, TypeOK, GuildAssumption
    <2>3. /\ task[a].guild \notin guilds
          /\ Listed(task[a].guild) = {}
          /\ \A d \in Char \ {a} : task[d].guild # task[a].guild
      BY <2>1 DEF GuildInv, FoundsAlone
    <2>4. ASSUME NEW d \in Char \ {a} PROVE task'[d].guild # task'[a].guild
      <3>1. CASE d # c
        BY <2>1, <2>3, <3>1
      <3>2. CASE d = c
        BY <2>1, <2>2, <2>3, <3>2, IdleType
      <3> QED BY <3>1, <3>2
    <2>5. (Listed(task[a].guild) = {})'
      BY <2>1, <2>2, <2>3
    <2> QED BY <2>1, <2>3, <2>4, <2>5
  <1>4. FoundsAlone'
    BY <1>3 DEF FoundsAlone
  <1> QED BY <1>1, <1>2, <1>4 DEF GuildInv

-----------------------------------------------------------------------------
(* One lemma per handler.  Keeps says what all but four do.                 *)

Keeps ==
    /\ GuildInv'
    /\ \A g \in GuildId : Listed(g)' \subseteq Listed(g)
    /\ revived' = revived

LEMMA InviteKeeps ==
    ASSUME GuildAssumption, GuildInv, NEW c \in Char, NEW d \in Char,
           Invite(c, d) \/ Lapse(d)
    PROVE  Keeps
  <1>1. PICK h \in GuildId \cup {NoGuild} : invited' = [invited EXCEPT ![d] = h]
    BY DEF Invite, Lapse, GuildInv, TypeOK, GuildAssumption
  <1>2. UNCHANGED <<dbVars, guildVars, charVars, task, stale, historyVars>>
    BY DEF Invite, Lapse
  <1>3. TypeOK'
    BY <1>1, <1>2 DEF GuildInv, TypeOK, dbVars, guildVars, charVars, historyVars
  <1>4. \A g \in GuildId : Listed(g)' = Listed(g)
    BY <1>2 DEF Listed, guildVars
  <1>5. GuildInv'
    BY <1>2, <1>3, <1>4, GoesOn DEF dbVars, guildVars
  <1> QED BY <1>2, <1>4, <1>5 DEF Keeps, historyVars

LEMMA AcceptKeeps ==
    ASSUME GuildAssumption, GuildInv, NEW c \in Char, Accept(c)
    PROVE  Keeps
  <1> DEFINE g == invited[c]
  <1>1. g \in GuildId
    BY DEF Accept, GuildInv, TypeOK
  <1>2. UNCHANGED <<dbVars, guildVars, place, shared, stale, historyVars>>
    BY DEF Accept
  <1>3. invited' \in [Char -> GuildId \cup {NoGuild}]
    BY DEF Accept, GuildInv, TypeOK
  <1>4. mine' \in [Char -> Membership]
    <2>1. [guild |-> g, rank |-> 5] \in Membership
      BY <1>1 DEF Membership
    <2>2. PICK m \in Membership : mine' = [mine EXCEPT ![c] = m]
      BY <2>1, OutsideType DEF Accept
    <2> QED BY <2>2 DEF GuildInv, TypeOK
  <1>5. /\ task' \in [Char -> Task]
        /\ \A e \in Char \ {c} : task'[e] = task[e]
        /\ \/ task'[c] = task[c]
           \/ /\ task'[c].op # "founding"
              /\ task'[c].guild \in guilds
              /\ task'[c].target \in Char
    <2>1. CASE g \in guilds
      <3>1. Begin(c, "joining", g, c, 5)
        BY <2>1 DEF Accept
      <3> QED BY <1>1, <2>1, <3>1, BeginEffect DEF GuildInv, Ops
    <2>2. CASE g \notin guilds
      BY <2>2 DEF Accept, GuildInv, TypeOK
    <2> QED BY <2>1, <2>2
  <1>6. TypeOK'
    BY <1>2, <1>3, <1>4, <1>5 DEF GuildInv, TypeOK, dbVars, guildVars, historyVars
  <1>7. \A h \in GuildId : Listed(h)' = Listed(h)
    BY <1>2 DEF Listed, guildVars
  <1>8. GuildInv'
    BY <1>2, <1>5, <1>6, <1>7, GoesOn DEF dbVars, guildVars
  <1> QED BY <1>2, <1>7, <1>8 DEF Keeps, historyVars

\* gainGP, once a member of the guild is at hand.
LEMMA PointsKeeps ==
    ASSUME GuildAssumption, GuildInv, NEW c \in Char, NEW g \in GuildId,
           c \in Listed(g), Points(c, g),
           g \in guilds \/ (g = task[c].guild /\ task[c].op \notin {"idle", "founding"})
    PROVE  Keeps
  <1>1. members[g][c] \in 1..5
    BY ListedIn DEF GuildInv
  <1>2. /\ task' \in [Char -> Task]
        /\ \A e \in Char \ {c} : task'[e] = task[e]
        /\ task'[c].op = "points" /\ task'[c].guild = g /\ task'[c].target = c
    BY <1>1, BeginEffect DEF Points, GuildInv, Ops
  <1>3. UNCHANGED <<dbVars, guildVars, charVars, invited, stale, historyVars>>
    BY DEF Points
  <1>4. TypeOK'
    BY <1>2, <1>3 DEF GuildInv, TypeOK, dbVars, guildVars, charVars, historyVars
  <1>5. \A h \in GuildId : Listed(h)' = Listed(h)
    BY <1>3 DEF Listed, guildVars
  <1>6. GuildInv'
    BY <1>2, <1>3, <1>4, <1>5, GoesOn DEF dbVars, guildVars
  <1> QED BY <1>3, <1>5, <1>6 DEF Keeps, historyVars

LEMMA EarnKeeps ==
    ASSUME GuildAssumption, GuildInv, NEW c \in Char, Earn(c)
    PROVE  Keeps
  <1>1. PICK g \in guilds : c \in Listed(g) /\ Points(c, g)
    BY DEF Earn
  <1>2. g \in GuildId
    BY DEF GuildInv, TypeOK
  <1> QED BY <1>1, <1>2, PointsKeeps

\* What a handler under way knows of its guild, target and rank.
LEMMA Target ==
    ASSUME GuildAssumption, GuildInv, NEW c \in Char, task[c].op # "idle"
    PROVE  /\ task[c].guild \in GuildId /\ task[c].guild \in made
           /\ task[c].target \in Char /\ task[c].rank \in 1..5
  BY IdleType DEF GuildInv, Aimed, TypeOK, Task

LEMMA JoinedKeeps ==
    ASSUME GuildAssumption, GuildInv, NEW c \in Char, Joined(c)
    PROVE  Keeps
  <1> DEFINE g == task[c].guild
  <1>1. task[c].op = "joined"
    BY DEF Joined, Doing
  <1>2. g \in GuildId
    BY <1>1, Target
  <1>3. CASE c \in Listed(g)
    <2>1. Points(c, g)
      BY <1>3 DEF Joined
    <2> QED BY <1>1, <1>2, <1>3, <2>1, PointsKeeps
  <1>4. CASE c \notin Listed(g)
    <2>1. /\ charRow' = [charRow EXCEPT ![c] = mine[c]]
          /\ Finish(c)
          /\ UNCHANGED <<guildRow, made, guildVars, charVars, invited, stale, historyVars>>
      BY <1>4 DEF Joined
    <2>2. TypeOK'
      BY <2>1, FinishEffect DEF GuildInv, TypeOK, guildVars, charVars, historyVars
    <2>3. \A h \in GuildId : Listed(h)' = Listed(h)
      BY <2>1 DEF Listed, guildVars
    <2>4. GuildInv'
      BY <2>1, <2>2, <2>3, GoesOn, FinishEffect DEF guildVars, GuildInv
    <2> QED BY <2>1, <2>3, <2>4 DEF Keeps, historyVars
  <1> QED BY <1>3, <1>4

LEMMA ApplyPointsKeeps ==
    ASSUME GuildAssumption, GuildInv, NEW c \in Char, ApplyPoints(c)
    PROVE  Keeps
  <1> DEFINE g == task[c].guild
             m == [guild |-> g, rank |-> task[c].rank]
  <1>1. g \in GuildId /\ m \in Membership
    <2>1. task[c].op # "idle"
      BY DEF ApplyPoints, Doing
    <2> QED BY <2>1, Target DEF Membership
  <1>2. /\ Reach(online[g], {c}, m) /\ Finish(c)
        /\ members' = Ranked(c, Own(online[g], c), task[c].rank)
    BY DEF ApplyPoints
  <1>3. /\ mine' \in [Char -> Membership] /\ charRow' \in [Char -> Membership]
        /\ shared' \in [Char -> GuildId \cup {NoGuild}]
    BY <1>1, <1>2, ReachType DEF GuildInv
  <1>4. astray' \subseteq Char /\ disturbed' \in BOOLEAN
    <2>1. Missed(g, {c}) \subseteq Char /\ Late(g, c, task[c].rank) \subseteq Char
      BY MissedType, LateType
    <2>2. astray' \subseteq Char
      BY <2>1 DEF ApplyPoints, GuildInv, TypeOK
    <2>3. disturbed' \in BOOLEAN
      BY DEF ApplyPoints, GuildInv, TypeOK
    <2> QED BY <2>2, <2>3
  <1>5. UNCHANGED <<guildRow, made, guilds, leader, online, place, invited, stale, revived>>
    BY DEF ApplyPoints
  <1>7. members' \in [GuildId -> [Char -> 0..5]] /\ \A h \in GuildId : Listed(h)' = Listed(h)
    <2>1. task[c].rank \in 1..5
      BY Target DEF ApplyPoints, Doing
    <2> QED BY <1>2, <2>1, RankedEffect DEF GuildInv
  <1>6. TypeOK'
    BY <1>2, <1>3, <1>4, <1>5, <1>7, FinishEffect DEF GuildInv, TypeOK
  <1>8. GuildInv'
    BY <1>2, <1>5, <1>6, <1>7, GoesOn, FinishEffect DEF GuildInv
  <1> QED BY <1>5, <1>7, <1>8 DEF Keeps

LEMMA RemoveKeeps ==
    ASSUME GuildAssumption, GuildInv, NEW g \in GuildId, NEW d \in Char, Remove(g, d),
           UNCHANGED <<guildRow, made, guilds, leader, online, place, invited, task, revived>>
    PROVE  Keeps
  <1>1. TypeOK'
    BY RemoveEffect DEF GuildInv, TypeOK
  <1>2. \A h \in GuildId : Listed(h)' \subseteq Listed(h)
    BY RemoveEffect DEF GuildInv
  <1>3. GuildInv'
    BY <1>1, <1>2, GoesOn
  <1> QED BY <1>2, <1>3 DEF Keeps

LEMMA LeaveKeeps ==
    ASSUME GuildAssumption, GuildInv, NEW c \in Char, NEW d \in Char,
           Leave(c) \/ Expel(c, d)
    PROVE  Keeps
  <1>1. PICK g \in guilds : \E e \in {c, d} : Remove(g, e)
    BY DEF Leave, Expel
  <1>2. g \in GuildId
    BY DEF GuildInv, TypeOK
  <1>3. UNCHANGED <<guildRow, made, guilds, leader, online, place, invited, task, revived>>
    BY DEF Leave, Expel
  <1> QED BY <1>1, <1>2, <1>3, RemoveKeeps

LEMMA ChangeRankKeeps ==
    ASSUME GuildAssumption, GuildInv, NEW c \in Char, NEW d \in Char, NEW r \in GivenRanks,
           ChangeRank(c, d, r)
    PROVE  Keeps
  <1>1. PICK g \in guilds : Begin(c, "rank", g, d, r)
    BY DEF ChangeRank
  <1>2. g \in GuildId /\ r \in 1..5
    BY DEF GuildInv, TypeOK, GuildAssumption
  <1>3. /\ task' \in [Char -> Task]
        /\ \A e \in Char \ {c} : task'[e] = task[e]
        /\ task'[c].op = "rank" /\ task'[c].guild = g /\ task'[c].target = d
    BY <1>1, <1>2, BeginEffect DEF GuildInv, Ops
  <1>4. UNCHANGED <<dbVars, guildVars, charVars, invited, stale, historyVars>>
    BY DEF ChangeRank
  <1>5. TypeOK'
    BY <1>3, <1>4 DEF GuildInv, TypeOK, dbVars, guildVars, charVars, historyVars
  <1>6. \A h \in GuildId : Listed(h)' = Listed(h)
    BY <1>4 DEF Listed, guildVars
  <1>7. GuildInv'
    BY <1>3, <1>4, <1>5, <1>6, GoesOn DEF dbVars, guildVars
  <1> QED BY <1>4, <1>6, <1>7 DEF Keeps, historyVars

LEMMA HandOverKeeps ==
    ASSUME GuildAssumption, GuildInv, NEW c \in Char, NEW d \in Char, HandOver(c, d)
    PROVE  Keeps
  <1>1. PICK g \in guilds : /\ Begin(c, "crown", g, d, 1)
                            /\ disturbed' = (disturbed \/ Handover(g) # {})
    BY DEF HandOver
  <1>2. g \in GuildId
    BY DEF GuildInv, TypeOK
  <1>3. /\ task' \in [Char -> Task]
        /\ \A e \in Char \ {c} : task'[e] = task[e]
        /\ task'[c].op = "crown" /\ task'[c].guild = g /\ task'[c].target = d
    BY <1>1, <1>2, BeginEffect DEF GuildInv, Ops
  <1>4. UNCHANGED <<dbVars, guildVars, charVars, invited, stale, astray, revived>>
    BY DEF HandOver
  <1>5. TypeOK'
    BY <1>1, <1>3, <1>4 DEF GuildInv, TypeOK, dbVars, guildVars, charVars
  <1>6. \A h \in GuildId : Listed(h)' = Listed(h)
    BY <1>4 DEF Listed, guildVars
  <1>7. GuildInv'
    BY <1>3, <1>4, <1>5, <1>6, GoesOn DEF dbVars, guildVars
  <1> QED BY <1>4, <1>6, <1>7 DEF Keeps

LEMMA FinishRankKeeps ==
    ASSUME GuildAssumption, GuildInv, NEW c \in Char, FinishRank(c)
    PROVE  Keeps
  <1> DEFINE g == task[c].guild
             d == task[c].target
  <1>1. g \in GuildId /\ d \in Char /\ task[c].rank \in 1..5
    BY Target DEF FinishRank, Doing
  <1>2. ApplyRank(c, g, d, task[c].rank) /\ Finish(c)
    BY DEF FinishRank
  <1>3. disturbed' \in BOOLEAN /\ stale' \subseteq Char
    BY DEF FinishRank, GuildInv, TypeOK
  <1>4. UNCHANGED <<guildRow, made, guilds, leader, online, place, invited, revived>>
    BY DEF FinishRank
  <1>5. /\ mine' \in [Char -> Membership]
        /\ charRow' \in [Char -> Membership]
        /\ shared' \in [Char -> GuildId \cup {NoGuild}]
        /\ members' \in [GuildId -> [Char -> 0..5]]
        /\ astray' \subseteq Char
        /\ \A h \in GuildId : Listed(h)' = Listed(h)
    BY <1>1, <1>2, ApplyRankEffect DEF GuildInv
  <1>6. TypeOK'
    BY <1>2, <1>3, <1>4, <1>5, FinishEffect DEF GuildInv, TypeOK
  <1>7. GuildInv'
    BY <1>2, <1>4, <1>5, <1>6, GoesOn, FinishEffect DEF GuildInv
  <1> QED BY <1>4, <1>5, <1>7 DEF Keeps

\* A step of changeGuildLeader that changes a rank.
LEMMA HandoverStepKeeps ==
    ASSUME GuildAssumption, GuildInv, NEW c \in Char, NEW d \in Char, NEW r \in 1..5,
           NEW op \in {"uncrown", "crowned"}, task[c].op \in {"crown", "uncrown"},
           ApplyRank(c, task[c].guild, d, r),
           Begin(c, op, task[c].guild, task[c].target, 2),
           stale' \subseteq stale, disturbed' \in BOOLEAN,
           UNCHANGED <<guildRow, made, guilds, leader, online, place, invited, revived>>
    PROVE  Keeps
  <1> DEFINE g == task[c].guild
  <1>1. g \in GuildId /\ task[c].target \in Char
    BY Target
  <1>2. /\ mine' \in [Char -> Membership]
        /\ charRow' \in [Char -> Membership]
        /\ shared' \in [Char -> GuildId \cup {NoGuild}]
        /\ members' \in [GuildId -> [Char -> 0..5]]
        /\ astray' \subseteq Char
        /\ \A h \in GuildId : Listed(h)' = Listed(h)
    BY <1>1, ApplyRankEffect DEF GuildInv
  <1>3. /\ task' \in [Char -> Task]
        /\ \A e \in Char \ {c} : task'[e] = task[e]
        /\ task'[c].op = op /\ task'[c].guild = g /\ task'[c].target = task[c].target
    BY <1>1, BeginEffect DEF GuildInv, Ops
  <1>4. TypeOK'
    BY <1>2, <1>3 DEF GuildInv, TypeOK
  <1>5. GuildInv'
    BY <1>1, <1>2, <1>3, <1>4, GoesOn
  <1> QED BY <1>2, <1>5 DEF Keeps

LEMMA CrownKeeps ==
    ASSUME GuildAssumption, GuildInv, NEW c \in Char, Crown(c)
    PROVE  Keeps
  <1>1. disturbed' \in BOOLEAN /\ stale' \subseteq stale
    BY DEF Crown, GuildInv, TypeOK
  <1> QED BY <1>1, HandoverStepKeeps, Target DEF Crown, Doing

LEMMA UncrownKeeps ==
    ASSUME GuildAssumption, GuildInv, NEW c \in Char, Uncrown(c)
    PROVE  Keeps
  <1> DEFINE g == task[c].guild
  <1>1. UNCHANGED <<guildRow, made, guilds, leader, online, place, invited, stale, revived>>
    BY DEF Uncrown
  <1>2. CASE leader[g] \in Listed(g)
    <2>1. leader[g] \in Char
      BY <1>2, ListedChar
    <2>2. disturbed' \in BOOLEAN
      BY <1>2 DEF Uncrown, GuildInv, TypeOK
    <2> QED BY <1>1, <1>2, <2>1, <2>2, HandoverStepKeeps DEF Uncrown, Doing
  <1>3. CASE leader[g] \notin Listed(g)
    <2>1. Finish(c) /\ UNCHANGED <<charRow, members, mine, shared, astray, disturbed>>
      BY <1>3 DEF Uncrown
    <2>2. TypeOK'
      BY <1>1, <2>1, FinishEffect DEF GuildInv, TypeOK
    <2>3. \A h \in GuildId : Listed(h)' = Listed(h)
      BY <2>1 DEF Listed
    <2>4. GuildInv'
      BY <1>1, <2>1, <2>2, <2>3, GoesOn, FinishEffect DEF GuildInv
    <2> QED BY <1>1, <2>3, <2>4 DEF Keeps
  <1> QED BY <1>2, <1>3

LEMMA CrownedKeeps ==
    ASSUME GuildAssumption, GuildInv, NEW c \in Char, Crowned(c)
    PROVE  Keeps
  <1> DEFINE g == task[c].guild
             d == task[c].target
  <1>1. g \in GuildId /\ d \in Char
    BY Target DEF Crowned, Doing
  <1>2. Finish(c) /\ UNCHANGED <<charRow, made, guilds, members, online, charVars, invited, stale, historyVars>>
    BY DEF Crowned
  <1>3. /\ leader' \in [GuildId -> Char \cup {NoOne}]
        /\ guildRow' \in [GuildId -> Char \cup {NoOne}]
        /\ \A h \in GuildId : guildRow'[h] # NoOne => guildRow[h] # NoOne
    BY <1>1 DEF Crowned, GuildInv, TypeOK
  <1>4. TypeOK'
    BY <1>2, <1>3, FinishEffect DEF GuildInv, TypeOK, charVars, historyVars
  <1>5. \A h \in GuildId : Listed(h)' = Listed(h)
    BY <1>2 DEF Listed
  <1>6. GuildInv'
    BY <1>2, <1>3, <1>4, <1>5, GoesOn, FinishEffect DEF GuildInv
  <1> QED BY <1>2, <1>5, <1>6 DEF Keeps, historyVars

LEMMA DisbandKeeps ==
    ASSUME GuildAssumption, GuildInv, NEW c \in Char, Disband(c)
    PROVE  Keeps
  <1>1. PICK g \in guilds :
            /\ guildRow' = [guildRow EXCEPT ![g] = NoOne]
            /\ guilds' = guilds \ {g}
            /\ Reach(online[g], Listed(g), Outside)
            /\ astray' = astray \cup Missed(g, Listed(g))
            /\ disturbed' = (disturbed \/ Handover(g) # {})
    BY DEF Disband
  <1>2. g \in GuildId
    BY DEF GuildInv, TypeOK
  <1>3. UNCHANGED <<made, leader, members, online, place, invited, task, stale, revived>>
    BY DEF Disband
  <1>4. /\ mine' \in [Char -> Membership] /\ charRow' \in [Char -> Membership]
        /\ shared' \in [Char -> GuildId \cup {NoGuild}]
    BY <1>1, OutsideType, ReachType DEF GuildInv
  <1>5. astray' \subseteq Char /\ disturbed' \in BOOLEAN
    BY <1>1, MissedType, ListedChar DEF GuildInv, TypeOK
  <1>6. /\ guildRow' \in [GuildId -> Char \cup {NoOne}]
        /\ \A h \in GuildId : guildRow'[h] # NoOne => guildRow[h] # NoOne
    BY <1>1, <1>2 DEF GuildInv, TypeOK
  <1>7. TypeOK'
    BY <1>1, <1>3, <1>4, <1>5, <1>6 DEF GuildInv, TypeOK
  <1>8. \A h \in GuildId : Listed(h)' = Listed(h)
    BY <1>3 DEF Listed
  <1>9. GuildInv'
    BY <1>1, <1>3, <1>6, <1>7, <1>8, GoesOn
  <1> QED BY <1>3, <1>8, <1>9 DEF Keeps

\* Coming, going and changing servers.
LEMMA MovesKeep ==
    ASSUME GuildAssumption, GuildInv, NEW c \in Char,
           Load(c) \/ Enter(c) \/ LogOut(c) \/ Transfer(c) \/ Depart(c) \/ Stray(c)
    PROVE  Keeps
  <1>1. UNCHANGED <<guildRow, made, guilds, leader, members, invited, task, stale, historyVars>>
    BY DEF Load, Enter, SetOnline, LogOut, Transfer, Depart, Stray, dbVars, guildVars
  <1>2. place' \in [Char -> Place]
    BY DEF Load, Enter, LogOut, Transfer, Depart, Stray, GuildInv, TypeOK, Place
  <1>3. mine' \in [Char -> Membership] /\ shared' \in [Char -> GuildId \cup {NoGuild}]
    BY OutsideType DEF Load, Enter, LogOut, Transfer, Depart, Stray, GuildInv, TypeOK
  <1>4. charRow' \in [Char -> Membership]
    BY OutsideType DEF Load, Enter, LogOut, Transfer, Depart, Stray, GuildInv, TypeOK, dbVars
  <1>5. online' \in [GuildId -> SUBSET Char]
    BY DEF Load, Enter, SetOnline, LogOut, Transfer, Depart, Stray, GuildInv, TypeOK, guildVars
  <1>6. TypeOK'
    BY <1>1, <1>2, <1>3, <1>4, <1>5 DEF GuildInv, TypeOK, historyVars
  <1>7. \A h \in GuildId : Listed(h)' = Listed(h)
    BY <1>1 DEF Listed
  <1>8. GuildInv'
    BY <1>1, <1>6, <1>7, GoesOn
  <1> QED BY <1>1, <1>7, <1>8 DEF Keeps, historyVars

-----------------------------------------------------------------------------
(* The four handlers that add to something.                                *)

LEMMA CreateKeeps ==
    ASSUME GuildAssumption, GuildInv, NEW c \in Char, Create(c)
    PROVE  Keeps
  <1>1. PICK g \in GuildId \ made :
            /\ made' = made \cup {g}
            /\ guildRow' = [guildRow EXCEPT ![g] = c]
            /\ Begin(c, "founding", g, c, 1)
    BY DEF Create
  <1>2. UNCHANGED <<charRow, guildVars, charVars, invited, stale, historyVars>>
    BY DEF Create
  <1>3. /\ task' \in [Char -> Task]
        /\ task'[c].op = "founding" /\ task'[c].guild = g /\ task'[c].target = c
        /\ \A e \in Char \ {c} : task'[e] = task[e]
    BY <1>1, BeginEffect DEF GuildInv, Ops
  <1>4. TypeOK'
    BY <1>1, <1>2, <1>3 DEF GuildInv, TypeOK, guildVars, charVars, historyVars
  <1>5. \A h \in GuildId : Listed(h)' = Listed(h)
    BY <1>2 DEF Listed, guildVars
  <1>6. MadeFirst'
    BY <1>1, <1>5 DEF GuildInv, MadeFirst, TypeOK
  <1>7. Aimed'
    BY <1>1, <1>3 DEF GuildInv, Aimed
  <1>8. g \notin guilds /\ Listed(g) = {} /\ guilds' = guilds
    BY <1>2 DEF GuildInv, TypeOK, MadeFirst, guildVars
  <1>9. \A e \in Char : task[e].guild # g
    BY <1>1, IdleType DEF GuildInv, Aimed, GuildAssumption
  <1>10. ASSUME NEW a \in Char, (task[a].op = "founding")'
         PROVE  (/\ task[a].guild \notin guilds
                 /\ Listed(task[a].guild) = {}
                 /\ \A d \in Char \ {a} : task[d].guild # task[a].guild)'
    <2>1. CASE a = c
      <3>1. \A d \in Char \ {a} : task'[d].guild # task'[a].guild
        BY <1>3, <1>9, <2>1
      <3>2. (Listed(task[a].guild) = {})'
        BY <1>3, <1>5, <1>8, <2>1
      <3> QED BY <1>3, <1>8, <2>1, <3>1, <3>2
    <2>2. CASE a # c
      <3>1. task'[a] = task[a] /\ task[a].op = "founding"
        BY <1>3, <1>10, <2>2
      <3>2. task[a].guild \in GuildId
        BY <3>1, Target
      <3>3. /\ task[a].guild \notin guilds
            /\ Listed(task[a].guild) = {}
            /\ \A d \in Char \ {a} : task[d].guild # task[a].guild
        BY <3>1 DEF GuildInv, FoundsAlone
      <3>4. \A d \in Char \ {a} : task'[d].guild # task'[a].guild
        BY <1>3, <1>9, <3>1, <3>3
      <3>5. (Listed(task[a].guild) = {})'
        BY <1>5, <3>1, <3>2, <3>3
      <3> QED BY <1>8, <3>1, <3>3, <3>4, <3>5
    <2> QED BY <2>1, <2>2
  <1>11. FoundsAlone'
    BY <1>10 DEF FoundsAlone
  <1> QED BY <1>2, <1>4, <1>5, <1>6, <1>7, <1>11 DEF Keeps, GuildInv, historyVars

\* The founder is the first on the list.
LEMMA FoundEffect ==
    ASSUME GuildAssumption, GuildInv, NEW c \in Char, Found(c)
    PROVE  /\ GuildInv'
           /\ \A h \in GuildId : Listed(h)' \subseteq Listed(h) \/ Listed(h)' = {c}
           /\ revived' = revived
  <1> DEFINE g == task[c].guild
             m == [guild |-> g, rank |-> 1]
  <1>1. task[c].op = "founding" /\ g \in GuildId /\ g \in made
    BY Target DEF Found, Doing
  <1>2. m \in Membership
    BY <1>1 DEF Membership
  <1>3. /\ mine' = [mine EXCEPT ![c] = m]
        /\ charRow' = [charRow EXCEPT ![c] = m]
        /\ guilds' = guilds \cup {g}
        /\ leader' = [leader EXCEPT ![g] = c]
        /\ members' = [members EXCEPT ![g][c] = 1]
        /\ online' = [online EXCEPT ![g] = {c}]
        /\ Finish(c)
        /\ UNCHANGED <<guildRow, made, place, shared, invited, stale, historyVars>>
    BY DEF Found
  <1> HIDE DEF m
  <1>4. /\ task' \in [Char -> Task]
        /\ task'[c] = Idle
        /\ \A e \in Char \ {c} : task'[e] = task[e]
    BY <1>3, FinishEffect DEF GuildInv
  <1>5. mine' \in [Char -> Membership] /\ charRow' \in [Char -> Membership]
    BY <1>2, <1>3 DEF GuildInv, TypeOK
  <1>6. members' \in [GuildId -> [Char -> 0..5]]
    BY <1>1, <1>3 DEF GuildInv, TypeOK
  <1>7. guilds' \subseteq made' /\ leader' \in [GuildId -> Char \cup {NoOne}]
        /\ online' \in [GuildId -> SUBSET Char]
    BY <1>1, <1>3 DEF GuildInv, TypeOK
  <1>8. TypeOK'
    BY <1>3, <1>4, <1>5, <1>6, <1>7 DEF GuildInv, TypeOK, historyVars
  <1>9. Listed(g) = {} /\ g \notin guilds /\ \A d \in Char \ {c} : task[d].guild # g
    BY <1>1 DEF GuildInv, FoundsAlone
  <1>10. \A h \in GuildId : Listed(h)' = IF h = g THEN {c} ELSE Listed(h)
    <2>1. ASSUME NEW h \in GuildId, NEW e \in Char
          PROVE  members'[h][e] # 0 <=> (h = g /\ e = c) \/ members[h][e] # 0
      BY <1>3 DEF GuildInv, TypeOK
    <2> QED BY <1>9, <2>1 DEF Listed
  <1>11. MadeFirst'
    BY <1>1, <1>3, <1>10 DEF GuildInv, MadeFirst
  <1>12. Aimed'
    BY <1>3, <1>4 DEF GuildInv, Aimed
  <1>13. ASSUME NEW a \in Char, (task[a].op = "founding")'
         PROVE  (/\ task[a].guild \notin guilds
                 /\ Listed(task[a].guild) = {}
                 /\ \A d \in Char \ {a} : task[d].guild # task[a].guild)'
    <2>1. a # c /\ task'[a] = task[a] /\ task[a].op = "founding"
      BY <1>4, <1>13, IdleType
    <2>2. task[a].guild \in GuildId /\ task[a].guild # g
      BY <1>9, <2>1, Target
    <2>3. /\ task[a].guild \notin guilds
          /\ Listed(task[a].guild) = {}
          /\ \A d \in Char \ {a} : task[d].guild # task[a].guild
      BY <2>1 DEF GuildInv, FoundsAlone
    <2>4. \A d \in Char \ {a} : task'[d].guild # task'[a].guild
      BY <1>4, <2>1, <2>2, <2>3, IdleType DEF GuildAssumption
    <2>5. (Listed(task[a].guild) = {})'
      BY <1>10, <2>1, <2>2, <2>3
    <2> QED BY <1>3, <2>1, <2>2, <2>3, <2>4, <2>5
  <1>14. FoundsAlone'
    BY <1>13 DEF FoundsAlone
  <1> QED BY <1>3, <1>8, <1>10, <1>11, <1>12, <1>14 DEF GuildInv, historyVars

\* addGuildMember adds one, and only if there is a seat.
LEMMA JoinEffect ==
    ASSUME GuildAssumption, GuildInv, NEW c \in Char, Join(c)
    PROVE  /\ GuildInv'
           /\ \A h \in GuildId :
                 \/ Listed(h)' \subseteq Listed(h)
                 \/ Listed(h)' = Listed(h) \cup {c} /\ ~ Full(h)
           /\ revived' = revived
  <1> DEFINE g == task[c].guild
  <1>1. task[c].op = "joining" /\ g \in GuildId /\ g \in made
    BY Target DEF Join, Doing
  <1>2. UNCHANGED <<dbVars, guilds, leader, place, invited, stale, revived>>
    BY DEF Join
  <1>3. CASE Full(g)
    <2>1. /\ mine' = [mine EXCEPT ![c].guild = NoGuild]
          /\ Finish(c)
          /\ UNCHANGED <<members, online, shared, astray, disturbed>>
      BY <1>3 DEF Join
    <2>2. mine' \in [Char -> Membership]
      <3>1. mine[c] \in Membership /\ mine \in [Char -> Membership]
        BY DEF GuildInv, TypeOK
      <3>2. [mine[c] EXCEPT !.guild = NoGuild] \in Membership
        BY <3>1 DEF Membership
      <3> QED BY <2>1, <3>1, <3>2
    <2>3. TypeOK'
      BY <1>2, <2>1, <2>2, FinishEffect DEF GuildInv, TypeOK, dbVars
    <2>4. \A h \in GuildId : Listed(h)' = Listed(h)
      BY <2>1 DEF Listed
    <2>5. GuildInv'
      BY <1>2, <2>1, <2>3, <2>4, GoesOn, FinishEffect DEF dbVars, GuildInv
    <2> QED BY <1>2, <2>4, <2>5
  <1>4. CASE ~ Full(g)
    <2>1. PICK put \in BOOLEAN :
             /\ Enlist(g, c) \/ UNCHANGED <<members, online, shared>>
             /\ astray' = astray \cup (IF put THEN {} ELSE {c})
      BY <1>4 DEF Join
    <2>10. /\ disturbed' = (disturbed \/ mine[c].rank = 1)
           /\ Begin(c, "joined", g, c, 5)
           /\ UNCHANGED mine
      BY <1>4 DEF Join
    <2>2. /\ task' \in [Char -> Task]
          /\ task'[c].op = "joined" /\ task'[c].guild = g /\ task'[c].target = c
          /\ \A e \in Char \ {c} : task'[e] = task[e]
      BY <1>1, <2>10, BeginEffect DEF GuildInv, Ops
    <2>11. mine[c].rank \in 1..5
      BY DEF GuildInv, TypeOK, Membership
    <2>3. /\ members' \in [GuildId -> [Char -> 0..5]] /\ online' \in [GuildId -> SUBSET Char]
          /\ shared' \in [Char -> GuildId \cup {NoGuild}] /\ astray' \subseteq Char
      <3>1. astray' \subseteq Char
        BY <2>1 DEF GuildInv, TypeOK
      <3>2. CASE Enlist(g, c)
        BY <1>1, <2>11, <3>1, <3>2 DEF Enlist, GuildInv, TypeOK
      <3>3. CASE UNCHANGED <<members, online, shared>>
        BY <3>1, <3>3 DEF GuildInv, TypeOK
      <3> QED BY <2>1, <3>2, <3>3
    <2>4. TypeOK'
      <3>1. disturbed' \in BOOLEAN
        BY <2>10 DEF GuildInv, TypeOK
      <3> QED BY <1>2, <2>10, <2>2, <2>3, <3>1 DEF GuildInv, TypeOK, dbVars
    <2>5. \A h \in GuildId :
             \/ Listed(h)' = Listed(h)
             \/ h = g /\ Listed(h)' = Listed(h) \cup {c}
      <3>1. CASE Enlist(g, c)
        <4>1. ASSUME NEW h \in GuildId, NEW e \in Char
              PROVE  members'[h][e] = IF h = g /\ e = c THEN mine[c].rank ELSE members[h][e]
          BY <3>1 DEF Enlist, GuildInv, TypeOK
        <4>2. ASSUME NEW h \in GuildId, NEW e \in Char
              PROVE  members'[h][e] # 0 <=> (h = g /\ e = c) \/ members[h][e] # 0
          BY <2>11, <4>1
        <4>3. \A h \in GuildId : Listed(h)' = IF h = g THEN Listed(h) \cup {c} ELSE Listed(h)
          BY <4>2 DEF Listed
        <4> QED BY <4>3
      <3>2. CASE UNCHANGED <<members, online, shared>>
        <4>1. \A h \in GuildId : Listed(h)' = Listed(h)
          BY <3>2 DEF Listed
        <4> QED BY <4>1
      <3> QED BY <2>1, <3>1, <3>2
    <2>6. MadeFirst'
      BY <1>1, <1>2, <2>5 DEF GuildInv, MadeFirst, dbVars
    <2>7. Aimed'
      BY <1>1, <1>2, <2>2 DEF GuildInv, Aimed, dbVars
    <2>8. ASSUME NEW a \in Char, (task[a].op = "founding")'
          PROVE  (/\ task[a].guild \notin guilds
                  /\ Listed(task[a].guild) = {}
                  /\ \A d \in Char \ {a} : task[d].guild # task[a].guild)'
      <3>1. a # c /\ task'[a] = task[a] /\ task[a].op = "founding"
        BY <2>2, <2>8
      <3>2. /\ task[a].guild \notin guilds
            /\ Listed(task[a].guild) = {}
            /\ \A d \in Char \ {a} : task[d].guild # task[a].guild
        BY <3>1 DEF GuildInv, FoundsAlone
      <3>3. task[a].guild \in GuildId /\ task[a].guild # g
        BY <3>1, <3>2, Target
      <3>4. \A d \in Char \ {a} : task'[d].guild # task'[a].guild
        BY <2>2, <3>1, <3>2
      <3>5. (Listed(task[a].guild) = {})'
        BY <2>5, <3>1, <3>2, <3>3
      <3> QED BY <1>2, <3>1, <3>2, <3>4, <3>5
    <2>9. FoundsAlone'
      BY <2>8 DEF FoundsAlone
    <2> QED BY <1>2, <1>4, <2>4, <2>5, <2>6, <2>7, <2>9 DEF GuildInv
  <1> QED BY <1>3, <1>4

LEMMA ListRankType ==
    ASSUME TypeOK, NEW g \in GuildId, NEW c \in Char
    PROVE  ListRank(g, c) \in 1..5 /\ Mended(g, c) \in 1..5
  <1>1. charRow[c].rank \in 1..5
    BY DEF TypeOK, Membership
  <1>2. ListRank(g, c) \in 1..5
    BY <1>1 DEF ListRank
  <1>3. Mended(g, c) \in 1..5
    <2>1. CASE guildRow[g] # c
      BY <1>1, <2>1 DEF Mended
    <2>2. CASE guildRow[g] = c /\ charRow[c].rank # 1
      BY <2>2 DEF Mended
    <2>3. CASE guildRow[g] = c /\ charRow[c].rank = 1
      BY <2>3 DEF Mended
    <2> QED BY <2>1, <2>2, <2>3
  <1> QED BY <1>2, <1>3

\* GuildLoad lists nobody who was not listed, unless it says so.
LEMMA RestartEffect ==
    ASSUME GuildAssumption, GuildInv, Restart
    PROVE  /\ GuildInv'
           /\ ~ revived' => ~ revived /\ \A h \in GuildId : Listed(h)' \subseteq Listed(h)
  <1>1. Kept \subseteq GuildId /\ \A g \in Kept : guildRow[g] \in Char /\ Heirs(g) \subseteq Char
    BY DEF Kept, Heirs
  <1>2. Kept \subseteq made
    BY <1>1 DEF GuildInv, MadeFirst, GuildAssumption
  <1>3. guildRow' \in [GuildId -> Char \cup {NoOne}] /\ leader' \in [GuildId -> Char \cup {NoOne}]
    BY <1>1 DEF Restart
  <1>4. members' \in [GuildId -> [Char -> 0..5]]
    BY ListRankType DEF Restart, GuildInv
  <1>5. charRow' \in [Char -> Membership]
    <2>1. ASSUME NEW c \in Char PROVE charRow'[c] \in Membership
      <3>1. charRow[c] \in Membership
        BY DEF GuildInv, TypeOK
      <3>2. CASE charRow[c].guild \in Kept
        <4>1. Mended(charRow[c].guild, c) \in 1..5
          BY <1>1, <3>2, ListRankType DEF GuildInv
        <4>2. charRow'[c] = [charRow[c] EXCEPT !.rank = Mended(charRow[c].guild, c)]
          BY <3>2 DEF Restart
        <4> QED BY <3>1, <4>1, <4>2 DEF Membership
      <3>3. CASE charRow[c].guild \notin Kept
        BY <3>1, <3>3 DEF Restart
      <3> QED BY <3>2, <3>3
    <2> QED BY <2>1 DEF Restart
  <1>6. /\ made' = made /\ guilds' = Kept
        /\ online' = [g \in GuildId |-> {}]
        /\ place' = [c \in Char |-> "offline"]
        /\ mine' = [c \in Char |-> Outside]
        /\ shared' = [c \in Char |-> NoGuild]
        /\ invited' = [c \in Char |-> NoGuild]
        /\ task' = [c \in Char |-> Idle]
        /\ stale' = {}
        /\ astray' \subseteq Char
        /\ disturbed' \in BOOLEAN
        /\ revived' \in BOOLEAN
    BY DEF Restart, GuildInv, TypeOK
  <1>7. TypeOK'
    BY <1>2, <1>3, <1>4, <1>5, <1>6, OutsideType, IdleType DEF GuildInv, TypeOK, Place
  <1>8. \A g \in GuildId : Listed(g)' \subseteq (IF g \in Kept THEN Heirs(g) ELSE {})
    BY DEF Restart, Listed
  <1>9. MadeFirst'
    BY <1>2, <1>6, <1>8 DEF MadeFirst, Restart
  <1>10. Aimed' /\ FoundsAlone'
    BY <1>6, IdleType DEF Aimed, FoundsAlone
  <1>11. ~ revived' => ~ revived /\ \A h \in GuildId : Listed(h)' \subseteq Listed(h)
    BY <1>8 DEF Restart, GuildInv, TypeOK
  <1> QED BY <1>7, <1>9, <1>10, <1>11 DEF GuildInv

-----------------------------------------------------------------------------
(* The theorems.                                                            *)

LEMMA InitGuildInv == GuildAssumption /\ Init => GuildInv /\ SeatsKept
  <1> SUFFICES ASSUME GuildAssumption, Init PROVE GuildInv /\ SeatsKept
    OBVIOUS
  <1>1. TypeOK
    <2>1. mine \in [Char -> Membership] /\ charRow \in [Char -> Membership]
      BY OutsideType DEF Init
    <2>2. task \in [Char -> Task]
      BY IdleType DEF Init
    <2>3. members \in [GuildId -> [Char -> 0..5]] /\ place \in [Char -> Place]
      BY DEF Init, Place
    <2>4. /\ guildRow \in [GuildId -> Char \cup {NoOne}]
          /\ leader \in [GuildId -> Char \cup {NoOne}]
          /\ online \in [GuildId -> SUBSET Char]
          /\ invited \in [Char -> GuildId \cup {NoGuild}]
          /\ shared \in [Char -> GuildId \cup {NoGuild}]
      BY DEF Init
    <2>5. made = {} /\ guilds = {} /\ stale = {} /\ astray = {} /\ disturbed = FALSE /\ revived = FALSE
      BY DEF Init
    <2> QED BY <2>1, <2>2, <2>3, <2>4, <2>5 DEF TypeOK
  <1>2. \A g \in GuildId : Listed(g) = {}
    BY DEF Init, Listed
  <1>3. MadeFirst /\ Aimed /\ FoundsAlone
    BY <1>2, IdleType DEF Init, MadeFirst, Aimed, FoundsAlone
  <1>4. SeatsKept
    BY <1>2, FS_EmptySet DEF SeatsKept, GuildAssumption
  <1> QED BY <1>1, <1>3, <1>4 DEF GuildInv

\* A list that does not grow stays within its capacity.
LEMMA Shrunk ==
    ASSUME GuildAssumption, NEW S \in SUBSET Char, NEW T \in SUBSET S,
           Cardinality(S) <= Capacity
    PROVE  Cardinality(T) <= Capacity
  <1>1. IsFiniteSet(S)
    BY FS_Subset DEF GuildAssumption
  <1>2. /\ IsFiniteSet(T)
        /\ Cardinality(T) <= Cardinality(S)
    BY <1>1, FS_Subset
  <1>3. Cardinality(S) \in Nat /\ Cardinality(T) \in Nat /\ Capacity \in Nat
    BY <1>1, <1>2, FS_CardinalityType DEF GuildAssumption
  <1> QED BY <1>2, <1>3

LEMMA OneMore ==
    ASSUME GuildAssumption, NEW S \in SUBSET Char, NEW c \in Char,
           ~ (Cardinality(S) >= Capacity)
    PROVE  Cardinality(S \cup {c}) <= Capacity
  <1>1. IsFiniteSet(S)
    BY FS_Subset DEF GuildAssumption
  <1>2. Cardinality(S) \in Nat /\ Capacity \in Nat
    BY <1>1, FS_CardinalityType DEF GuildAssumption
  <1>3. Cardinality(S \cup {c}) \in {Cardinality(S), Cardinality(S) + 1}
    BY <1>1, FS_AddElement
  <1> QED BY <1>2, <1>3

LEMMA KeepsSeats ==
    ASSUME GuildAssumption, SeatsKept, Keeps
    PROVE  SeatsKept'
  <1>1. ASSUME ~ revived', NEW g \in GuildId
        PROVE  (Cardinality(Listed(g)) <= Capacity)'
    <2>1. Cardinality(Listed(g)) <= Capacity
      BY <1>1 DEF SeatsKept, Keeps
    <2>2. Listed(g)' \in SUBSET Listed(g) /\ Listed(g) \in SUBSET Char
      BY ListedChar DEF Keeps
    <2> QED BY <2>1, <2>2, Shrunk
  <1> QED BY <1>1 DEF SeatsKept

LEMMA NextGuildInv ==
    ASSUME GuildAssumption, GuildInv, SeatsKept, [Next]_vars
    PROVE  GuildInv' /\ SeatsKept'
  <1>1. SUFFICES ASSUME Keeps \/ (\E c \in Char : Found(c) \/ Join(c)) \/ Restart
                 PROVE  GuildInv' /\ SeatsKept'
    <2>1. ASSUME UNCHANGED vars PROVE Keeps
      <3>1. TypeOK'
        BY <2>1 DEF vars, dbVars, guildVars, charVars, historyVars, GuildInv, TypeOK
      <3>2. \A g \in GuildId : Listed(g)' = Listed(g)
        BY <2>1 DEF vars, guildVars, Listed
      <3>3. MadeFirst'
        BY <2>1, <3>2 DEF vars, dbVars, GuildInv, MadeFirst
      <3>4. Aimed'
        BY <2>1 DEF vars, dbVars, GuildInv, Aimed
      <3>5. FoundsAlone'
        BY <2>1 DEF vars, guildVars, GuildInv, FoundsAlone, Listed
      <3> QED BY <2>1, <3>1, <3>2, <3>3, <3>4, <3>5
              DEF vars, historyVars, Keeps, GuildInv
    <2>2. ASSUME NEW c \in Char,
                 \/ Create(c) \/ Accept(c) \/ Earn(c) \/ Leave(c) \/ Disband(c) \/ Lapse(c)
                 \/ Joined(c) \/ ApplyPoints(c) \/ FinishRank(c)
                 \/ Crown(c) \/ Uncrown(c) \/ Crowned(c)
          PROVE  Keeps
      BY <2>2, CreateKeeps, AcceptKeeps, EarnKeeps, LeaveKeeps, DisbandKeeps,
         InviteKeeps, JoinedKeeps, ApplyPointsKeeps, FinishRankKeeps, CrownKeeps,
         UncrownKeeps, CrownedKeeps
    <2>3. ASSUME NEW c \in Char,
                 Load(c) \/ Enter(c) \/ LogOut(c) \/ Transfer(c) \/ Depart(c) \/ Stray(c)
          PROVE  Keeps
      BY <2>3, MovesKeep
    <2>4. ASSUME NEW c \in Char, NEW d \in Char,
                 \/ Invite(c, d) \/ Expel(c, d) \/ HandOver(c, d)
                 \/ \E r \in GivenRanks : ChangeRank(c, d, r)
          PROVE  Keeps
      BY <2>4, InviteKeeps, LeaveKeeps, HandOverKeeps, ChangeRankKeeps
    <2> QED BY <1>1, <2>1, <2>2, <2>3, <2>4 DEF Next, Handles
  <1>2. CASE Keeps
    BY <1>2, KeepsSeats DEF Keeps
  <1>3. ASSUME NEW c \in Char, Found(c) PROVE GuildInv' /\ SeatsKept'
    <2>1. ASSUME ~ revived', NEW g \in GuildId
          PROVE  (Cardinality(Listed(g)) <= Capacity)'
      <3>1. Cardinality(Listed(g)) <= Capacity
        BY <1>3, <2>1, FoundEffect DEF SeatsKept
      <3>2. CASE Listed(g)' \subseteq Listed(g)
        BY <3>1, <3>2, ListedChar, Shrunk
      <3>3. CASE Listed(g)' = {c}
        <4>1. Cardinality({c}) = 1
          BY FS_Singleton
        <4> QED BY <3>3, <4>1 DEF GuildAssumption
      <3> QED BY <1>3, <3>2, <3>3, FoundEffect
    <2> QED BY <1>3, <2>1, FoundEffect DEF SeatsKept
  <1>4. ASSUME NEW c \in Char, Join(c) PROVE GuildInv' /\ SeatsKept'
    <2>1. ASSUME ~ revived', NEW g \in GuildId
          PROVE  (Cardinality(Listed(g)) <= Capacity)'
      <3>1. Cardinality(Listed(g)) <= Capacity
        BY <1>4, <2>1, JoinEffect DEF SeatsKept
      <3>2. CASE Listed(g)' \subseteq Listed(g)
        BY <3>1, <3>2, ListedChar, Shrunk
      <3>3. CASE Listed(g)' = Listed(g) \cup {c} /\ ~ Full(g)
        BY <3>3, ListedChar, OneMore DEF Full
      <3> QED BY <1>4, <3>2, <3>3, JoinEffect
    <2> QED BY <1>4, <2>1, JoinEffect DEF SeatsKept
  <1>5. CASE Restart
    <2>1. ASSUME ~ revived', NEW g \in GuildId
          PROVE  (Cardinality(Listed(g)) <= Capacity)'
      <3>1. Cardinality(Listed(g)) <= Capacity /\ Listed(g)' \subseteq Listed(g)
        BY <1>5, <2>1, RestartEffect DEF SeatsKept
      <3> QED BY <3>1, ListedChar, Shrunk
    <2> QED BY <1>5, <2>1, RestartEffect DEF SeatsKept
  <1> QED BY <1>1, <1>2, <1>3, <1>4, <1>5

\* The three records of every membership keep their types, and with them all
\* that the handlers hand on (MapleGuild, setGuildAndRank, GuildLoad).
THEOREM GuildTypes == Spec => []TypeOK
  <1>1. GuildInv => TypeOK
    BY DEF GuildInv
  <1>2. GuildAssumption
    BY GuildAssumption
  <1> QED BY <1>1, <1>2, InitGuildInv, NextGuildInv, PTL DEF Spec

\* addGuildMember never goes beyond the capacity, whoever joins, leaves or is
\* expelled at the same time, as long as no restart revives a lost member.
THEOREM SeatsAreKept == Spec => []SeatsKept
  <1>1. GuildAssumption
    BY GuildAssumption
  <1> QED BY <1>1, InitGuildInv, NextGuildInv, PTL DEF Spec

-----------------------------------------------------------------------------
(* Who leads.  Between the steps of a handover one member of the first rank *)
(* becomes two, and one again.                                              *)

First(g) == {c \in Char : members[g][c] = 1}

LedNow(g) ==
    /\ Handover(g) = {} => First(g) = {leader[g]}
    /\ \A c \in Handover(g) :
          /\ Handover(g) = {c}
          /\ task[c].target \in Listed(g)
          /\ task[c].target # leader[g]
          /\ c \notin stale
          /\ task[c].op = "crown" => First(g) = {leader[g]}
          /\ task[c].op = "uncrown" => First(g) = {leader[g], task[c].target}
          /\ task[c].op = "crowned" => First(g) = {task[c].target}

Led == ~ disturbed => \A g \in guilds : LedNow(g)

\* Nobody but a leader gives the first rank away.
RanksGiven == \A c \in Char : task[c].op = "rank" => task[c].rank # 1

\* Only a handler that has a member to change can have one taken off since.
Holding == \A c \in stale : task[c].op \in {"rank", "crown"}

LeadInv == GuildInv /\ RanksGiven /\ Holding /\ Led

HandoverOps == {"crown", "uncrown", "crowned"}

\* What the handlers that have nothing to do with a handover of g leave alone.
Apart(g) ==
    /\ leader'[g] = leader[g]
    /\ First(g)' = First(g)
    /\ \A d \in Char : d \in Handover(g) \/ (d \in Handover(g))' => task'[d] = task[d]
    /\ \A d \in Handover(g) : task[d].target \in Listed(g) => task[d].target \in Listed(g)'
    /\ \A d \in Handover(g) : d \in stale' => d \in stale

LEMMA ApartStays ==
    ASSUME NEW g \in GuildId, LedNow(g), Apart(g)
    PROVE  LedNow(g)'
  <1>1. Handover(g)' = Handover(g)
    BY DEF Apart, Handover
  <1>2. CASE Handover(g) = {}
    BY <1>1, <1>2 DEF LedNow, Apart
  <1>3. ASSUME NEW c \in Handover(g)
        PROVE  (/\ Handover(g) = {c}
                /\ task[c].target \in Listed(g)
                /\ task[c].target # leader[g]
                /\ c \notin stale
                /\ task[c].op = "crown" => First(g) = {leader[g]}
                /\ task[c].op = "uncrown" => First(g) = {leader[g], task[c].target}
                /\ task[c].op = "crowned" => First(g) = {task[c].target})'
    <2>1. c \in Char /\ task'[c] = task[c]
      BY DEF Apart, Handover
    <2> QED BY <1>1, <2>1 DEF LedNow, Apart
  <1> QED BY <1>1, <1>2, <1>3 DEF LedNow

LEMMA AllApart ==
    ASSUME GuildInv, Led, guilds' \subseteq guilds, ~ disturbed' => ~ disturbed,
           ~ disturbed' => \A g \in guilds' : Apart(g)
    PROVE  Led'
  <1>1. ASSUME ~ disturbed', NEW g \in guilds' PROVE LedNow(g)'
    <2>1. g \in GuildId /\ LedNow(g) /\ Apart(g)
      BY <1>1 DEF Led, GuildInv, TypeOK
    <2> QED BY <2>1, ApartStays
  <1> QED BY <1>1 DEF Led

\* A handler that leaves the lists alone and starts or ends something else.
LEMMA OtherTask ==
    ASSUME GuildAssumption, GuildInv, NEW c \in Char, NEW g \in guilds,
           members' = members, leader' = leader, stale' = stale,
           \A e \in Char \ {c} : task'[e] = task[e],
           task'[c] = task[c] \/ (task[c].op \notin HandoverOps /\ task'[c].op \notin HandoverOps)
    PROVE  Apart(g)
  <1>1. First(g)' = First(g) /\ Listed(g)' = Listed(g)
    BY DEF First, Listed
  <1>2. ASSUME NEW d \in Char, d \in Handover(g) \/ (d \in Handover(g))'
        PROVE  task'[d] = task[d]
    <2>1. task[d].op \in HandoverOps \/ task'[d].op \in HandoverOps
      BY <1>2 DEF Handover, HandoverOps
    <2> QED BY <2>1
  <1> QED BY <1>1, <1>2 DEF Apart

\* Taking off somebody who is not of the first rank.
LEMMA RemoveApart ==
    ASSUME GuildAssumption, GuildInv, NEW g \in GuildId, NEW d \in Char, Remove(g, d),
           members[g][d] # 1, UNCHANGED <<leader, task>>, ~ disturbed', NEW h \in guilds
    PROVE  Apart(h)
  <1>1. h \in GuildId /\ members \in [GuildId -> [Char -> 0..5]]
    BY DEF GuildInv, TypeOK
  <1>2. members' = [members EXCEPT ![g][d] = 0] /\ ~ Heir(g, d)
    BY DEF Remove
  <1>3. \A e \in Char : members'[h][e] = IF h = g /\ e = d THEN 0 ELSE members[h][e]
    BY <1>1, <1>2
  <1>4. First(h)' = First(h)
    BY <1>3 DEF First
  <1>5. ASSUME NEW e \in Handover(h), task[e].target \in Listed(h)
        PROVE  task[e].target \in Listed(h)'
    <2>1. h = g => task[e].target # d
      BY <1>2 DEF Heir
    <2>2. task[e].target \in Char /\ members[h][task[e].target] # 0
      BY <1>5 DEF Listed
    <2> QED BY <1>3, <2>1, <2>2 DEF Listed
  <1>6. ASSUME NEW e \in Handover(h), e \in stale' PROVE e \in stale
    <2>1. /\ stale' = stale \cup {c \in Char : /\ task[c].op \in {"rank", "crown"}
                                            /\ task[c].guild = g /\ task[c].target = d}
          /\ e \in Char /\ task[e].guild = h /\ task[e].op \in HandoverOps
      BY DEF Remove, Handover, HandoverOps
    <2>2. ~ (task[e].guild = g /\ task[e].target = d)
      BY <1>2, <2>1 DEF Heir, Handover, HandoverOps
    <2> QED BY <1>6, <2>1, <2>2
  <1> QED BY <1>4, <1>5, <1>6 DEF Apart, Handover

LEMMA RemovalLed ==
    ASSUME GuildAssumption, LeadInv, NEW c \in Char, NEW d \in Char, Leave(c) \/ Expel(c, d)
    PROVE  Led'
  <1>1. PICK g \in guilds : \E e \in {c, d} : Remove(g, e) /\ members[g][e] # 1
    <2>1. mine[c].rank \in 1..5
      BY DEF LeadInv, GuildInv, TypeOK, Membership
    <2>2. CASE Leave(c)
      BY <2>2 DEF Leave
    <2>3. CASE Expel(c, d)
      <3>1. PICK g \in guilds : mine[c].rank < members[g][d] /\ Remove(g, d)
        BY <2>3 DEF Expel
      <3> QED BY <2>1, <3>1
    <2> QED BY <2>2, <2>3
  <1>2. g \in GuildId /\ UNCHANGED <<guilds, leader, task>>
    BY DEF Leave, Expel, LeadInv, GuildInv, TypeOK
  <1>3. disturbed => disturbed'
    BY <1>1 DEF Remove
  <1>4. ~ disturbed' => \A h \in guilds' : Apart(h)
    BY <1>1, <1>2, RemoveApart DEF LeadInv
  <1>5. guilds' \subseteq guilds
    BY <1>2
  <1> QED BY <1>3, <1>4, <1>5, AllApart DEF LeadInv

\* Where a rank goes: to the list of the guild that gives it, unless the entry
\* that was found has been taken off since, and nowhere else.
LEMMA RankGoes ==
    ASSUME GuildAssumption, TypeOK, NEW c \in Char, NEW g \in GuildId, NEW d \in Char,
           NEW r \in 1..5, ApplyRank(c, g, d, r), ~ Elsewhere(g, d)
    PROVE  /\ \A h \in GuildId \ {g} : members'[h] = members[h]
           /\ \A e \in Char : \/ members'[g][e] = members[g][e]
                              \/ e = d /\ members[g][e] # 0 /\ members'[g][e] = r
           /\ c \notin stale =>
                 \A e \in Char : members'[g][e] = IF e = d /\ members[g][e] # 0 THEN r ELSE members[g][e]
  <1>1. PICK on : members' = Ranked(d, Own(on, d) \cup (IF c \in stale THEN {} ELSE {g}), r)
    BY DEF ApplyRank
  <1> DEFINE G == Own(on, d) \cup (IF c \in stale THEN {} ELSE {g})
  <1>2. \A h \in GuildId \ {g} : h \notin G
    BY DEF Own, Elsewhere, GuildAssumption
  <1>3. c \notin stale => g \in G
    OBVIOUS
  <1>4. members' = Ranked(d, G, r)
    BY <1>1
  <1> HIDE DEF G
  <1>5. \A h \in GuildId, e \in Char :
            members'[h][e] = IF e = d /\ h \in G /\ members[h][e] # 0 THEN r ELSE members[h][e]
    BY <1>4, RankedEffect
  <1>6. members \in [GuildId -> [Char -> 0..5]] /\ members' \in [GuildId -> [Char -> 0..5]]
    BY <1>4, RankedEffect DEF TypeOK
  <1>7. ASSUME NEW h \in GuildId \ {g} PROVE members'[h] = members[h]
    <2>1. \A e \in Char : members'[h][e] = members[h][e]
      BY <1>2, <1>5
    <2>2. members[h] \in [Char -> 0..5] /\ members'[h] \in [Char -> 0..5]
      BY <1>6
    <2> QED BY <2>1, <2>2
  <1> QED BY <1>3, <1>5, <1>7

\* A rank other than the first for somebody who neither leads nor will.
LEMMA FinishRankLed ==
    ASSUME GuildAssumption, LeadInv, NEW c \in Char, FinishRank(c)
    PROVE  Led'
  <1> DEFINE g == task[c].guild
             d == task[c].target
             r == task[c].rank
  <1>1. task[c].op = "rank" /\ g \in GuildId /\ d \in Char /\ r \in 2..5
    BY Target DEF FinishRank, Doing, LeadInv, RanksGiven
  <1>2. /\ ApplyRank(c, g, d, r)
        /\ Finish(c)
        /\ disturbed' = (disturbed \/ Heir(g, d) \/ leader[g] = d \/ Elsewhere(g, d))
        /\ stale' = stale \ {c}
        /\ UNCHANGED <<guilds, leader>>
    BY DEF FinishRank
  <1>3. /\ task'[c] = Idle
        /\ \A e \in Char \ {c} : task'[e] = task[e]
    BY <1>2, FinishEffect DEF LeadInv, GuildInv
  <1>4. ASSUME ~ disturbed', NEW h \in guilds PROVE Apart(h)
    <2>1. h \in GuildId /\ members \in [GuildId -> [Char -> 0..5]] /\ LedNow(h)
      BY <1>2, <1>4 DEF LeadInv, Led, GuildInv, TypeOK
    <2>2. \A e \in Char : \/ members'[h][e] = members[h][e]
                          \/ h = g /\ e = d /\ members[h][e] # 0 /\ members'[h][e] = r
      <3>1. r \in 1..5 /\ TypeOK
        BY <1>1 DEF LeadInv, GuildInv
      <3>2. ApplyRank(c, g, d, r) /\ ~ Elsewhere(g, d)
        BY <1>2, <1>4
      <3>3. /\ \A k \in GuildId \ {g} : members'[k] = members[k]
            /\ \A e \in Char : \/ members'[g][e] = members[g][e]
                               \/ e = d /\ members[g][e] # 0 /\ members'[g][e] = r
        BY <1>1, <3>1, <3>2, RankGoes
      <3> QED BY <2>1, <3>3
    <2>3. h = g => d \notin First(h)
      <3>1. SUFFICES ASSUME h = g, d \in First(h) PROVE FALSE
        OBVIOUS
      <3>2. ~ Heir(g, d) /\ leader[g] # d
        BY <1>2, <1>4
      <3>3. CASE Handover(h) = {}
        BY <2>1, <3>1, <3>2, <3>3 DEF LedNow
      <3>4. ASSUME NEW e \in Handover(h) PROVE FALSE
        <4>1. task[e].op \in HandoverOps /\ task[e].target # d
          BY <3>1, <3>2, <3>4 DEF Handover, HandoverOps, Heir
        <4> QED BY <2>1, <3>1, <3>2, <3>4, <4>1 DEF LedNow, HandoverOps
      <3> QED BY <3>3, <3>4
    <2>4. First(h)' = First(h)
      BY <1>1, <2>2, <2>3 DEF First
    <2>5. Listed(h)' = Listed(h)
      BY <1>1, <2>2 DEF Listed
    <2>6. ASSUME NEW e \in Char, e \in Handover(h) \/ (e \in Handover(h))'
          PROVE  task'[e] = task[e]
      <3>1. task[e].op \in HandoverOps \/ task'[e].op \in HandoverOps
        BY <2>6 DEF Handover, HandoverOps
      <3> QED BY <1>1, <1>3, <3>1, IdleType DEF HandoverOps
    <2> QED BY <1>2, <2>4, <2>5, <2>6 DEF Apart
  <1> QED BY <1>2, <1>4, AllApart DEF LeadInv

\* A newcomer has not the first rank, or keeps the one it is found with.
LEMMA JoinLed ==
    ASSUME GuildAssumption, LeadInv, NEW c \in Char, Join(c)
    PROVE  Led'
  <1> DEFINE g == task[c].guild
  <1>1. task[c].op = "joining" /\ g \in GuildId
    BY Target DEF Join, Doing, LeadInv
  <1>2. UNCHANGED <<guilds, leader, stale>>
    BY DEF Join
  <1>3. CASE Full(g)
    <2>1. UNCHANGED <<members, disturbed>> /\ Finish(c)
      BY <1>3 DEF Join
    <2>2. task'[c] = Idle /\ \A e \in Char \ {c} : task'[e] = task[e]
      BY <2>1, FinishEffect DEF LeadInv, GuildInv
    <2>3. \A h \in guilds' : Apart(h)
      BY <1>1, <1>2, <2>1, <2>2, OtherTask, IdleType DEF LeadInv, HandoverOps
    <2> QED BY <1>2, <2>1, <2>3, AllApart DEF LeadInv
  <1>4. CASE ~ Full(g)
    <2>1. /\ (members[g][c] \in {0, 5} /\ Enlist(g, c)) \/ UNCHANGED members
          /\ disturbed' = (disturbed \/ mine[c].rank = 1)
          /\ Begin(c, "joined", g, c, 5)
      BY <1>4 DEF Join
    <2>2. task'[c].op = "joined" /\ \A e \in Char \ {c} : task'[e] = task[e]
      BY <1>1, <2>1, BeginEffect DEF LeadInv, GuildInv, Ops
    <2>3. ASSUME ~ disturbed', NEW h \in guilds PROVE Apart(h)
      <3>1. /\ h \in GuildId /\ members \in [GuildId -> [Char -> 0..5]]
            /\ mine[c].rank \in 2..5
        <4>1. mine[c].rank # 1
          BY <2>1, <2>3
        <4>2. mine[c].rank \in 1..5
          BY DEF LeadInv, GuildInv, TypeOK, Membership
        <4>3. h \in GuildId /\ members \in [GuildId -> [Char -> 0..5]]
          BY DEF LeadInv, GuildInv, TypeOK
        <4> QED BY <4>1, <4>2, <4>3
      <3>2. \A e \in Char : \/ members'[h][e] = members[h][e]
                            \/ members[h][e] \in {0, 5} /\ members'[h][e] \in 2..5
        <4>1. CASE UNCHANGED members
          BY <4>1
        <4>2. CASE members[g][c] \in {0, 5} /\ Enlist(g, c)
          BY <1>1, <3>1, <4>2 DEF Enlist
        <4> QED BY <2>1, <4>1, <4>2
      <3>3. \A e \in Char : members'[h][e] = 1 <=> members[h][e] = 1
        BY <3>2
      <3>4. First(h)' = First(h)
        BY <3>3 DEF First
      <3>5. \A e \in Char : members[h][e] # 0 => members'[h][e] # 0
        BY <3>2
      <3>6. Listed(h) \subseteq Listed(h)'
        BY <3>5 DEF Listed
      <3>7. ASSUME NEW d \in Char, d \in Handover(h) \/ (d \in Handover(h))'
            PROVE  task'[d] = task[d]
        <4>1. task[d].op \in HandoverOps \/ task'[d].op \in HandoverOps
          BY <3>7 DEF Handover, HandoverOps
        <4> QED BY <1>1, <2>2, <4>1 DEF HandoverOps
      <3> QED BY <1>2, <3>4, <3>6, <3>7 DEF Apart
    <2> QED BY <1>2, <2>1, <2>3, AllApart DEF LeadInv
  <1> QED BY <1>3, <1>4

\* Points that come late, and put back no first rank.
LEMMA ApplyPointsLed ==
    ASSUME GuildAssumption, LeadInv, NEW c \in Char, ApplyPoints(c)
    PROVE  Led'
  <1> DEFINE g == task[c].guild
             r == task[c].rank
             G == Own(online[g], c)
  <1>1. task[c].op = "points" /\ g \in GuildId /\ r \in 1..5
    BY Target DEF ApplyPoints, Doing, LeadInv
  <1>2. /\ members' = Ranked(c, G, r)
        /\ disturbed' = (disturbed \/ Elsewhere(g, c)
                               \/ (members' # members /\ 1 \in {members[g][c], r}))
        /\ Finish(c)
        /\ UNCHANGED <<guilds, leader, stale>>
    BY DEF ApplyPoints
  <1>3. task'[c] = Idle /\ \A e \in Char \ {c} : task'[e] = task[e]
    BY <1>2, FinishEffect DEF LeadInv, GuildInv
  <1>4. ASSUME ~ disturbed', NEW h \in guilds PROVE Apart(h)
    <2>1. h \in GuildId
      BY DEF LeadInv, GuildInv, TypeOK
    <2>2. CASE members' = members
      BY <1>1, <1>2, <1>3, <2>2, OtherTask, IdleType DEF LeadInv, HandoverOps
    <2>3. CASE members' # members
      <3>1. ~ Elsewhere(g, c) /\ members[g][c] # 1 /\ r # 1
        BY <1>2, <1>4, <2>3
      <3>2. h \in G => h = g
        BY <2>1, <3>1 DEF Own, Elsewhere, GuildAssumption
      <3> HIDE DEF G
      <3>3. /\ \A e \in Char : members'[h][e] = IF e = c /\ h \in G /\ members[h][e] # 0
                                                THEN r ELSE members[h][e]
            /\ Listed(h)' = Listed(h)
        BY <1>1, <1>2, <2>1, RankedEffect DEF LeadInv, GuildInv
      <3>4. \A e \in Char : members'[h][e] = 1 <=> members[h][e] = 1
        BY <3>1, <3>2, <3>3
      <3>5. First(h)' = First(h)
        BY <3>4 DEF First
      <3>6. ASSUME NEW d \in Char, d \in Handover(h) \/ (d \in Handover(h))'
            PROVE  task'[d] = task[d]
        <4>1. task[d].op \in HandoverOps \/ task'[d].op \in HandoverOps
          BY <3>6 DEF Handover, HandoverOps
        <4> QED BY <1>1, <1>3, <4>1, IdleType DEF HandoverOps
      <3> QED BY <1>2, <3>3, <3>5, <3>6 DEF Apart
    <2> QED BY <2>2, <2>3
  <1>5. ~ disturbed' => ~ disturbed
    BY <1>2
  <1> QED BY <1>2, <1>4, <1>5, AllApart DEF LeadInv

\* The founder leads what nobody else has anything to do with.
LEMMA FoundLed ==
    ASSUME GuildAssumption, LeadInv, NEW c \in Char, Found(c)
    PROVE  Led'
  <1>1. PICK g \in GuildId : task[c].op = "founding" /\ g = task[c].guild
    BY Target DEF Found, Doing, LeadInv
  <1>2. /\ guilds' = guilds \cup {g}
        /\ leader' = [leader EXCEPT ![g] = c]
        /\ members' = [members EXCEPT ![g][c] = 1]
        /\ Finish(c)
        /\ disturbed' = disturbed /\ stale' = stale
    BY <1>1 DEF Found, historyVars
  <1>3. task'[c] = Idle /\ \A e \in Char \ {c} : task'[e] = task[e]
    BY <1>2, FinishEffect DEF LeadInv, GuildInv
  <1>4. Listed(g) = {} /\ g \notin guilds /\ \A d \in Char \ {c} : task[d].guild # g
    BY <1>1 DEF LeadInv, GuildInv, FoundsAlone
  <1>5. /\ members \in [GuildId -> [Char -> 0..5]]
        /\ leader \in [GuildId -> Char \cup {NoOne}]
        /\ guilds \subseteq GuildId
    BY DEF LeadInv, GuildInv, TypeOK
  <1>6. LedNow(g)'
    <2>1. Handover(g)' = {}
      BY <1>1, <1>3, <1>4, IdleType DEF Handover, GuildAssumption
    <2>2. \A e \in Char : members'[g][e] = IF e = c THEN 1 ELSE members[g][e]
      BY <1>1, <1>2, <1>5
    <2>3. First(g)' = {c}
      BY <1>4, <2>2 DEF First, Listed
    <2>4. leader'[g] = c
      BY <1>1, <1>2, <1>5
    <2> QED BY <2>1, <2>3, <2>4 DEF LedNow
  <1>7. ASSUME NEW h \in guilds, LedNow(h) PROVE LedNow(h)'
    <2>1. h # g /\ h \in GuildId
      BY <1>4, <1>5
    <2>2. members'[h] = members[h] /\ leader'[h] = leader[h]
      BY <1>1, <1>2, <1>5, <2>1
    <2>3. First(h)' = First(h) /\ Listed(h)' = Listed(h)
      BY <2>2 DEF First, Listed
    <2>4. ASSUME NEW d \in Char, d \in Handover(h) \/ (d \in Handover(h))'
          PROVE  task'[d] = task[d]
      <3>1. task[d].op \in HandoverOps \/ task'[d].op \in HandoverOps
        BY <2>4 DEF Handover, HandoverOps
      <3> QED BY <1>1, <1>3, <3>1, IdleType DEF HandoverOps
    <2> QED BY <1>2, <1>7, <2>1, <2>2, <2>3, <2>4, ApartStays DEF Apart
  <1> QED BY <1>2, <1>6, <1>7 DEF LeadInv, Led

\* The steps of a handover: what happens to its own guild, ...
LEMMA StepLed ==
    ASSUME GuildAssumption, LeadInv, NEW c \in Char, NEW g \in GuildId,
           ~ disturbed' => ~ disturbed, guilds' = guilds,
           ~ disturbed' =>
              \A h \in GuildId \ {g} : members'[h] = members[h] /\ leader'[h] = leader[h],
           stale' \subseteq stale,
           \A e \in Char \ {c} : task'[e] = task[e],
           task[c].op \in HandoverOps => task[c].guild = g,
           task'[c].op \in HandoverOps => task'[c].guild = g,
           ~ disturbed' /\ g \in guilds /\ LedNow(g) => LedNow(g)'
    PROVE  Led'
  <1>1. ASSUME ~ disturbed', NEW h \in guilds, h # g PROVE LedNow(h)'
    <2>1. h \in GuildId /\ LedNow(h)
      BY <1>1 DEF LeadInv, Led, GuildInv, TypeOK
    <2>2. First(h)' = First(h) /\ Listed(h)' = Listed(h)
      BY <1>1, <2>1 DEF First, Listed
    <2>3. ASSUME NEW d \in Char, d \in Handover(h) \/ (d \in Handover(h))'
          PROVE  task'[d] = task[d]
      <3>1. \/ task[d].op \in HandoverOps /\ task[d].guild = h
            \/ task'[d].op \in HandoverOps /\ task'[d].guild = h
        BY <2>3 DEF Handover, HandoverOps
      <3> QED BY <1>1, <3>1
    <2> QED BY <1>1, <2>1, <2>2, <2>3, ApartStays DEF Apart
  <1> QED BY <1>1 DEF LeadInv, Led

\* ... as it begins, ...
LEMMA HandOverLed ==
    ASSUME GuildAssumption, LeadInv, NEW c \in Char, NEW d \in Char, HandOver(c, d)
    PROVE  Led'
  <1>1. PICK g \in guilds :
            /\ task[c] = Idle
            /\ members[g][c] = 1
            /\ d # c /\ d \in Listed(g)
            /\ Begin(c, "crown", g, d, 1)
            /\ disturbed' = (disturbed \/ Handover(g) # {})
    BY DEF HandOver, In, Free
  <1>2. g \in GuildId
    BY DEF LeadInv, GuildInv, TypeOK
  <1>3. UNCHANGED <<guilds, leader, members, stale>>
    BY DEF HandOver, guildVars
  <1>4. /\ task'[c].op = "crown" /\ task'[c].guild = g /\ task'[c].target = d
        /\ \A e \in Char \ {c} : task'[e] = task[e]
    BY <1>1, <1>2, BeginEffect DEF LeadInv, GuildInv, Ops
  <1>5. ASSUME ~ disturbed', LedNow(g) PROVE LedNow(g)'
    <2>1. Handover(g) = {} /\ First(g) = {leader[g]}
      BY <1>1, <1>5 DEF LedNow
    <2>2. Handover(g)' = {c}
      BY <1>4, <2>1 DEF Handover
    <2>3. c = leader[g]
      BY <1>1, <2>1 DEF First
    <2>4. First(g)' = First(g) /\ Listed(g)' = Listed(g)
      BY <1>3 DEF First, Listed
    <2>5. c \notin stale'
      BY <1>1, <1>3, IdleType DEF LeadInv, Holding
    <2> QED BY <1>1, <1>3, <1>4, <2>1, <2>2, <2>3, <2>4, <2>5 DEF LedNow
  <1>6. task[c].op \notin HandoverOps
    BY <1>1, IdleType DEF HandoverOps
  <1> QED BY <1>1, <1>2, <1>3, <1>4, <1>5, <1>6, StepLed

\* ... as the heir gets the first rank, ...
LEMMA CrownLed ==
    ASSUME GuildAssumption, LeadInv, NEW c \in Char, Crown(c)
    PROVE  Led'
  <1>1. PICK g \in GuildId, d \in Char :
            task[c].op = "crown" /\ g = task[c].guild /\ d = task[c].target
    BY Target DEF Crown, Doing, LeadInv
  <1>2. /\ ApplyRank(c, g, d, 1)
        /\ Begin(c, "uncrown", g, d, 2)
        /\ disturbed' = (disturbed \/ Elsewhere(g, d))
        /\ stale' = stale \ {c}
        /\ UNCHANGED <<guilds, leader>>
    BY <1>1 DEF Crown
  <1>3. /\ task'[c].op = "uncrown" /\ task'[c].guild = g /\ task'[c].target = d
        /\ \A e \in Char \ {c} : task'[e] = task[e]
    BY <1>1, <1>2, BeginEffect DEF LeadInv, GuildInv, Ops
  <1>4. TypeOK
    BY DEF LeadInv, GuildInv
  <1>5. ASSUME ~ disturbed', LedNow(g) PROVE LedNow(g)'
    <2>1. c \in Handover(g)
      BY <1>1 DEF Handover
    <2>2. /\ Handover(g) = {c} /\ First(g) = {leader[g]}
          /\ d \in Listed(g) /\ d # leader[g] /\ c \notin stale
      BY <1>1, <1>5, <2>1 DEF LedNow
    <2>3. Handover(g)' = {c}
      BY <1>3, <2>2 DEF Handover
    <2>4. \A e \in Char : members'[g][e] = IF e = d THEN 1 ELSE members[g][e]
      <3>1. ~ Elsewhere(g, d) /\ ApplyRank(c, g, d, 1)
        BY <1>2, <1>5
      <3>2. \A e \in Char : members'[g][e] = IF e = d /\ members[g][e] # 0 THEN 1 ELSE members[g][e]
        BY <1>4, <2>2, <3>1, RankGoes
      <3> QED BY <2>2, <3>2 DEF Listed
    <2>5. First(g)' = {leader[g], d} /\ d \in Listed(g)'
      BY <1>1, <2>2, <2>4 DEF First, Listed
    <2> QED BY <1>2, <1>3, <2>2, <2>3, <2>5 DEF LedNow
  <1>6. ~ disturbed' => \A h \in GuildId \ {g} : members'[h] = members[h] /\ leader'[h] = leader[h]
    <2>1. SUFFICES ASSUME ~ disturbed'
                   PROVE  \A h \in GuildId \ {g} : members'[h] = members[h]
      BY <1>2
    <2>2. ~ Elsewhere(g, d) /\ ApplyRank(c, g, d, 1)
      BY <1>2, <2>1
    <2> QED BY <1>4, <2>2, RankGoes
  <1> QED BY <1>1, <1>2, <1>3, <1>5, <1>6, StepLed

\* ... as the old leader loses it, ...
LEMMA UncrownLed ==
    ASSUME GuildAssumption, LeadInv, NEW c \in Char, Uncrown(c)
    PROVE  Led'
  <1>1. PICK g \in GuildId, d \in Char :
            task[c].op = "uncrown" /\ g = task[c].guild /\ d = task[c].target
    BY Target DEF Uncrown, Doing, LeadInv
  <1>2. UNCHANGED <<guilds, leader, stale>> /\ (~ disturbed' => ~ disturbed)
    BY <1>1 DEF Uncrown
  <1>3. TypeOK
    BY DEF LeadInv, GuildInv
  <1>4. CASE leader[g] \in Listed(g)
    <2>1. /\ ApplyRank(c, g, leader[g], 2)
          /\ Begin(c, "crowned", g, d, 2)
          /\ disturbed' = (disturbed \/ Elsewhere(g, leader[g]))
          /\ leader[g] \in Char
      BY <1>1, <1>4, ListedChar DEF Uncrown
    <2>2. /\ task'[c].op = "crowned" /\ task'[c].guild = g /\ task'[c].target = d
          /\ \A e \in Char \ {c} : task'[e] = task[e]
      BY <1>1, <2>1, BeginEffect DEF LeadInv, GuildInv, Ops
    <2>3. ASSUME ~ disturbed', LedNow(g) PROVE LedNow(g)'
      <3>1. c \in Handover(g)
        BY <1>1 DEF Handover
      <3>2. /\ Handover(g) = {c} /\ First(g) = {leader[g], d}
            /\ d \in Listed(g) /\ d # leader[g] /\ c \notin stale
        BY <1>1, <2>3, <3>1 DEF LedNow
      <3>3. Handover(g)' = {c}
        BY <2>2, <3>2 DEF Handover
      <3>4. \A e \in Char : members'[g][e] = IF e = leader[g] THEN 2 ELSE members[g][e]
        <4>1. ~ Elsewhere(g, leader[g]) /\ ApplyRank(c, g, leader[g], 2)
          BY <2>1, <2>3
        <4>2. \A e \in Char : members'[g][e] =
                  IF e = leader[g] /\ members[g][e] # 0 THEN 2 ELSE members[g][e]
          BY <1>3, <2>1, <3>2, <4>1, RankGoes
        <4> QED BY <1>4, <4>2 DEF Listed
      <3>5. First(g)' = {d} /\ d \in Listed(g)'
        BY <1>1, <3>2, <3>4 DEF First, Listed
      <3> QED BY <1>2, <2>2, <3>2, <3>3, <3>5 DEF LedNow
    <2>4. ~ disturbed' => \A h \in GuildId \ {g} : members'[h] = members[h] /\ leader'[h] = leader[h]
      <3>1. SUFFICES ASSUME ~ disturbed'
                     PROVE  \A h \in GuildId \ {g} : members'[h] = members[h]
        BY <1>2
      <3>2. ~ Elsewhere(g, leader[g]) /\ ApplyRank(c, g, leader[g], 2)
        BY <2>1, <3>1
      <3> QED BY <1>3, <2>1, <3>2, RankGoes
    <2> QED BY <1>1, <1>2, <2>2, <2>3, <2>4, StepLed
  <1>5. CASE leader[g] \notin Listed(g)
    <2>1. Finish(c) /\ UNCHANGED members
      BY <1>1, <1>5 DEF Uncrown
    <2>2. task'[c] = Idle /\ \A e \in Char \ {c} : task'[e] = task[e]
      BY <2>1, FinishEffect DEF LeadInv, GuildInv
    <2>3. ~ LedNow(g)
      <3>1. c \in Handover(g)
        BY <1>1 DEF Handover
      <3>2. leader[g] \in First(g) => leader[g] \in Listed(g)
        BY DEF First, Listed
      <3> QED BY <1>1, <1>5, <3>1, <3>2 DEF LedNow
    <2>4. task'[c].op \notin HandoverOps
      BY <2>2, IdleType DEF HandoverOps
    <2> QED BY <1>1, <1>2, <2>1, <2>2, <2>3, <2>4, StepLed
  <1> QED BY <1>4, <1>5

\* ... and as the guild gets its new leader.
LEMMA CrownedLed ==
    ASSUME GuildAssumption, LeadInv, NEW c \in Char, Crowned(c)
    PROVE  Led'
  <1>1. PICK g \in GuildId, d \in Char :
            task[c].op = "crowned" /\ g = task[c].guild /\ d = task[c].target
    BY Target DEF Crowned, Doing, LeadInv
  <1>2. /\ leader' = [leader EXCEPT ![g] = d]
        /\ Finish(c)
        /\ UNCHANGED <<guilds, members, stale, disturbed>>
    BY <1>1 DEF Crowned, historyVars
  <1>3. task'[c] = Idle /\ \A e \in Char \ {c} : task'[e] = task[e]
    BY <1>2, FinishEffect DEF LeadInv, GuildInv
  <1>4. leader \in [GuildId -> Char \cup {NoOne}]
    BY DEF LeadInv, GuildInv, TypeOK
  <1>5. ASSUME LedNow(g) PROVE LedNow(g)'
    <2>1. c \in Handover(g)
      BY <1>1 DEF Handover
    <2>2. Handover(g) = {c} /\ First(g) = {d}
      BY <1>1, <1>5, <2>1 DEF LedNow
    <2>3. Handover(g)' = {}
      BY <1>3, <2>2, IdleType DEF Handover
    <2>4. First(g)' = {d} /\ leader'[g] = d
      BY <1>1, <1>2, <1>4, <2>2 DEF First
    <2> QED BY <2>3, <2>4 DEF LedNow
  <1>6. task'[c].op \notin HandoverOps
    BY <1>3, IdleType DEF HandoverOps
  <1>7. \A h \in GuildId \ {g} : members'[h] = members[h] /\ leader'[h] = leader[h]
    BY <1>2, <1>4
  <1> QED BY <1>1, <1>2, <1>3, <1>5, <1>6, <1>7, StepLed

LEMMA DisbandLed ==
    ASSUME GuildAssumption, LeadInv, NEW c \in Char, Disband(c)
    PROVE  Led'
  <1>1. /\ guilds' \subseteq guilds
        /\ UNCHANGED <<leader, members, task, stale>>
        /\ ~ disturbed' => ~ disturbed
    BY DEF Disband
  <1>2. \A h \in guilds' : Apart(h)
    BY <1>1, OtherTask DEF LeadInv
  <1> QED BY <1>1, <1>2, AllApart DEF LeadInv

\* After a crash in a handover the table decides who leads.
LEMMA RestartLed ==
    ASSUME GuildAssumption, LeadInv, Restart
    PROVE  Led'
  <1>1. ASSUME NEW g \in Kept PROVE LedNow(g)'
    <2>1. g \in GuildId /\ guildRow[g] \in Heirs(g) /\ guildRow[g] \in Char
      BY DEF Kept, Heirs
    <2>2. Handover(g)' = {}
      BY IdleType DEF Restart, Handover
    <2>3. leader'[g] = guildRow[g]
      BY <1>1, <2>1 DEF Restart
    <2>4. \A e \in Char : members'[g][e] = IF e \in Heirs(g) THEN ListRank(g, e) ELSE 0
      BY <1>1, <2>1 DEF Restart
    <2>5. ASSUME NEW e \in Char PROVE ListRank(g, e) = 1 <=> e = guildRow[g]
      <3>1. charRow[e].rank \in 1..5
        BY DEF LeadInv, GuildInv, TypeOK, Membership
      <3>2. CASE guildRow[g] = e
        BY <3>2 DEF ListRank
      <3>3. CASE guildRow[g] # e /\ charRow[e].rank = 1
        BY <3>3 DEF ListRank
      <3>4. CASE guildRow[g] # e /\ charRow[e].rank # 1
        BY <3>4 DEF ListRank
      <3> QED BY <3>2, <3>3, <3>4
    <2>6. First(g)' = {guildRow[g]}
      BY <2>1, <2>4, <2>5 DEF First
    <2> QED BY <2>2, <2>3, <2>6 DEF LedNow
  <1>2. guilds' = Kept
    BY DEF Restart
  <1> QED BY <1>1, <1>2 DEF Led

LEMMA BeginGiven ==
    ASSUME TypeOK, RanksGiven, NEW c \in Char, NEW op, NEW g, NEW d, NEW r,
           op # "rank" \/ r # 1, Begin(c, op, g, d, r)
    PROVE  RanksGiven'
  BY DEF TypeOK, RanksGiven, Begin

LEMMA FinishGiven ==
    ASSUME TypeOK, RanksGiven, NEW c \in Char, Finish(c) \/ UNCHANGED task
    PROVE  RanksGiven'
  BY IdleType DEF TypeOK, RanksGiven, Finish

LEMMA NextRanksGiven ==
    ASSUME GuildAssumption, GuildInv, RanksGiven, Next
    PROVE  RanksGiven'
  <1>1. TypeOK
    BY DEF GuildInv
  <1>2. ASSUME NEW c \in Char, NEW g, Points(c, g) PROVE RanksGiven'
    BY <1>1, <1>2, BeginGiven DEF Points
  <1>3. ASSUME NEW c \in Char,
               Create(c) \/ Accept(c) \/ Earn(c) \/ Leave(c) \/ Disband(c) \/ Lapse(c)
        PROVE  RanksGiven'
    BY <1>1, <1>2, <1>3, BeginGiven, FinishGiven
       DEF Create, Accept, Earn, Leave, Disband, Lapse
  <1>4. ASSUME NEW c \in Char, Handles(c) PROVE RanksGiven'
    BY <1>1, <1>2, <1>4, BeginGiven, FinishGiven
       DEF Handles, Found, Join, Joined, ApplyPoints, FinishRank, Crown, Uncrown, Crowned
  <1>5. ASSUME NEW c \in Char,
               Load(c) \/ Enter(c) \/ LogOut(c) \/ Transfer(c) \/ Depart(c) \/ Stray(c)
        PROVE  RanksGiven'
    BY <1>1, <1>5, FinishGiven DEF Load, Enter, LogOut, Transfer, Depart, Stray
  <1>6. ASSUME NEW c \in Char, NEW d \in Char, Invite(c, d) \/ Expel(c, d) \/ HandOver(c, d)
        PROVE  RanksGiven'
    BY <1>1, <1>6, BeginGiven, FinishGiven DEF Invite, Expel, HandOver
  <1>7. ASSUME NEW c \in Char, NEW d \in Char, NEW r \in GivenRanks, ChangeRank(c, d, r)
        PROVE  RanksGiven'
    <2>1. r # 1
      BY DEF GuildAssumption
    <2> QED BY <1>1, <1>7, <2>1, BeginGiven DEF ChangeRank
  <1>8. CASE Restart
    BY <1>8, IdleType DEF Restart, RanksGiven
  <1> QED BY <1>3, <1>4, <1>5, <1>6, <1>7, <1>8 DEF Next

\* What a handler does of its own keeps no member that it holds no more.
LEMMA HoldingStays ==
    ASSUME TypeOK, Holding, NEW c \in Char, stale' \subseteq stale,
           task[c].op \in {"rank", "crown"} => c \notin stale',
           UNCHANGED task \/ Finish(c) \/ \E op, g, d, r : Begin(c, op, g, d, r)
    PROVE  Holding'
  <1>1. \A e \in Char \ {c} : task'[e] = task[e]
    BY DEF TypeOK, Finish, Begin
  <1>2. ASSUME NEW e \in stale' PROVE task'[e].op \in {"rank", "crown"}
    <2>1. e \in Char /\ e \in stale /\ task[e].op \in {"rank", "crown"}
      BY DEF Holding, TypeOK
    <2> QED BY <1>1, <1>2, <2>1
  <1> QED BY <1>2 DEF Holding

LEMMA NextHolding ==
    ASSUME GuildAssumption, GuildInv, Holding, Next
    PROVE  Holding'
  <1>1. TypeOK
    BY DEF GuildInv
  <1>2. ASSUME NEW c \in Char, NEW d \in Char,
               \/ Create(c) \/ Accept(c) \/ Earn(c) \/ HandOver(c, d)
               \/ \E r \in GivenRanks : ChangeRank(c, d, r)
        PROVE  Holding'
    <2>1. task[c].op = "idle" /\ stale' = stale
      BY <1>2, IdleType DEF Create, Accept, Earn, HandOver, ChangeRank, Points, In, Free
    <2>2. UNCHANGED task \/ \E op, g, e, r : Begin(c, op, g, e, r)
      BY <1>2 DEF Create, Accept, Earn, HandOver, ChangeRank, Points
    <2> QED BY <1>1, <2>1, <2>2, HoldingStays
  <1>3. ASSUME NEW c \in Char, NEW d \in Char,
               \/ Disband(c) \/ Lapse(c) \/ Invite(c, d)
               \/ Load(c) \/ Enter(c) \/ LogOut(c) \/ Transfer(c) \/ Depart(c) \/ Stray(c)
        PROVE  Holding'
    <2>1. UNCHANGED <<task, stale>>
      BY <1>3 DEF Disband, Lapse, Invite, Load, Enter, LogOut, Transfer, Depart, Stray
    <2> QED BY <2>1 DEF Holding
  <1>4. ASSUME NEW c \in Char, NEW d \in Char, Leave(c) \/ Expel(c, d)
        PROVE  Holding'
    <2>1. /\ UNCHANGED task
          /\ \A e \in stale' \ stale : task[e].op \in {"rank", "crown"}
      BY <1>4 DEF Leave, Expel, Remove
    <2> QED BY <2>1 DEF Holding
  <1>5. ASSUME NEW c \in Char, Found(c) \/ Join(c) \/ Joined(c) \/ ApplyPoints(c) \/ Uncrown(c) \/ Crowned(c)
        PROVE  Holding'
    <2>1. task[c].op \notin {"rank", "crown"} /\ stale' = stale
      BY <1>5 DEF Found, Join, Joined, ApplyPoints, Uncrown, Crowned, Points, Doing
    <2>2. Finish(c) \/ \E op, g, e, r : Begin(c, op, g, e, r)
      BY <1>5 DEF Found, Join, Joined, ApplyPoints, Uncrown, Crowned, Points
    <2> QED BY <1>1, <2>1, <2>2, HoldingStays
  <1>6. ASSUME NEW c \in Char, FinishRank(c) \/ Crown(c)
        PROVE  Holding'
    <2>1. stale' = stale \ {c}
      BY <1>6 DEF FinishRank, Crown
    <2>2. Finish(c) \/ \E op, g, e, r : Begin(c, op, g, e, r)
      BY <1>6 DEF FinishRank, Crown
    <2> QED BY <1>1, <2>1, <2>2, HoldingStays
  <1>7. CASE Restart
    BY <1>7 DEF Restart, Holding
  <1> QED BY <1>2, <1>3, <1>4, <1>5, <1>6, <1>7 DEF Next, Handles

\* The handlers in which nobody gets a rank, and which hand nothing over.
LEMMA OthersLed ==
    ASSUME GuildAssumption, LeadInv, NEW c \in Char,
           members' = members, leader' = leader, guilds' = guilds, stale' = stale,
           disturbed' = disturbed,
           \A e \in Char \ {c} : task'[e] = task[e],
           task'[c] = task[c] \/ (task[c].op \notin HandoverOps /\ task'[c].op \notin HandoverOps)
    PROVE  Led'
  <1>1. \A h \in guilds' : Apart(h)
    BY OtherTask DEF LeadInv
  <1> QED BY <1>1, AllApart DEF LeadInv

LEMMA PointsLed ==
    ASSUME GuildAssumption, LeadInv, NEW c \in Char, NEW g, Points(c, g),
           task[c].op \notin HandoverOps
    PROVE  Led'
  <1>1. task'[c].op = "points" /\ \A e \in Char \ {c} : task'[e] = task[e]
    BY DEF Points, Begin, LeadInv, GuildInv, TypeOK
  <1>2. UNCHANGED <<members, leader, guilds, stale, disturbed>>
    BY DEF Points, guildVars, historyVars
  <1> QED BY <1>1, <1>2, OthersLed DEF HandoverOps

LEMMA StartsLed ==
    ASSUME GuildAssumption, LeadInv, NEW c \in Char,
           \/ Create(c) \/ Accept(c) \/ Earn(c)
           \/ \E d \in Char, r \in GivenRanks : ChangeRank(c, d, r)
    PROVE  Led'
  <1>1. CASE Earn(c)
    <2>1. task[c].op \notin HandoverOps
      BY <1>1, IdleType DEF Earn, In, Free, HandoverOps
    <2> QED BY <1>1, <2>1, PointsLed DEF Earn
  <1>2. CASE ~ Earn(c)
    <2>1. task[c] = Idle /\ UNCHANGED <<members, leader, guilds, stale, disturbed>>
      BY <1>2 DEF Create, Accept, ChangeRank, In, Free, guildVars, historyVars
    <2>2. /\ \A e \in Char \ {c} : task'[e] = task[e]
          /\ task'[c] = task[c] \/ task'[c].op \in {"founding", "joining", "rank"}
      <3>1. task' = task \/ \E op \in {"founding", "joining", "rank"} : \E g, d, r : Begin(c, op, g, d, r)
        BY <1>2 DEF Create, Accept, ChangeRank
      <3> QED BY <3>1 DEF Begin, LeadInv, GuildInv, TypeOK
    <2> QED BY <2>1, <2>2, OthersLed, IdleType DEF HandoverOps
  <1> QED BY <1>1, <1>2

LEMMA JoinedLed ==
    ASSUME GuildAssumption, LeadInv, NEW c \in Char, Joined(c)
    PROVE  Led'
  <1>1. task[c].op = "joined"
    BY DEF Joined, Doing
  <1>2. CASE \E g : Points(c, g)
    BY <1>1, <1>2, PointsLed DEF HandoverOps
  <1>3. CASE ~ \E g : Points(c, g)
    <2>1. Finish(c) /\ UNCHANGED <<members, leader, guilds, stale, disturbed>>
      BY <1>3 DEF Joined, guildVars, historyVars
    <2>2. task'[c] = Idle /\ \A e \in Char \ {c} : task'[e] = task[e]
      BY <2>1, FinishEffect DEF LeadInv, GuildInv
    <2> QED BY <1>1, <2>1, <2>2, OthersLed, IdleType DEF HandoverOps
  <1> QED BY <1>2, <1>3

LEMMA PassesLed ==
    ASSUME GuildAssumption, LeadInv, NEW c \in Char,
           \/ Load(c) \/ Enter(c) \/ LogOut(c) \/ Transfer(c) \/ Depart(c) \/ Stray(c)
           \/ Lapse(c) \/ \E d \in Char : Invite(c, d)
    PROVE  Led'
  <1>1. UNCHANGED <<members, leader, guilds, stale, disturbed, task>>
    BY DEF Load, Enter, LogOut, Transfer, Depart, Stray, Lapse, Invite, guildVars, historyVars
  <1> QED BY <1>1, OthersLed

LEMMA NextLeadInv ==
    ASSUME GuildAssumption, LeadInv, SeatsKept, [Next]_vars
    PROVE  LeadInv' /\ SeatsKept'
  <1>1. GuildInv' /\ SeatsKept'
    BY NextGuildInv DEF LeadInv
  <1>2. CASE UNCHANGED vars
    <2>1. RanksGiven' /\ Holding'
      BY <1>2 DEF vars, LeadInv, RanksGiven, Holding
    <2>2. Led'
      BY <1>2 DEF vars, guildVars, historyVars, LeadInv, Led, LedNow, First, Listed, Handover
    <2> QED BY <1>1, <2>1, <2>2 DEF LeadInv
  <1>3. CASE Next
    <2>1. RanksGiven' /\ Holding'
      BY <1>3, NextRanksGiven, NextHolding DEF LeadInv
    <2>2. Led'
      <3>1. ASSUME NEW c \in Char,
                   \/ Create(c) \/ Accept(c) \/ Earn(c) \/ Leave(c) \/ Disband(c) \/ Lapse(c)
                   \/ Load(c) \/ Enter(c) \/ LogOut(c) \/ Transfer(c) \/ Depart(c) \/ Stray(c)
            PROVE  Led'
        BY <3>1, StartsLed, RemovalLed, DisbandLed, PassesLed
      <3>2. ASSUME NEW c \in Char, Handles(c) PROVE Led'
        BY <3>2, FoundLed, JoinLed, JoinedLed, ApplyPointsLed, FinishRankLed, CrownLed, UncrownLed, CrownedLed
           DEF Handles
      <3>3. ASSUME NEW c \in Char, NEW d \in Char,
                   \/ Invite(c, d) \/ Expel(c, d) \/ HandOver(c, d)
                   \/ \E r \in GivenRanks : ChangeRank(c, d, r)
            PROVE  Led'
        BY <3>3, PassesLed, RemovalLed, HandOverLed, StartsLed
      <3> QED BY <1>3, <3>1, <3>2, <3>3, RestartLed DEF Next
    <2> QED BY <1>1, <2>1, <2>2 DEF LeadInv
  <1> QED BY <1>2, <1>3

LEMMA InitLeadInv == GuildAssumption /\ Init => LeadInv /\ SeatsKept
  <1> SUFFICES ASSUME GuildAssumption, Init PROVE LeadInv /\ SeatsKept
    OBVIOUS
  <1>1. RanksGiven /\ Holding /\ Led
    BY IdleType DEF Init, RanksGiven, Holding, Led
  <1> QED BY <1>1, InitGuildInv DEF LeadInv

\* However ranks are given while a guild is handed over, and wherever a crash
\* interrupts changeGuildLeader: a guild that nobody is handing over has one
\* member of the first rank, its leader, unless somebody acted on the heir, or
\* on the leader, in the middle of it, or an old rank came back late (gainGP).
THEOREM OneLeads == Spec => []OneLeader
  <1>1. LeadInv => OneLeader
    BY DEF LeadInv, Led, LedNow, First, OneLeader
  <1>2. GuildAssumption
    BY GuildAssumption
  <1> QED BY <1>1, <1>2, InitLeadInv, NextLeadInv, PTL DEF Spec

-----------------------------------------------------------------------------
(* The three records of a membership.  What is proved of one character is   *)
(* stated in five parts: who joins has the guild before the guild has it,   *)
(* and its row only when it has the points.                                 *)

\* A record that says of the character's membership what the lists say.
Tells(m, c) ==
    \A g \in guilds :
        /\ m.guild = g <=> members[g][c] # 0
        /\ members[g][c] # 0 => m.rank = members[g][c]

OnRow(c) == Settled(c) => Tells(charRow[c], c)
OnServer(c) ==
    (place[c] # "offline" /\ Settled(c)) \/ task[c].op \in {"joined", "points"}
        => Tells(mine[c], c)
Founder(c) == task[c].op = "founding" => mine[c].guild = NoGuild
Newcomer(c) ==
    task[c].op = "joining" =>
        /\ mine[c].guild = task[c].guild /\ mine[c].rank = 5
        /\ \A g \in guilds : members[g][c] = 0 /\ charRow[c].guild # g
Announced(c) ==
    place[c] = "game" => \A g \in guilds : members[g][c] # 0 => c \in online[g]

Recorded(c) ==
    OnRow(c) /\ OnServer(c) /\ Founder(c) /\ Newcomer(c) /\ Announced(c)

\* Only who is in the game has a handler.
InGame == \A c \in Char : task[c].op # "idle" => place[c] = "game"

\* Nobody has a guild on record that is still being founded, or is to be.
Established == {g \in made : \A c \in Char : task[c].op = "founding" => task[c].guild # g}
Known == \A c \in Char : {mine[c].guild, charRow[c].guild} \subseteq Established \cup {NoGuild}

RecordsInv ==
    GuildInv /\ InGame /\ Known /\ \A c \in Char \ astray : Recorded(c)

\* A character whose records a step leaves alone.
LEMMA RecordsStay ==
    ASSUME NEW d \in Char, Recorded(d),
           task'[d] = task[d] \/ (Settled(d) /\ Settled(d)' /\ task'[d].op # "founding"),
           place'[d] = place[d] \/ (place[d] # "offline" /\ place'[d] # "game"),
           mine'[d] = mine[d], charRow'[d] = charRow[d],
           \A g \in guilds' :
              \/ /\ g \in guilds /\ members'[g][d] = members[g][d]
                 /\ d \in online[g] => d \in online'[g]
              \/ members'[g][d] = 0 /\ charRow[d].guild # g /\ mine[d].guild # g
    PROVE  Recorded(d)'
  <1>1. Tells(charRow[d], d) => Tells(charRow[d], d)'
    BY DEF Tells
  <1>2. Tells(mine[d], d) => Tells(mine[d], d)'
    BY DEF Tells
  <1>3. OnRow(d)'
    BY <1>1 DEF Recorded, OnRow, Settled
  <1>4. OnServer(d)'
    BY <1>2 DEF Recorded, OnServer, Settled
  <1>5. Founder(d)'
    BY DEF Recorded, Founder, Settled
  <1>6. Newcomer(d)'
    BY DEF Recorded, Newcomer, Settled
  <1>7. Announced(d)'
    BY DEF Recorded, Announced
  <1> QED BY <1>3, <1>4, <1>5, <1>6, <1>7 DEF Recorded

\* Somebody who can be told of a change hears it in the game, and has it in
\* the row in any case.
LEMMA CanBeTold ==
    ASSUME RecordsInv, NEW g \in guilds, NEW S,
           NEW d \in Char, Recorded(d), d \in S, d \notin Missed(g, S), members[g][d] # 0
    PROVE  /\ place[d] \in {"game", "offline"}
           /\ place[d] = "game" <=> d \in online[g]
  <1>1. place[d] \in {"game", "offline"} /\ (place[d] = "offline" => d \notin online[g])
    BY DEF Missed, RecordsInv, GuildInv, TypeOK, Place
  <1>2. place[d] = "game" => d \in online[g]
    BY DEF Recorded, Announced
  <1> QED BY <1>1, <1>2

LEMMA ReachTells ==
    ASSUME NEW on, NEW S, NEW m, Reach(on, S, m), NEW d \in Char, d \in S,
           place[d] \in {"game", "offline"}, place[d] = "game" <=> d \in on
    PROVE  charRow'[d] = m /\ (place[d] = "game" => mine'[d] = m)
  BY DEF Reach, Hears, Stored

LEMMA ReachLeaves ==
    ASSUME NEW on, NEW S, NEW m, Reach(on, S, m), NEW d \in Char, d \notin S
    PROVE  mine'[d] = mine[d] /\ charRow'[d] = charRow[d]
  BY DEF Reach

\* The one guild that lists a character, for whom a record tells it.
LEMMA OneGuild ==
    ASSUME NEW m, NEW c \in Char, Tells(m, c),
           NEW g \in guilds, NEW h \in guilds, members[g][c] # 0, members[h][c] # 0
    PROVE  g = h
  BY DEF Tells

\* Wherever a settled character is, or while it gets its points, some record
\* tells its guild; one that joins is on no list.
LEMMA ListedOnce ==
    ASSUME RecordsInv, NEW d \in Char, Recorded(d),
           NEW g \in guilds, NEW h \in guilds, members[g][d] # 0, members[h][d] # 0
    PROVE  g = h /\ task[d].op \notin {"founding", "joining"}
  <1>1. task[d].op # "joining"
    BY DEF Recorded, Newcomer
  <1>2. CASE task[d].op \in {"joined", "points"}
    BY <1>2, OneGuild DEF Recorded, OnServer
  <1>3. CASE task[d].op \notin {"joined", "points"}
    <2>1. g = h
      BY <1>1, <1>3, OneGuild DEF Recorded, OnRow, Settled
    <2>2. task[d].op # "founding"
      <3>1. SUFFICES ASSUME task[d].op = "founding" PROVE FALSE
        OBVIOUS
      <3>2. place[d] = "game" /\ Settled(d)
        BY <3>1 DEF RecordsInv, InGame, Settled
      <3>3. mine[d].guild = g /\ mine[d].guild = NoGuild
        BY <3>1, <3>2 DEF Recorded, OnServer, Tells, Founder
      <3>4. g \in GuildId
        BY DEF RecordsInv, GuildInv, TypeOK
      <3> QED BY <3>3, <3>4, GuildAssumption DEF GuildAssumption
    <2> QED BY <1>1, <2>1, <2>2
  <1> QED BY <1>2, <1>3

\* What a character is told of its guild settles all its records.
LEMMA ToldRecorded ==
    ASSUME RecordsInv, NEW d \in Char, Recorded(d), NEW g \in guilds, members[g][d] # 0,
           NEW m, charRow'[d] = m, place[d] = "game" => mine'[d] = m,
           place[d] \in {"game", "offline"}, UNCHANGED <<place, online>>,
           task'[d] = task[d] \/ (Settled(d) /\ Settled(d)' /\ task'[d].op # "founding")
             \/ task'[d].op = "idle",
           guilds' \subseteq guilds,
           \A h \in guilds' \ {g} : m.guild # h /\ members'[h][d] = members[h][d],
           g \in guilds' =>
              /\ m.guild = g <=> members'[g][d] # 0
              /\ members'[g][d] # 0 => m.rank = members'[g][d]
    PROVE  Recorded(d)'
  <1>1. /\ \A h \in guilds \ {g} : members[h][d] = 0
        /\ task[d].op \notin {"founding", "joining"}
    BY ListedOnce
  <1>2. /\ \A h \in guilds' : m.guild = h <=> members'[h][d] # 0
        /\ \A h \in guilds' : members'[h][d] # 0 => m.rank = members'[h][d]
    BY <1>1
  <1>3. OnRow(d)'
    BY <1>2 DEF OnRow, Tells
  <1>4. OnServer(d)'
    <2>1. task'[d].op \in {"joined", "points"} => place[d] = "game"
      BY DEF RecordsInv, InGame, Settled
    <2>2. place[d] = "game" => Tells(mine[d], d)'
      BY <1>2 DEF Tells
    <2> QED BY <2>1, <2>2 DEF OnServer
  <1>5. Founder(d)' /\ Newcomer(d)'
    BY <1>1 DEF Founder, Newcomer, Settled
  <1>6. Announced(d)'
    BY <1>1 DEF Announced, Recorded
  <1> QED BY <1>3, <1>4, <1>5, <1>6 DEF Recorded

-----------------------------------------------------------------------------
(* The actions, for one character that is not astray.                      *)

LEMMA RankRecorded ==
    ASSUME RecordsInv, NEW c \in Char, NEW g \in GuildId, NEW e \in Char, NEW r \in 1..5,
           ApplyRank(c, g, e, r),
           UNCHANGED <<guilds, online, place>>,
           NEW d \in Char \ astray',
           task'[d] = task[d] \/ (Settled(d) /\ Settled(d)' /\ task'[d].op # "founding")
    PROVE  Recorded(d)'
  <1> DEFINE m == [guild |-> g, rank |-> r]
  <1>1. PICK on \in IF c \in stale THEN SUBSET {e} ELSE {online[g]} :
            /\ Reach(on, {e}, m)
            /\ members' = Ranked(e, Own(on, e) \cup (IF c \in stale THEN {} ELSE {g}), r)
            /\ astray' = astray \cup Missed(g, {e}) \cup Late(g, e, r) \cup {x \in {e} : c \in stale}
    BY DEF ApplyRank
  <1>2. m.guild = g /\ m.rank = r
    OBVIOUS
  <1> HIDE DEF m
  <1>3. TypeOK /\ guilds \subseteq GuildId
    BY DEF RecordsInv, GuildInv, TypeOK
  <1>4. Recorded(d)
    BY <1>1 DEF RecordsInv
  <1>5. \A h \in GuildId, x \in Char :
            \/ members'[h][x] = members[h][x]
            \/ x = e /\ members[h][x] # 0 /\ members'[h][x] = r
    <2> DEFINE G == Own(on, e) \cup (IF c \in stale THEN {} ELSE {g})
    <2>1. members' = Ranked(e, G, r)
      BY <1>1
    <2> HIDE DEF G
    <2> QED BY <1>3, <2>1, RankedEffect
  <1>6. CASE d # e
    <2>1. mine'[d] = mine[d] /\ charRow'[d] = charRow[d]
      BY <1>1, <1>6, ReachLeaves
    <2>2. \A h \in guilds' : members'[h][d] = members[h][d]
      BY <1>3, <1>5, <1>6
    <2> QED BY <1>4, <2>1, <2>2, RecordsStay
  <1>7. CASE d = e
    <2>1. c \notin stale /\ d \notin Missed(g, {e}) /\ d \notin Late(g, e, r)
      BY <1>1, <1>7
    <2>2. g \in guilds /\ members'[g][d] = r
      BY <1>7, <2>1 DEF Late
    <2>3. members[g][d] # 0
      BY <1>5, <2>2
    <2>4. /\ charRow'[d] = m
          /\ place[d] \in {"game", "offline"}
          /\ place[d] = "game" => mine'[d] = m
      <3>1. on = online[g]
        BY <1>1, <2>1
      <3>2. d \in {e}
        BY <1>7
      <3>3. place[d] \in {"game", "offline"} /\ (place[d] = "game" <=> d \in on)
        BY <1>4, <2>1, <2>2, <2>3, <3>1, <3>2, CanBeTold
      <3> QED BY <1>1, <3>2, <3>3, ReachTells
    <2>5. \A h \in guilds \ {g} : members[h][d] = 0
      BY <1>4, <2>2, <2>3, ListedOnce
    <2>6. \A h \in guilds' \ {g} : members'[h][d] = members[h][d]
      BY <1>3, <1>5, <2>5
    <2> QED BY <1>2, <1>4, <2>2, <2>3, <2>4, <2>6, ToldRecorded
  <1> QED BY <1>6, <1>7

LEMMA RemoveRecorded ==
    ASSUME RecordsInv, NEW g \in guilds, NEW e \in Char, members[g][e] # 0, Remove(g, e),
           UNCHANGED <<guilds, online, place, task>>,
           NEW d \in Char \ astray'
    PROVE  Recorded(d)'
  <1>1. Recorded(d)
    BY DEF Remove, RecordsInv
  <1>2. PICK on : /\ on = online[g]
                  /\ Reach(on, {e}, Outside)
                  /\ members' = [members EXCEPT ![g][e] = 0]
                  /\ d \notin Missed(g, {e})
    BY DEF Remove, Reach
  <1>3. members \in [GuildId -> [Char -> 0..5]] /\ guilds \subseteq GuildId
    BY DEF RecordsInv, GuildInv, TypeOK
  <1>4. CASE d # e
    <2>1. mine'[d] = mine[d] /\ charRow'[d] = charRow[d]
      BY <1>2, <1>4, ReachLeaves
    <2>2. \A h \in guilds' : members'[h][d] = members[h][d]
      BY <1>2, <1>3, <1>4
    <2> QED BY <1>1, <2>1, <2>2, RecordsStay
  <1>5. CASE d = e
    <2>1. /\ charRow'[d] = Outside
          /\ place[d] \in {"game", "offline"}
          /\ place[d] = "game" => mine'[d] = Outside
      <3>1. place[d] \in {"game", "offline"} /\ (place[d] = "game" <=> d \in on)
        BY <1>1, <1>2, <1>5, CanBeTold
      <3> QED BY <1>2, <1>5, <3>1, ReachTells
    <2>2. members'[g][d] = 0 /\ \A h \in guilds' \ {g} : members'[h][d] = members[h][d]
      BY <1>2, <1>3, <1>5
    <2>3. \A h \in guilds : Outside.guild # h
      BY <1>3, GuildAssumption DEF Outside, GuildAssumption
    <2> QED BY <1>1, <1>5, <2>1, <2>2, <2>3, ToldRecorded
  <1> QED BY <1>4, <1>5

LEMMA DisbandRecorded ==
    ASSUME RecordsInv, NEW c \in Char, Disband(c), NEW d \in Char \ astray'
    PROVE  Recorded(d)'
  <1>0. PICK g \in guilds :
            /\ guilds' = guilds \ {g}
            /\ Reach(online[g], Listed(g), Outside)
            /\ astray' = astray \cup Missed(g, Listed(g))
    BY DEF Disband
  <1>1. PICK on, S :
            /\ on = online[g] /\ S = Listed(g)
            /\ guilds' = guilds \ {g}
            /\ Reach(on, S, Outside)
            /\ astray' = astray \cup Missed(g, S)
    BY <1>0 DEF Reach
  <1>2. UNCHANGED <<members, online, place, task>>
    BY DEF Disband
  <1>3. Recorded(d) /\ d \notin Missed(g, S)
    BY <1>1 DEF RecordsInv
  <1>4. members \in [GuildId -> [Char -> 0..5]] /\ guilds \subseteq GuildId
    BY DEF RecordsInv, GuildInv, TypeOK
  <1>5. CASE members[g][d] = 0
    <2>1. mine'[d] = mine[d] /\ charRow'[d] = charRow[d]
      BY <1>1, <1>5, ReachLeaves DEF Listed
    <2> QED BY <1>1, <1>2, <1>3, <2>1, RecordsStay
  <1>6. CASE members[g][d] # 0
    <2>1. /\ charRow'[d] = Outside
          /\ place[d] \in {"game", "offline"}
          /\ place[d] = "game" => mine'[d] = Outside
      <3>1. d \in S
        BY <1>1, <1>6 DEF Listed
      <3>2. place[d] \in {"game", "offline"} /\ (place[d] = "game" <=> d \in on)
        BY <1>1, <1>3, <1>6, <3>1, CanBeTold
      <3> QED BY <1>1, <3>1, <3>2, ReachTells
    <2>2. \A h \in guilds : Outside.guild # h
      BY <1>4, GuildAssumption DEF Outside, GuildAssumption
    <2> QED BY <1>1, <1>2, <1>3, <1>6, <2>1, <2>2, ToldRecorded
  <1> QED BY <1>5, <1>6

LEMMA ApplyPointsRecorded ==
    ASSUME RecordsInv, NEW c \in Char, ApplyPoints(c), NEW d \in Char \ astray'
    PROVE  Recorded(d)'
  <1> DEFINE g == task[c].guild
             r == task[c].rank
             m == [guild |-> g, rank |-> r]
  <1>1. /\ task[c].op = "points"
        /\ Reach(online[g], {c}, m)
        /\ members' = Ranked(c, Own(online[g], c), r)
        /\ astray' = astray \cup Missed(g, {c}) \cup Late(g, c, r)
        /\ Finish(c)
        /\ UNCHANGED <<guilds, online, place>>
    BY DEF ApplyPoints, Doing
  <1>2. g \in GuildId /\ r \in 1..5 /\ m.guild = g /\ m.rank = r
    BY <1>1, Target, GuildAssumption DEF RecordsInv
  <1> HIDE DEF m
  <1>3. /\ task'[c] = Idle /\ Idle.op = "idle"
        /\ \A e \in Char \ {c} : task'[e] = task[e]
    BY <1>1, FinishEffect, IdleType DEF RecordsInv, GuildInv
  <1>4. TypeOK /\ guilds \subseteq GuildId
    BY DEF RecordsInv, GuildInv, TypeOK
  <1>5. Recorded(d)
    BY <1>1 DEF RecordsInv
  <1>6. \A h \in GuildId, x \in Char :
            \/ members'[h][x] = members[h][x]
            \/ x = c /\ members[h][x] # 0 /\ members'[h][x] = r
    <2> DEFINE G == Own(online[g], c)
    <2>1. members' = Ranked(c, G, r)
      BY <1>1
    <2> HIDE DEF G, g, r
    <2> QED BY <1>2, <1>4, <2>1, RankedEffect
  <1>7. CASE d # c
    <2>1. mine'[d] = mine[d] /\ charRow'[d] = charRow[d]
      BY <1>1, <1>7, ReachLeaves
    <2>2. \A h \in guilds' : members'[h][d] = members[h][d]
      BY <1>1, <1>4, <1>6, <1>7
    <2> QED BY <1>1, <1>3, <1>5, <1>7, <2>1, <2>2, RecordsStay
  <1>8. CASE d = c
    <2>1. d \notin Missed(g, {c}) /\ d \notin Late(g, c, r)
      BY <1>1
    <2>2. g \in guilds /\ members'[g][d] = r
      BY <1>8, <2>1 DEF Late
    <2>3. members[g][d] # 0
      BY <1>2, <1>6, <2>2
    <2>4. /\ charRow'[d] = m
          /\ place[d] \in {"game", "offline"}
          /\ place[d] = "game" => mine'[d] = m
      <3>1. PICK on : on = online[g] /\ Reach(on, {c}, m)
        BY <1>1 DEF Reach
      <3>2. d \in {c}
        BY <1>8
      <3> HIDE DEF g, r
      <3>3. place[d] \in {"game", "offline"} /\ (place[d] = "game" <=> d \in on)
        BY <1>5, <2>1, <2>2, <2>3, <3>1, <3>2, CanBeTold
      <3> QED BY <3>1, <3>2, <3>3, ReachTells
    <2>5. \A h \in guilds \ {g} : members[h][d] = 0
      BY <1>5, <2>2, <2>3, ListedOnce
    <2>6. \A h \in guilds' \ {g} : members'[h][d] = members[h][d]
      BY <1>1, <1>4, <1>6, <2>5
    <2>7. task'[d].op = "idle"
      BY <1>3, <1>8
    <2> HIDE DEF g, r
    <2> QED BY <1>1, <1>2, <1>5, <2>2, <2>3, <2>4, <2>6, <2>7, ToldRecorded
  <1> QED BY <1>7, <1>8

LEMMA FoundRecorded ==
    ASSUME RecordsInv, NEW c \in Char, Found(c), NEW d \in Char \ astray'
    PROVE  Recorded(d)'
  <1> DEFINE g == task[c].guild
             m == [guild |-> g, rank |-> 1]
  <1>1. /\ task[c].op = "founding"
        /\ mine' = [mine EXCEPT ![c] = m]
        /\ charRow' = [charRow EXCEPT ![c] = m]
        /\ guilds' = guilds \cup {g}
        /\ members' = [members EXCEPT ![g][c] = 1]
        /\ online' = [online EXCEPT ![g] = {c}]
        /\ Finish(c)
        /\ UNCHANGED <<place, astray>>
    BY DEF Found, Doing, historyVars
  <1>2. /\ task'[c] = Idle /\ Idle.op = "idle"
        /\ \A e \in Char \ {c} : task'[e] = task[e]
    BY <1>1, FinishEffect, IdleType DEF RecordsInv, GuildInv
  <1>3. Recorded(d) /\ g \in GuildId
    BY <1>1, Target, GuildAssumption DEF RecordsInv
  <1>4. /\ members \in [GuildId -> [Char -> 0..5]] /\ guilds \subseteq GuildId
        /\ mine \in [Char -> Membership] /\ charRow \in [Char -> Membership]
        /\ online \in [GuildId -> SUBSET Char]
    BY DEF RecordsInv, GuildInv, TypeOK
  <1>5. g \notin guilds /\ \A e \in Char : members[g][e] = 0
    BY <1>1 DEF RecordsInv, GuildInv, FoundsAlone, Listed
  <1>6. CASE d # c
    <2>1. mine'[d] = mine[d] /\ charRow'[d] = charRow[d]
      BY <1>1, <1>4, <1>6
    <2>2. mine[d].guild # g /\ charRow[d].guild # g
      <3>1. g \notin Established /\ g # NoGuild
        BY <1>1, <1>3, GuildAssumption DEF Established, GuildAssumption
      <3> QED BY <3>1 DEF RecordsInv, Known
    <2>3. members'[g][d] = 0 /\ \A h \in guilds : members'[h][d] = members[h][d] /\ online'[h] = online[h]
      BY <1>1, <1>3, <1>4, <1>5, <1>6
    <2> QED BY <1>1, <1>2, <1>3, <1>6, <2>1, <2>2, <2>3, RecordsStay
  <1>7. CASE d = c
    <2>1. place[d] = "game" /\ Settled(d) /\ mine[d].guild = NoGuild
      BY <1>1, <1>3, <1>7 DEF RecordsInv, InGame, Settled, Recorded, Founder
    <2>2. \A h \in guilds : members[h][d] = 0
      BY <1>3, <1>4, <2>1, GuildAssumption DEF Recorded, OnServer, Tells, GuildAssumption
    <2>3. mine'[d] = m /\ charRow'[d] = m /\ m.guild = g /\ m.rank = 1
      BY <1>1, <1>4, <1>7
    <2>4. \A h \in guilds' : members'[h][d] = IF h = g THEN 1 ELSE 0
      BY <1>1, <1>3, <1>4, <1>5, <1>7, <2>2
    <2>5. d \in online'[g]
      BY <1>1, <1>3, <1>4, <1>7
    <2> HIDE DEF m, g
    <2>6. OnRow(d)' /\ OnServer(d)'
      BY <2>3, <2>4 DEF OnRow, OnServer, Tells
    <2>7. Founder(d)' /\ Newcomer(d)'
      BY <1>2, <1>7 DEF Founder, Newcomer
    <2>8. Announced(d)'
      BY <2>4, <2>5 DEF Announced
    <2> QED BY <2>6, <2>7, <2>8 DEF Recorded
  <1> QED BY <1>6, <1>7

LEMMA AcceptRecorded ==
    ASSUME RecordsInv, NEW c \in Char, Accept(c), NEW d \in Char \ astray'
    PROVE  Recorded(d)'
  <1> DEFINE g == invited[c]
  <1>1. UNCHANGED <<guilds, members, online, charRow, place, astray>>
    BY DEF Accept, dbVars, guildVars, historyVars
  <1>2. Recorded(d)
    BY <1>1 DEF RecordsInv
  <1>3. /\ mine \in [Char -> Membership] /\ task \in [Char -> Task] /\ guilds \subseteq GuildId
        /\ task[c] = Idle /\ Idle.op = "idle" /\ place[c] = "game" /\ mine[c].guild = NoGuild
    BY IdleType DEF RecordsInv, GuildInv, TypeOK, Accept, Free
  <1>4. CASE d # c
    <2>1. mine'[d] = mine[d] /\ task'[d] = task[d]
      BY <1>3, <1>4 DEF Accept, Begin
    <2> QED BY <1>1, <1>2, <2>1, RecordsStay
  <1>5. CASE d = c
    <2>1. Settled(d) /\ Tells(charRow[d], d) /\ Tells(mine[d], d)
      BY <1>2, <1>3, <1>5 DEF Recorded, OnRow, OnServer, Settled
    <2>2. \A h \in guilds : members[h][d] = 0 /\ charRow[d].guild # h
      BY <1>3, <1>5, <2>1, GuildAssumption DEF Tells, GuildAssumption
    <2>3. CASE g \in guilds
      <3>1. mine'[d] = [guild |-> g, rank |-> 5] /\ task'[d].op = "joining" /\ task'[d].guild = g
        BY <1>3, <1>5, <2>3 DEF Accept, Begin
      <3> QED BY <1>1, <2>2, <3>1
              DEF Recorded, OnRow, OnServer, Founder, Newcomer, Announced, Settled
    <2>4. CASE g \notin guilds
      <3>1. mine'[d] = Outside /\ task' = task
        BY <1>3, <1>5, <2>4 DEF Accept
      <3>2. Outside.guild = NoGuild
        BY DEF Outside
      <3>3. OnRow(d)' /\ OnServer(d)'
        BY <1>1, <1>3, <2>2, <3>1, <3>2, GuildAssumption DEF OnRow, OnServer, Tells, GuildAssumption
      <3>4. Founder(d)' /\ Newcomer(d)' /\ Announced(d)'
        BY <1>1, <1>3, <1>5, <2>2, <3>1 DEF Founder, Newcomer, Announced
      <3> QED BY <3>3, <3>4 DEF Recorded
    <2> QED BY <2>3, <2>4
  <1> QED BY <1>4, <1>5

LEMMA JoinRecorded ==
    ASSUME RecordsInv, NEW c \in Char, Join(c), NEW d \in Char \ astray'
    PROVE  Recorded(d)'
  <1> DEFINE g == task[c].guild
  <1>1. UNCHANGED <<guilds, charRow, place>> /\ task[c].op = "joining" /\ astray \subseteq astray'
    BY DEF Join, Doing, dbVars
  <1>2. Recorded(d) /\ g \in GuildId
    BY <1>1, Target, GuildAssumption DEF RecordsInv
  <1>3. /\ mine \in [Char -> Membership] /\ task \in [Char -> Task] /\ guilds \subseteq GuildId
        /\ members \in [GuildId -> [Char -> 0..5]]
        /\ online \in [GuildId -> SUBSET Char]
    BY DEF RecordsInv, GuildInv, TypeOK
  <1>4. CASE d # c
    <2>1. mine'[d] = mine[d] /\ task'[d] = task[d]
      BY <1>3, <1>4 DEF Join, Begin, Finish
    <2>2. (g \in GuildId /\ Enlist(g, c)) \/ UNCHANGED <<members, online>>
      BY <1>2 DEF Join
    <2>3. \A h \in guilds : members'[h][d] = members[h][d] /\ (d \in online[h] => d \in online'[h])
      BY <1>3, <1>4, <2>2 DEF Enlist
    <2> QED BY <1>1, <1>2, <2>1, <2>3, RecordsStay
  <1>5. CASE d = c
    <2>1. /\ mine[d].guild = g /\ mine[d].rank = 5
          /\ \A h \in guilds : members[h][d] = 0 /\ charRow[d].guild # h
      BY <1>1, <1>2, <1>5 DEF Recorded, Newcomer
    <2>2. CASE Full(g)
      <3>1. /\ mine'[d].guild = NoGuild /\ task'[d] = Idle /\ Idle.op = "idle"
            /\ UNCHANGED <<members, online>>
        BY <1>3, <1>5, <2>2, IdleType DEF Join, Finish, Membership
      <3>2. OnRow(d)' /\ OnServer(d)'
        BY <1>1, <1>3, <2>1, <3>1, GuildAssumption DEF OnRow, OnServer, Tells, GuildAssumption
      <3>3. Founder(d)' /\ Newcomer(d)' /\ Announced(d)'
        BY <1>1, <2>1, <3>1 DEF Founder, Newcomer, Announced
      <3> QED BY <3>2, <3>3 DEF Recorded
    <2>3. CASE ~ Full(g)
      <3>1. mine' = mine /\ task'[d].op = "joined"
        BY <1>3, <1>5, <2>3 DEF Join, Begin
      <3>2. Enlist(g, c) \/ (g \notin guilds /\ UNCHANGED <<members, online>>)
        <4>1. PICK put \in BOOLEAN :
                  /\ IF put /\ members[g][c] \in {0, 5}
                     THEN Enlist(g, c)
                     ELSE UNCHANGED <<members, online>>
                  /\ astray' = astray \cup (IF put THEN {} ELSE {c})
          BY <2>3 DEF Join
        <4>2. put
          BY <1>5, <4>1
        <4> QED BY <1>5, <2>1, <4>1, <4>2
      <3>3. /\ \A h \in guilds : members'[h][d] = IF h = g THEN 5 ELSE 0
            /\ g \in guilds => d \in online'[g]
        BY <1>2, <1>3, <1>5, <2>1, <3>2 DEF Enlist
      <3>4. OnServer(d)'
        BY <1>1, <2>1, <3>1, <3>3 DEF OnServer, Tells
      <3>5. OnRow(d)' /\ Founder(d)' /\ Newcomer(d)'
        BY <3>1 DEF OnRow, Settled, Founder, Newcomer
      <3>6. Announced(d)'
        BY <1>1, <3>3 DEF Announced
      <3> QED BY <3>4, <3>5, <3>6 DEF Recorded
    <2> QED BY <2>2, <2>3
  <1> QED BY <1>4, <1>5

\* A handler that takes its points from the list: it has joined, or is idle.
LEMMA PointsRecorded ==
    ASSUME RecordsInv, NEW c \in Char, NEW g, Points(c, g),
           task[c].op \in {"idle", "joined"}, place[c] = "game", NEW d \in Char \ astray'
    PROVE  Recorded(d)'
  <1>1. UNCHANGED <<guilds, members, online, charRow, mine, place, astray>>
    BY DEF Points, dbVars, guildVars, charVars, historyVars
  <1>2. Recorded(d)
    BY <1>1 DEF RecordsInv
  <1>3. \A e \in Char : IF e = c THEN task'[e].op = "points" ELSE task'[e] = task[e]
    BY DEF Points, Begin, RecordsInv, GuildInv, TypeOK
  <1>4. CASE d # c
    BY <1>1, <1>2, <1>3, <1>4, RecordsStay
  <1>5. CASE d = c
    <2>1. Tells(mine[d], d)
      BY <1>2, <1>5 DEF Recorded, OnServer, Settled
    <2>2. Tells(mine[d], d)'
      BY <1>1, <2>1 DEF Tells
    <2>3. OnRow(d)' /\ OnServer(d)' /\ Founder(d)' /\ Newcomer(d)'
      BY <1>3, <1>5, <2>2 DEF OnRow, OnServer, Founder, Newcomer, Settled
    <2>4. Announced(d)'
      BY <1>1, <1>2 DEF Recorded, Announced
    <2> QED BY <2>3, <2>4 DEF Recorded
  <1> QED BY <1>4, <1>5

LEMMA JoinedRecorded ==
    ASSUME RecordsInv, NEW c \in Char, Joined(c), NEW d \in Char \ astray'
    PROVE  Recorded(d)'
  <1>1. task[c].op = "joined" /\ place[c] = "game"
    BY DEF Joined, Doing, RecordsInv, InGame
  <1>2. CASE \E g : Points(c, g)
    BY <1>1, <1>2, PointsRecorded
  <1>3. CASE ~ \E g : Points(c, g)
    <2>1. /\ charRow' = [charRow EXCEPT ![c] = mine[c]]
          /\ Finish(c)
          /\ UNCHANGED <<guilds, members, online, place, mine, astray>>
      BY <1>3 DEF Joined, guildVars, charVars, historyVars
    <2>2. /\ task'[c] = Idle /\ Idle.op = "idle"
          /\ \A e \in Char \ {c} : task'[e] = task[e] /\ charRow'[e] = charRow[e]
          /\ charRow'[c] = mine[c]
      BY <2>1, FinishEffect, IdleType DEF RecordsInv, GuildInv, TypeOK
    <2>3. Recorded(d)
      BY <2>1 DEF RecordsInv
    <2>4. CASE d # c
      BY <2>1, <2>2, <2>3, <2>4, RecordsStay
    <2>5. CASE d = c
      <3>1. Tells(mine[d], d)
        BY <1>1, <2>3, <2>5 DEF Recorded, OnServer
      <3>2. Tells(mine[d], d)' /\ Tells(charRow[d], d)'
        BY <2>1, <2>2, <2>5, <3>1 DEF Tells
      <3>3. OnRow(d)' /\ OnServer(d)' /\ Founder(d)' /\ Newcomer(d)'
        BY <2>2, <2>5, <3>2 DEF OnRow, OnServer, Founder, Newcomer
      <3>4. Announced(d)'
        BY <2>1, <2>3 DEF Recorded, Announced
      <3> QED BY <3>3, <3>4 DEF Recorded
    <2> QED BY <2>4, <2>5
  <1> QED BY <1>2, <1>3

\* The handlers that touch nobody's records.
LEMMA QuietRecorded ==
    ASSUME RecordsInv, NEW c \in Char,
           \/ Create(c) \/ Lapse(c) \/ Crowned(c)
           \/ \E d \in Char : Invite(c, d) \/ HandOver(c, d) \/ \E r \in GivenRanks : ChangeRank(c, d, r),
           NEW e \in Char \ astray'
    PROVE  Recorded(e)'
  <1>1. UNCHANGED <<guilds, members, online, place, mine, charRow, astray>>
    BY DEF Create, Lapse, Crowned, Invite, HandOver, ChangeRank,
           dbVars, guildVars, charVars, historyVars
  <1>2. Recorded(e)
    BY <1>1 DEF RecordsInv
  <1>3. TypeOK
    BY DEF RecordsInv, GuildInv
  <1>4. CASE Create(c)
    <2>1. PICK g \in GuildId \ made : Begin(c, "founding", g, c, 1)
      BY <1>4 DEF Create
    <2>2. \A d \in Char : IF d = c THEN task'[d].op = "founding" ELSE task'[d] = task[d]
      BY <1>3, <2>1 DEF Begin, TypeOK
    <2>3. CASE e # c
      BY <1>1, <1>2, <2>2, <2>3, RecordsStay
    <2>4. CASE e = c
      <3>1. task[e].op = "idle" /\ place[e] = "game" /\ mine[e].guild = NoGuild
        BY <1>4, <2>4, IdleType DEF Create, Free
      <3>2. Tells(charRow[e], e) /\ Tells(mine[e], e)
        BY <1>2, <3>1 DEF Recorded, OnRow, OnServer, Settled
      <3>3. Tells(charRow[e], e)' /\ Tells(mine[e], e)'
        BY <1>1, <3>2 DEF Tells
      <3>4. Announced(e)'
        BY <1>1, <1>2 DEF Recorded, Announced
      <3> QED BY <1>1, <2>2, <2>4, <3>1, <3>3, <3>4
              DEF Recorded, OnRow, OnServer, Founder, Newcomer
    <2> QED BY <2>3, <2>4
  <1>5. CASE Lapse(c) \/ \E d \in Char : Invite(c, d)
    <2>1. task' = task
      BY <1>5 DEF Lapse, Invite
    <2> QED BY <1>1, <1>2, <2>1, RecordsStay
  <1>6. CASE \/ Crowned(c)
             \/ \E d \in Char : HandOver(c, d) \/ \E r \in GivenRanks : ChangeRank(c, d, r)
    <2>1. task[c].op \in {"crowned", "idle"}
      BY <1>6, IdleType DEF Crowned, Doing, HandOver, ChangeRank, In, Free
    <2>2. \/ Finish(c)
          \/ \E op \in {"crown", "rank"} : \E g, d, r : Begin(c, op, g, d, r)
      BY <1>6 DEF Crowned, HandOver, ChangeRank
    <2>3. /\ task'[c].op \in {"idle", "crown", "rank"}
          /\ \A d \in Char \ {c} : task'[d] = task[d]
      BY <1>3, <2>2, IdleType DEF Finish, Begin, TypeOK
    <2>4. task'[e] = task[e] \/ (Settled(e) /\ Settled(e)' /\ task'[e].op # "founding")
      BY <2>1, <2>3 DEF Settled
    <2> QED BY <1>1, <1>2, <2>4, RecordsStay
  <1> QED BY <1>4, <1>5, <1>6

LEMMA EarnRecorded ==
    ASSUME RecordsInv, NEW c \in Char, Earn(c), NEW d \in Char \ astray'
    PROVE  Recorded(d)'
  <1>1. PICK g \in guilds : In(c, g, 5) /\ c \in Listed(g) /\ Points(c, g)
    BY DEF Earn
  <1>2. task[c].op = "idle" /\ place[c] = "game"
    BY <1>1, IdleType DEF In, Free
  <1> QED BY <1>1, <1>2, PointsRecorded

LEMMA LeaveRecorded ==
    ASSUME RecordsInv, NEW c \in Char, Leave(c) \/ \E e \in Char : Expel(c, e), NEW d \in Char \ astray'
    PROVE  Recorded(d)'
  <1>1. PICK g \in guilds, e \in Char : members[g][e] # 0 /\ Remove(g, e)
    <2>1. CASE Leave(c)
      BY <2>1 DEF Leave, Listed
    <2>2. CASE \E e \in Char : Expel(c, e)
      <3>1. PICK e \in Char : Expel(c, e)
        BY <2>2
      <3>2. PICK g \in guilds : In(c, g, 2) /\ mine[c].rank < members[g][e] /\ Remove(g, e)
        BY <3>1 DEF Expel
      <3>3. mine[c].rank \in 1..5
        BY DEF RecordsInv, GuildInv, TypeOK, Membership
      <3>4. members[g][e] # 0
        BY <3>2, <3>3
      <3> QED BY <3>2, <3>4
    <2> QED BY <2>1, <2>2
  <1>2. UNCHANGED <<guilds, online, place, task>>
    BY DEF Leave, Expel
  <1> QED BY <1>1, <1>2, RemoveRecorded

LEMMA FinishRankRecorded ==
    ASSUME RecordsInv, NEW c \in Char, FinishRank(c), NEW d \in Char \ astray'
    PROVE  Recorded(d)'
  <1>1. /\ task[c].op = "rank"
        /\ ApplyRank(c, task[c].guild, task[c].target, task[c].rank)
        /\ Finish(c)
        /\ UNCHANGED <<guilds, online, place>>
    BY DEF FinishRank, Doing
  <1>2. task[c].guild \in GuildId /\ task[c].target \in Char /\ task[c].rank \in 1..5
    BY <1>1, Target, GuildAssumption DEF RecordsInv
  <1>3. task'[d] = task[d] \/ (Settled(d) /\ Settled(d)' /\ task'[d].op # "founding")
    BY <1>1, FinishEffect, IdleType DEF RecordsInv, GuildInv, Settled
  <1> QED BY <1>1, <1>2, <1>3, RankRecorded

\* The steps of changeGuildLeader that change a rank.
LEMMA HandoverRecorded ==
    ASSUME RecordsInv, NEW c \in Char, Crown(c) \/ Uncrown(c), NEW d \in Char \ astray'
    PROVE  Recorded(d)'
  <1> DEFINE t == task[c]
  <1>1. t.op \in {"crown", "uncrown"} /\ UNCHANGED <<guilds, online, place>>
    BY DEF Crown, Uncrown, Doing
  <1>2. t.guild \in GuildId /\ t.target \in Char
    BY <1>1, Target, GuildAssumption DEF RecordsInv
  <1>3. CASE \E e \in Char, r \in 1..5, op \in {"uncrown", "crowned"} :
                ApplyRank(c, t.guild, e, r) /\ Begin(c, op, t.guild, t.target, 2)
    <2>1. PICK e \in Char, r \in 1..5, op \in {"uncrown", "crowned"} :
                ApplyRank(c, t.guild, e, r) /\ Begin(c, op, t.guild, t.target, 2)
      BY <1>3
    <2>2. task'[c].op = op /\ \A x \in Char \ {c} : task'[x] = task[x]
      BY <2>1 DEF Begin, RecordsInv, GuildInv, TypeOK
    <2>3. task'[d] = task[d] \/ (Settled(d) /\ Settled(d)' /\ task'[d].op # "founding")
      BY <1>1, <2>2 DEF Settled
    <2> QED BY <1>1, <1>2, <2>1, <2>3, RankRecorded
  <1>4. CASE Finish(c) /\ UNCHANGED <<charRow, members, mine, astray>>
    <2>1. task'[d] = task[d] \/ (Settled(d) /\ Settled(d)' /\ task'[d].op # "founding")
      BY <1>1, <1>4, FinishEffect, IdleType DEF RecordsInv, GuildInv, Settled
    <2>2. Recorded(d)
      BY <1>4 DEF RecordsInv
    <2> QED BY <1>1, <1>4, <2>1, <2>2, RecordsStay
  <1> QED BY <1>2, <1>3, <1>4, ListedChar DEF Crown, Uncrown

LEMMA MovesRecorded ==
    ASSUME RecordsInv, NEW c \in Char,
           Load(c) \/ Enter(c) \/ LogOut(c) \/ Transfer(c) \/ Depart(c) \/ Stray(c),
           NEW d \in Char \ astray'
    PROVE  Recorded(d)'
  <1>1. UNCHANGED <<guilds, members, task, astray>>
    BY DEF Load, Enter, SetOnline, LogOut, Transfer, Depart, Stray, dbVars, guildVars, historyVars
  <1>2. Recorded(d) /\ TypeOK
    BY <1>1 DEF RecordsInv, GuildInv
  <1>3. CASE d # c
    <2>1. mine'[d] = mine[d] /\ charRow'[d] = charRow[d] /\ place'[d] = place[d]
      BY <1>2, <1>3 DEF Load, Enter, LogOut, Transfer, Depart, Stray, dbVars, TypeOK
    <2>2. \A h \in guilds : d \in online[h] => d \in online'[h]
      BY <1>2, <1>3 DEF Load, Enter, SetOnline, LogOut, Transfer, Depart, Stray, guildVars, TypeOK
    <2> QED BY <1>1, <1>2, <2>1, <2>2, RecordsStay
  <1>4. CASE d = c
    <2>1. task[d].op = "idle"
      BY <1>4, IdleType DEF Load, Enter, LogOut, Transfer, Depart, Stray, Free, RecordsInv, InGame
    <2>2. Tells(charRow[d], d) /\ (place[d] # "offline" => Tells(mine[d], d))
      BY <1>2, <2>1 DEF Recorded, OnRow, OnServer, Settled
    <2>3. Founder(d)' /\ Newcomer(d)'
      BY <1>1, <2>1 DEF Founder, Newcomer
    <2>4. CASE Enter(c)
      <3>1. place[d] # "offline" /\ place'[d] = "game"
        BY <1>2, <1>4, <2>4 DEF Enter, TypeOK
      <3>2. CASE mine[c].guild \in guilds
        <4>1. SetOnline(mine[c].guild, c) /\ UNCHANGED <<mine, charRow>>
          BY <2>4, <3>2 DEF Enter
        <4>2. OnRow(d)' /\ OnServer(d)'
          BY <1>1, <2>2, <3>1, <4>1 DEF OnRow, OnServer, Tells
        <4>3. \A h \in guilds : members[h][d] # 0 => h = mine[c].guild
          BY <1>4, <2>2, <3>1 DEF Tells
        <4>4. ASSUME NEW h \in guilds, members[h][d] # 0 PROVE d \in online'[h]
          <5>1. h \in GuildId /\ h = mine[c].guild /\ c \in Listed(h)
            BY <1>2, <1>4, <4>3, <4>4 DEF TypeOK, Listed
          <5> QED BY <1>2, <1>4, <4>1, <5>1 DEF SetOnline, TypeOK
        <4> QED BY <1>1, <2>3, <4>2, <4>4 DEF Recorded, Announced
      <3>3. CASE mine[c].guild \notin guilds
        <4>1. \A h \in guilds : members[h][d] = 0 /\ charRow[d].guild # h
          BY <1>4, <2>2, <3>1, <3>3 DEF Tells
        <4>2. \A h \in guilds : Outside.guild # h
          BY <1>2, GuildAssumption DEF Outside, GuildAssumption, TypeOK
        <4>3. mine'[d] \in {mine[d], Outside} /\ charRow'[d] \in {charRow[d], Outside}
          BY <1>2, <1>4, <2>4, <3>3 DEF Enter, TypeOK
        <4>4. OnRow(d)' /\ OnServer(d)' /\ Announced(d)'
          BY <1>1, <1>4, <3>3, <4>1, <4>2, <4>3 DEF OnRow, OnServer, Announced, Tells
        <4> QED BY <2>3, <4>4 DEF Recorded
      <3> QED BY <3>2, <3>3
    <2>5. CASE ~ Enter(c)
      <3>1. /\ charRow' = charRow
            /\ place'[d] # "game"
            /\ \/ place'[d] = "offline"
               \/ mine'[d] = charRow[d]
               \/ mine'[d] = mine[d] /\ place[d] # "offline"
        BY <1>2, <1>4, <2>5 DEF Load, LogOut, Transfer, Depart, Stray, Free, dbVars, TypeOK
      <3>2. OnRow(d)'
        BY <1>1, <2>2, <3>1 DEF OnRow, Tells
      <3>3. OnServer(d)'
        BY <1>1, <2>1, <2>2, <3>1 DEF OnServer, Tells
      <3>4. Announced(d)'
        BY <3>1 DEF Announced
      <3> QED BY <2>3, <3>2, <3>3, <3>4 DEF Recorded
    <2> QED BY <2>4, <2>5
  <1> QED BY <1>3, <1>4

\* GuildLoad builds the lists from the rows, which is why they agree.
LEMMA RestartRecorded ==
    ASSUME RecordsInv, Restart, NEW d \in Char \ astray'
    PROVE  Recorded(d)'
  <1>1. TypeOK
    BY DEF RecordsInv, GuildInv
  <1>2. place'[d] = "offline" /\ task'[d].op = "idle" /\ guilds' = Kept /\ Kept \subseteq GuildId
    BY IdleType DEF Restart, Kept
  <1>3. \A g \in Kept : members'[g][d] = IF charRow[d].guild = g THEN ListRank(g, d) ELSE 0
    BY <1>2 DEF Restart, Heirs
  <1>4. \A g \in Kept : charRow[d].guild = g => ListRank(g, d) = Mended(g, d) /\ ListRank(g, d) \in 1..5
    <2>1. ASSUME NEW g \in Kept, charRow[d].guild = g
          PROVE  ListRank(g, d) = Mended(g, d)
      BY <2>1 DEF Restart, Heirs
    <2>2. \A g \in Kept : ListRank(g, d) \in 1..5
      BY <1>1, <1>2, ListRankType
    <2> QED BY <2>1, <2>2
  <1>5. \A g \in Kept : charRow'[d].guild = g <=> charRow[d].guild = g
    BY <1>1 DEF Restart, TypeOK, Membership
  <1>6. \A g \in Kept : charRow[d].guild = g => charRow'[d].rank = Mended(g, d)
    BY <1>1 DEF Restart, TypeOK, Membership
  <1>7. Tells(charRow[d], d)'
    BY <1>2, <1>3, <1>4, <1>5, <1>6 DEF Tells
  <1>8. OnRow(d)' /\ OnServer(d)' /\ Founder(d)' /\ Newcomer(d)' /\ Announced(d)'
    BY <1>2, <1>7 DEF OnRow, OnServer, Founder, Newcomer, Announced
  <1> QED BY <1>8 DEF Recorded

-----------------------------------------------------------------------------
(* Who has a handler is in the game, and nobody has a guild on record that  *)
(* is only being founded.                                                   *)

LEMMA MovesInGame ==
    ASSUME RecordsInv, NEW c \in Char,
           \A e \in Char \ {c} : task'[e] = task[e] /\ place'[e] = place[e],
           \/ place'[c] = "game"
           \/ task'[c].op = "idle"
           \/ task'[c] = task[c] /\ place'[c] = place[c]
    PROVE  InGame'
  BY DEF RecordsInv, InGame

LEMMA BeginInGame ==
    ASSUME RecordsInv, NEW c \in Char, place[c] = "game", place' = place,
           \/ Finish(c) \/ UNCHANGED task \/ \E op, g, d, r : Begin(c, op, g, d, r)
    PROVE  InGame'
  <1>1. \A e \in Char \ {c} : task'[e] = task[e]
    BY DEF Finish, Begin, RecordsInv, GuildInv, TypeOK
  <1> QED BY <1>1, MovesInGame

LEMMA NextInGame ==
    ASSUME RecordsInv, Next
    PROVE  InGame'
  <1>1. TypeOK /\ InGame
    BY DEF RecordsInv, GuildInv
  <1>2. ASSUME NEW c \in Char, Create(c) \/ Accept(c) \/ Earn(c) PROVE InGame'
    BY <1>2, BeginInGame DEF Create, Accept, Earn, Points, In, Free, charVars
  <1>3. ASSUME NEW c \in Char, NEW d \in Char,
               HandOver(c, d) \/ \E r \in GivenRanks : ChangeRank(c, d, r)
        PROVE  InGame'
    BY <1>3, BeginInGame DEF HandOver, ChangeRank, In, Free, charVars
  <1>4. ASSUME NEW c \in Char, NEW d \in Char,
               Leave(c) \/ Disband(c) \/ Lapse(c) \/ Invite(c, d) \/ Expel(c, d)
        PROVE  InGame'
    <2>1. UNCHANGED <<place, task>>
      BY <1>4 DEF Leave, Disband, Lapse, Invite, Expel, charVars
    <2> QED BY <1>1, <2>1 DEF InGame
  <1>5. ASSUME NEW c \in Char, Handles(c) PROVE InGame'
    <2>1. task[c].op # "idle"
      BY <1>5 DEF Handles, Found, Join, Joined, ApplyPoints, FinishRank, Crown, Uncrown,
                  Crowned, Doing
    <2>2. place[c] = "game"
      BY <1>1, <2>1 DEF InGame
    <2> QED BY <1>5, <2>2, BeginInGame
            DEF Handles, Found, Join, Joined, ApplyPoints, FinishRank, Crown, Uncrown,
                Crowned, Points, charVars
  <1>6. ASSUME NEW c \in Char,
               Load(c) \/ Enter(c) \/ LogOut(c) \/ Transfer(c) \/ Depart(c) \/ Stray(c)
        PROVE  InGame'
    <2>1. task' = task /\ \A e \in Char \ {c} : place'[e] = place[e]
      BY <1>1, <1>6 DEF Load, Enter, LogOut, Transfer, Depart, Stray, TypeOK
    <2>2. task[c].op = "idle"
      BY <1>1, <1>6, IdleType DEF Load, Enter, LogOut, Transfer, Depart, Stray, Free, InGame
    <2> QED BY <2>1, <2>2, MovesInGame
  <1>7. CASE Restart
    BY <1>7, IdleType DEF Restart, InGame
  <1> QED BY <1>2, <1>3, <1>4, <1>5, <1>6, <1>7 DEF Next

\* Guilds that are found, or that a handler works on, are established.
LEMMA AreEstablished ==
    ASSUME RecordsInv
    PROVE  /\ guilds \subseteq Established
           /\ \A c \in Char : task[c].op \notin {"idle", "founding"} => task[c].guild \in Established
  <1>1. guilds \subseteq made /\ FoundsAlone /\ Aimed
    BY DEF RecordsInv, GuildInv, TypeOK
  <1>2. guilds \subseteq Established
    BY <1>1 DEF Established, FoundsAlone
  <1>3. ASSUME NEW c \in Char, task[c].op \notin {"idle", "founding"}
        PROVE  task[c].guild \in Established
    BY <1>1, <1>3, IdleType DEF Established, FoundsAlone, Aimed
  <1> QED BY <1>2, <1>3

LEMMA EstablishedStays ==
    ASSUME RecordsInv, made \subseteq made',
           \A c \in Char : task'[c].op = "founding" => task'[c] = task[c] \/ task'[c].guild \notin made
    PROVE  Established \subseteq Established'
  BY DEF Established

LEMMA KnownStays ==
    ASSUME RecordsInv, Established \subseteq Established',
           \A d \in Char : {mine'[d].guild, charRow'[d].guild}
                \subseteq {mine[d].guild, charRow[d].guild, NoGuild} \cup Established'
    PROVE  Known'
  BY DEF RecordsInv, Known

LEMMA ReachKnown ==
    ASSUME RecordsInv, NEW on, NEW S, NEW m, Reach(on, S, m), m.guild \in Established \cup {NoGuild},
           Established \subseteq Established'
    PROVE  Known'
  <1>1. \A d \in Char : mine'[d] \in {m, mine[d]} /\ charRow'[d] \in {m, charRow[d]}
    BY DEF Reach
  <1> QED BY <1>1, KnownStays

LEMMA NextEstablished ==
    ASSUME RecordsInv, Next
    PROVE  Established \subseteq Established'
  <1>1. TypeOK
    BY DEF RecordsInv, GuildInv
  <1>2. ASSUME NEW c \in Char,
               made \subseteq made',
               \/ UNCHANGED task \/ Finish(c)
               \/ \E op, g, d, r : Begin(c, op, g, d, r) /\ (op = "founding" => g \notin made)
        PROVE  Established \subseteq Established'
    <2>1. \A e \in Char : task'[e].op = "founding" => task'[e] = task[e] \/ task'[e].guild \notin made
      BY <1>1, <1>2, IdleType DEF Finish, Begin, TypeOK
    <2> QED BY <1>2, <2>1, EstablishedStays
  <1>3. ASSUME NEW c \in Char, Create(c) \/ Accept(c) \/ Earn(c) \/ Leave(c) \/ Disband(c) \/ Lapse(c)
        PROVE  Established \subseteq Established'
    <2>1. made \subseteq made'
      BY <1>3 DEF Create, Accept, Earn, Leave, Disband, Lapse, Points, dbVars
    <2> QED BY <1>2, <1>3, <2>1 DEF Create, Accept, Earn, Leave, Disband, Lapse, Points
  <1>4. ASSUME NEW c \in Char, Handles(c)
        PROVE  Established \subseteq Established'
    <2>1. made \subseteq made'
      <3>1. CASE Found(c) \/ Join(c) \/ Joined(c)
        <4>1. made' = made
          BY <3>1 DEF Found, Join, Joined, Points, dbVars
        <4> QED BY <4>1
      <3>2. CASE ApplyPoints(c) \/ FinishRank(c) \/ Crown(c) \/ Uncrown(c) \/ Crowned(c)
        <4>1. made' = made
          BY <3>2 DEF ApplyPoints, FinishRank, Crown, Uncrown, Crowned
        <4> QED BY <4>1
      <3> QED BY <1>4, <3>1, <3>2 DEF Handles
    <2>2. CASE Found(c) \/ Join(c) \/ Joined(c)
      <3>1. Finish(c) \/ \E op \in {"joined", "points"} : \E g, d, r : Begin(c, op, g, d, r)
        BY <2>2 DEF Found, Join, Joined, Points
      <3> QED BY <1>2, <2>1, <3>1
    <2>3. CASE ApplyPoints(c) \/ FinishRank(c) \/ Crown(c) \/ Uncrown(c) \/ Crowned(c)
      <3>1. Finish(c) \/ \E op \in {"uncrown", "crowned"} : \E g, d, r : Begin(c, op, g, d, r)
        BY <2>3 DEF ApplyPoints, FinishRank, Crown, Uncrown, Crowned
      <3> QED BY <1>2, <2>1, <3>1
    <2> QED BY <1>4, <2>2, <2>3 DEF Handles
  <1>5. ASSUME NEW c \in Char,
               Load(c) \/ Enter(c) \/ LogOut(c) \/ Transfer(c) \/ Depart(c) \/ Stray(c)
        PROVE  Established \subseteq Established'
    <2>1. made \subseteq made' /\ UNCHANGED task
      BY <1>5 DEF Load, Enter, LogOut, Transfer, Depart, Stray, dbVars
    <2> QED BY <1>2, <2>1
  <1>6. ASSUME NEW c \in Char, NEW d \in Char,
               Invite(c, d) \/ Expel(c, d) \/ HandOver(c, d) \/ \E r \in GivenRanks : ChangeRank(c, d, r)
        PROVE  Established \subseteq Established'
    <2>1. made \subseteq made'
      BY <1>6 DEF Invite, Expel, HandOver, ChangeRank, dbVars
    <2> QED BY <1>2, <1>6, <2>1 DEF Invite, Expel, HandOver, ChangeRank
  <1>7. CASE Restart
    BY <1>7, IdleType DEF Restart, Established
  <1> QED BY <1>3, <1>4, <1>5, <1>6, <1>7 DEF Next

LEMMA NextKnown ==
    ASSUME RecordsInv, Next
    PROVE  Known'
  <1>1. TypeOK
    BY DEF RecordsInv, GuildInv
  <1>2. Established \subseteq Established'
    BY NextEstablished
  <1>3. ASSUME UNCHANGED <<mine, charRow>> PROVE Known'
    BY <1>2, <1>3, KnownStays
  <1>4. ASSUME NEW c \in Char, NEW g \in GuildId, NEW e \in Char, NEW r, ApplyRank(c, g, e, r),
               g \in Established
        PROVE  Known'
    <2> DEFINE m == [guild |-> g, rank |-> r]
    <2>1. m.guild = g /\ \E on : Reach(on, {e}, m)
      BY <1>4 DEF ApplyRank
    <2> HIDE DEF m
    <2> QED BY <1>2, <1>4, <2>1, ReachKnown
  <1>5. ASSUME NEW on, NEW S, Reach(on, S, Outside) PROVE Known'
    BY <1>2, <1>5, ReachKnown DEF Outside
  <1>6. ASSUME NEW c \in Char,
               \/ Create(c) \/ Earn(c) \/ Lapse(c) \/ Crowned(c)
               \/ \E d \in Char : Invite(c, d) \/ HandOver(c, d) \/ \E r \in GivenRanks : ChangeRank(c, d, r)
        PROVE  Known'
    <2>1. UNCHANGED <<mine, charRow>>
      BY <1>6 DEF Create, Earn, Lapse, Crowned, Invite, HandOver, ChangeRank, Points, dbVars, charVars
    <2> QED BY <1>3, <2>1
  <1>7. ASSUME NEW c \in Char, Leave(c) \/ Disband(c) \/ \E d \in Char : Expel(c, d) PROVE Known'
    BY <1>5, <1>7 DEF Leave, Disband, Expel, Remove
  <1>8. ASSUME NEW c \in Char, Accept(c) PROVE Known'
    <2>1. charRow' = charRow
      BY <1>8 DEF Accept, dbVars
    <2>2. \A d \in Char : mine'[d].guild \in {mine[d].guild, NoGuild} \cup guilds
      BY <1>1, <1>8 DEF Accept, Outside, TypeOK
    <2> QED BY <1>2, <2>1, <2>2, AreEstablished, KnownStays
  <1>9. ASSUME NEW c \in Char, Found(c) PROVE Known'
    <2>1. task[c].op = "founding" /\ task[c].guild \in guilds'
      BY <1>9 DEF Found, Doing
    <2>2. task[c].guild \in made' /\ \A e \in Char : task'[e].op = "founding" => task'[e].guild # task[c].guild
      <3>1. task'[c] = Idle /\ \A e \in Char \ {c} : task'[e] = task[e]
        BY <1>1, <1>9, FinishEffect DEF Found
      <3>2. task[c].guild \in made /\ made' = made
        BY <1>9, <2>1, Target, GuildAssumption DEF RecordsInv, Found
      <3>3. \A e \in Char \ {c} : task[e].guild # task[c].guild
        BY <2>1 DEF RecordsInv, GuildInv, FoundsAlone
      <3> QED BY <3>1, <3>2, <3>3, IdleType
    <2>3. task[c].guild \in Established'
      BY <2>2 DEF Established
    <2>4. \A d \in Char : /\ mine'[d].guild \in {mine[d].guild, task[c].guild}
                          /\ charRow'[d].guild \in {charRow[d].guild, task[c].guild}
      BY <1>1, <1>9 DEF Found, TypeOK
    <2> QED BY <1>2, <2>3, <2>4, KnownStays
  <1>10. ASSUME NEW c \in Char, Join(c) PROVE Known'
    <2>1. charRow' = charRow
      BY <1>10 DEF Join, dbVars
    <2>2. \A d \in Char : mine'[d].guild \in {mine[d].guild, NoGuild}
      <3>1. mine' = mine \/ mine' = [mine EXCEPT ![c].guild = NoGuild]
        <4>1. CASE Full(task[c].guild)
          BY <1>10, <4>1 DEF Join
        <4>2. CASE ~ Full(task[c].guild)
          BY <1>10, <4>2 DEF Join
        <4> QED BY <4>1, <4>2
      <3>2. mine \in [Char -> Membership]
        BY <1>1 DEF TypeOK
      <3>3. [mine[c] EXCEPT !.guild = NoGuild].guild = NoGuild
        BY <3>2 DEF Membership
      <3>4. \A d \in Char : mine'[d] \in {mine[d], [mine[c] EXCEPT !.guild = NoGuild]}
        BY <3>1, <3>2
      <3> QED BY <3>3, <3>4
    <2> QED BY <1>2, <2>1, <2>2, KnownStays
  <1>11. ASSUME NEW c \in Char, Joined(c) PROVE Known'
    <2>1. mine' = mine /\ \A d \in Char : charRow'[d] \in {charRow[d], mine[d]}
      BY <1>1, <1>11 DEF Joined, Points, dbVars, charVars, TypeOK
    <2> QED BY <1>2, <2>1, KnownStays
  <1>12. ASSUME NEW c \in Char, ApplyPoints(c) PROVE Known'
    <2> DEFINE m == [guild |-> task[c].guild, rank |-> task[c].rank]
    <2>1. task[c].op = "points" /\ Reach(online[task[c].guild], {c}, m) /\ m.guild = task[c].guild
      BY <1>12 DEF ApplyPoints, Doing
    <2>2. task[c].guild \in Established
      BY <2>1, AreEstablished
    <2> HIDE DEF m
    <2> QED BY <1>2, <2>1, <2>2, ReachKnown
  <1>13. ASSUME NEW c \in Char, FinishRank(c) \/ Crown(c) \/ Uncrown(c) PROVE Known'
    <2>1. task[c].op \in {"rank", "crown", "uncrown"}
      BY <1>13 DEF FinishRank, Crown, Uncrown, Doing
    <2>2. task[c].guild \in Established /\ task[c].guild \in GuildId /\ task[c].target \in Char
      BY <2>1, AreEstablished, Target, GuildAssumption DEF RecordsInv
    <2>3. CASE UNCHANGED <<mine, charRow>>
      BY <1>3, <2>3
    <2>4. CASE ~ UNCHANGED <<mine, charRow>>
      BY <1>4, <1>13, <2>2, <2>4, ListedChar DEF FinishRank, Crown, Uncrown
    <2> QED BY <2>3, <2>4
  <1>14. ASSUME NEW c \in Char,
                Load(c) \/ Enter(c) \/ LogOut(c) \/ Transfer(c) \/ Depart(c) \/ Stray(c)
         PROVE  Known'
    <2>1. \A d \in Char : /\ mine'[d] \in {mine[d], charRow[d], Outside}
                          /\ charRow'[d] \in {charRow[d], Outside}
      BY <1>1, <1>14 DEF Load, Enter, LogOut, Transfer, Depart, Stray, dbVars, TypeOK
    <2>2. Outside.guild = NoGuild
      BY DEF Outside
    <2> QED BY <1>2, <2>1, <2>2, KnownStays
  <1>15. CASE Restart
    <2>1. \A d \in Char : mine'[d] = Outside /\ charRow'[d].guild = charRow[d].guild
      BY <1>1, <1>15 DEF Restart, TypeOK, Membership
    <2>2. Outside.guild = NoGuild
      BY DEF Outside
    <2> QED BY <1>2, <2>1, <2>2, KnownStays
  <1> QED BY <1>6, <1>7, <1>8, <1>9, <1>10, <1>11, <1>12, <1>13, <1>14, <1>15 DEF Next, Handles

-----------------------------------------------------------------------------
LEMMA NextRecordsInv ==
    ASSUME RecordsInv, SeatsKept, [Next]_vars
    PROVE  RecordsInv' /\ SeatsKept'
  <1>1. GuildInv' /\ SeatsKept'
    BY NextGuildInv, GuildAssumption DEF RecordsInv
  <1>2. CASE UNCHANGED vars
    <2>1. InGame' /\ Known'
      BY <1>2 DEF vars, dbVars, charVars, RecordsInv, InGame, Known, Established
    <2>2. ASSUME NEW d \in Char \ astray' PROVE Recorded(d)'
      <3>1. UNCHANGED <<guilds, members, online, place, mine, charRow, task, astray>>
        BY <1>2 DEF vars, dbVars, guildVars, charVars, historyVars
      <3>2. Recorded(d)
        BY <3>1 DEF RecordsInv
      <3> QED BY <3>1, <3>2, RecordsStay
    <2> QED BY <1>1, <2>1, <2>2 DEF RecordsInv
  <1>3. CASE Next
    <2>1. InGame' /\ Known'
      BY <1>3, NextInGame, NextKnown
    <2>2. ASSUME NEW d \in Char \ astray' PROVE Recorded(d)'
      <3>1. ASSUME NEW c \in Char,
                   \/ Create(c) \/ Accept(c) \/ Earn(c) \/ Leave(c) \/ Disband(c) \/ Lapse(c)
                   \/ Load(c) \/ Enter(c) \/ LogOut(c) \/ Transfer(c) \/ Depart(c) \/ Stray(c)
            PROVE  Recorded(d)'
        BY <3>1, QuietRecorded, AcceptRecorded, EarnRecorded, LeaveRecorded, DisbandRecorded,
           MovesRecorded
      <3>2. ASSUME NEW c \in Char, Handles(c) PROVE Recorded(d)'
        BY <3>2, FoundRecorded, JoinRecorded, JoinedRecorded, ApplyPointsRecorded,
           FinishRankRecorded, HandoverRecorded, QuietRecorded DEF Handles
      <3>3. ASSUME NEW c \in Char, NEW e \in Char,
                   \/ Invite(c, e) \/ Expel(c, e) \/ HandOver(c, e)
                   \/ \E r \in GivenRanks : ChangeRank(c, e, r)
            PROVE  Recorded(d)'
        BY <3>3, QuietRecorded, LeaveRecorded
      <3> QED BY <1>3, <3>1, <3>2, <3>3, RestartRecorded DEF Next
    <2> QED BY <1>1, <2>1, <2>2 DEF RecordsInv
  <1> QED BY <1>2, <1>3

LEMMA InitRecordsInv == Init => RecordsInv /\ SeatsKept
  <1> SUFFICES ASSUME Init PROVE RecordsInv /\ SeatsKept
    OBVIOUS
  <1>1. GuildInv /\ SeatsKept
    BY InitGuildInv, GuildAssumption
  <1>2. InGame
    BY IdleType DEF Init, InGame
  <1>3. Known
    BY DEF Init, Known, Outside
  <1>4. \A c \in Char : Recorded(c)
    BY IdleType DEF Init, Recorded, OnRow, OnServer, Founder, Newcomer, Announced, Tells
  <1> QED BY <1>1, <1>2, <1>3, <1>4 DEF RecordsInv

LEMMA RecordsAgree == RecordsInv => Agreed
  <1> SUFFICES ASSUME RecordsInv, NEW c \in Char \ astray, Settled(c), NEW g \in guilds
               PROVE  /\ charRow[c].guild = g <=> c \in Listed(g)
                      /\ c \in Listed(g) => charRow[c].rank = members[g][c]
                      /\ place[c] # "offline" =>
                            /\ mine[c].guild = g <=> c \in Listed(g)
                            /\ c \in Listed(g) => mine[c].rank = members[g][c]
    BY DEF Agreed
  <1>1. Tells(charRow[c], c) /\ (place[c] # "offline" => Tells(mine[c], c))
    BY DEF RecordsInv, Recorded, OnRow, OnServer
  <1>2. c \in Listed(g) <=> members[g][c] # 0
    BY DEF Listed
  <1> QED BY <1>1, <1>2 DEF Tells

\* However members join, leave, are promoted, log out, change servers or lose
\* their guild, and wherever a crash interrupts them: the guild's list, the row
\* and the character agree on a membership, but for characters that missed a
\* change between two servers or got one after they were taken off.
THEOREM RecordsAgreed == Spec => []Agreed
  <1> QED BY RecordsAgree, InitRecordsInv, NextRecordsInv, PTL DEF Spec
=============================================================================
