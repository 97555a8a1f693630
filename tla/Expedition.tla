----------------------------- MODULE Expedition -----------------------------
(***************************************************************************)
(* The expedition against a boss: a squad that forms at an NPC             *)
(* (MapleSquad, npc/2141001.js), the battle its leader starts (EventManager*)
(* and EventInstanceManager driven by event/PinkBeanBattle.js) and the     *)
(* arena's own bookkeeping (MapleMap.checkStates).  Each client's handlers *)
(* run one after another on a thread of its own; the battle's timer and    *)
(* the squad's timer run on theirs.  A dialog is answered some time after  *)
(* it was opened.                                                          *)
(***************************************************************************)
EXTENDS Naturals, Sequences, FiniteSets, SequencesExt

CONSTANTS Player,      \* the characters of one channel
          SquadId, BattleId,  \* identities for MapleSquad and EventInstanceManager objects
          Seats,       \* the 30 of MapleSquad.addMember
          MinMembers,  \* MapleSquadType.i
          Habits,     \* bound: what players use of the game
          LieDetector, \* BOOLEAN: whether a lie detector test can refuse a warp
          Nobody, None

ASSUME SquadAssumption ==
    /\ Seats \in Nat /\ MinMembers \in Nat
    /\ LieDetector \in BOOLEAN
    /\ Nobody \notin Player /\ None \notin SquadId \cup BattleId

VARIABLES state,    \* em.getProperty("state")
          named,    \* EventManager.instances, which holds one name
          battle,   \* the EventInstanceManager objects
          squadOn,  \* ChannelServer.mapleSquads, for this boss
          squad,    \* the MapleSquad objects
          queue,    \* MapleSquadType.queue of this channel
          where,    \* each character's map, "gone" when it is not on the channel
          inst,     \* MapleCharacter.eventInstance
          tried,    \* the quest record that bars a character for twelve hours
          job,      \* where the thread of each client is
          lapses    \* history: what went wrong so far

squadVars == << squadOn, squad, queue >>
battleVars == << state, named, battle >>
charVars == << where, inst, tried >>
vars == << squadVars, battleVars, charVars, job, lapses >>

NoSquad == [status |-> 0, leader |-> Nobody, members |-> << >>, banned |-> {},
            timer |-> FALSE]
NewSquad(p) == [status |-> 1, leader |-> p, members |-> << p >>, banned |-> {},
                timer |-> TRUE]
Disposed == [live |-> FALSE, chars |-> {}, dced |-> {}, timer |-> "off"]
NewBattle == [live |-> TRUE, chars |-> {}, dced |-> {}, timer |-> "armed"]
\* Where a thread is, the objects that it holds, and who it has to register.
Doing(at, s, b, todo) == [at |-> at, squad |-> s, battle |-> b, todo |-> todo]
Idle == Doing("idle", None, None, << >>)

\* A question is on the player's screen.
Dialogs == {"asked", "leading", "joining", "rejoining", "reserving"}
Leaving == {"leaving", "checking", "resetting", "departing", "quitting"}
Working == {"adding", "starting", "entering", "reentering"} \cup Leaving

\* What the code lets happen, and the properties have to except: somebody was
\* let back into a battle, a lie detector test refused a warp, a battle was
\* started from a menu of an earlier squad or by a leader who is not the first
\* on its list, or while an earlier battle was being wound up.
Lapse == {"returned", "refused", "misled", "hasty"}

TypeOK ==
    /\ state \in {"0", "1"}
    /\ named \in BattleId \cup {None}
    /\ battle \in [BattleId -> [live : BOOLEAN, chars : SUBSET Player, dced : SUBSET Player,
                                timer : {"off", "armed", "due", "evict", "reset"}]]
    /\ squadOn \in SquadId \cup {None}
    /\ squad \in [SquadId -> [status : 0 .. 2, leader : Player \cup {Nobody},
                              members : Seq(Player), banned : SUBSET Player, timer : BOOLEAN]]
    /\ queue \in Seq(Player)
    /\ where \in [Player -> {"shrine", "arena", "away", "gone"}]
    /\ inst \in [Player -> BattleId \cup {None}]
    /\ tried \in [Player -> BOOLEAN]
    /\ job \in [Player -> [at : {"idle"} \cup Dialogs \cup Working,
                           squad : SquadId \cup {None}, battle : BattleId \cup {None},
                           todo : Seq(Player)]]
    /\ lapses \subseteq Lapse

Init ==
    /\ state = "0" /\ named = None
    /\ battle = [b \in BattleId |-> Disposed]
    /\ squadOn = None
    /\ squad = [s \in SquadId |-> NoSquad]
    /\ queue = << >>
    /\ where = [p \in Player |-> "shrine"]
    /\ inst = [p \in Player |-> None]
    /\ tried = [p \in Player |-> FALSE]
    /\ job = [p \in Player |-> Idle]
    /\ lapses = {}

Enabled(choice) == choice \in Habits
At(p, at) == job[p].at = at
Goes(p, at) == job' = [job EXCEPT ![p].at = at]
Finishes(p) == job' = [job EXCEPT ![p] = Idle]
Fighters == {p \in Player : where[p] = "arena"}

\* An object that nothing refers to any more.
UnusedSquad(s) == s # squadOn /\ ~squad[s].timer /\ \A p \in Player : job[p].squad # s
UnusedBattle(b) ==
    /\ b # named /\ ~battle[b].live /\ battle[b].timer = "off"
    /\ \A p \in Player : job[p].battle # b /\ inst[p] # b

----------------------------------------------------------------------------
(* MapleSquad *)

\* getLeader finds nobody, and clears the squad, only when the leader has
\* left and the garbage collector has taken the character; it may find the
\* character as long as it has not.
LeaderLost(s) == \A p \in Player : squad[s].leader = p => where[p] = "gone"
LeaderFound(s) == squad[s].leader # Nobody

\* removeMember, remove and banMember take a key out of a LinkedHashMap, where
\* it is once.
Without(members, p) ==
    IF Contains(members, p)
    THEN RemoveAt(members, CHOOSE i \in 1 .. Len(members) : members[i] = p)
    ELSE members

\* put on a LinkedHashMap: a key that is there keeps its place.
With(members, p) == IF Contains(members, p) THEN members ELSE Append(members, p)

\* clear, which takes whatever squad the channel has off the channel.
ClearSquad(s) ==
    /\ squad' = [squad EXCEPT ![s] = NoSquad]
    /\ squadOn' = None

\* The first reservation that copy can serve.
Turns == {i \in 1 .. Len(queue) : where'[queue[i]] = "shrine"}

\* What a new squad can be called once s is cleared.  SquadId bounds the squads
\* that handlers and timers hold.
FreeAfter(s) ==
    {n \in SquadId : UnusedSquad(n) \/ (n = s /\ \A p \in Player : job[p].squad # s)}

\* clear and copy: the next reservation gets a squad of its own.
ClearAndCopy(s) ==
    \/ Turns = {} /\ ClearSquad(s) /\ queue' = << >>
    \/ \E i \in Turns, n \in FreeAfter(s) :
           /\ \A j \in Turns : i <= j
           /\ n = CHOOSE f \in FreeAfter(s) : TRUE
           /\ squad' = [squad EXCEPT ![s] = NoSquad, ![n] = NewSquad(queue[i])]
           /\ squadOn' = n
           /\ queue' = SubSeq(queue, i + 1, Len(queue))

\* The run of scheduleRemoval, five minutes after the squad was added.
Expire(s) ==
    /\ squad[s].timer
    /\ UNCHANGED << battleVars, charVars, job, lapses >>
    /\ ClearAndCopy(s)

----------------------------------------------------------------------------
(* The arena *)

\* Mutant: an empty arena does not clear the squad.
CheckStatesLeavesSquad(p) ==
    LET empty == Fighters \ {p} = {}
        fighting == squadOn # None /\ squad[squadOn].status = 2
    IN  /\ squad' = IF fighting
                    THEN [squad EXCEPT ![squadOn].members = Without(@, p)] ELSE squad
        /\ UNCHANGED << squadOn, queue >>
        /\ state' = IF empty /\ (fighting \/ squadOn = None) THEN "0" ELSE state

\* checkStates(p): what removePlayer does for the squad and the event when p
\* has left the arena.
CheckStates(p) ==
    LET empty == Fighters \ {p} = {}
        fighting == squadOn # None /\ squad[squadOn].status = 2
    IN  /\ IF fighting /\ empty THEN ClearAndCopy(squadOn)
           ELSE /\ squad' = IF fighting
                            THEN [squad EXCEPT ![squadOn].members = Without(@, p)]
                            ELSE squad
                /\ UNCHANGED << squadOn, queue >>
        /\ state' = IF empty /\ (fighting \/ squadOn = None) THEN "0" ELSE state

\* p goes to another map.
GoesAway(p, to) ==
    /\ where' = [where EXCEPT ![p] = to]
    /\ IF where[p] = "arena" THEN CheckStates(p) ELSE UNCHANGED << state, squadVars >>

----------------------------------------------------------------------------
(* The NPC: the questions (start) *)

\* Without haste no dialog is opened while a handler or a timer is at work.
Calm ==
    /\ \A p \in Player : job[p].at \notin Working
    /\ \A b \in BattleId : battle[b].timer \in {"off", "armed"}

AtNpc(p) == At(p, "idle") /\ where[p] = "shrine" /\ (Enabled("haste") \/ Calm)
\* Mutant: the menus open whatever the state of the event and the squad.
OpenAlways == TRUE

Open == state = "0" /\ \A s \in SquadId : squadOn = s => squad[s].status = 1

AskToLead(p) ==
    /\ Enabled("lead") /\ AtNpc(p) /\ ~tried[p]
    /\ Open /\ squadOn = None
    /\ Goes(p, "asked")
    /\ UNCHANGED << battleVars, squadVars, charVars, lapses >>

OpenMenu(p) ==
    /\ AtNpc(p) /\ ~tried[p]
    /\ Open /\ squadOn # None /\ LeaderFound(squadOn)
    /\ \/ /\ squad[squadOn].leader = p
          /\ job' = [job EXCEPT ![p] = Doing("leading", squadOn, None, << >>)]
       \/ /\ Enabled("join") /\ squad[squadOn].leader # p
          /\ Contains(squad[squadOn].members, p) \/ p \notin squad[squadOn].banned
          /\ Goes(p, "joining")
    /\ UNCHANGED << battleVars, squadVars, charVars, lapses >>

\* getDisconnected.
MayReturn(p) ==
    named # None /\ battle[named].live /\ p \in battle[named].dced /\ battle[named].chars # {}

OfferReturn(p) ==
    /\ Enabled("return") /\ AtNpc(p) /\ ~Open /\ MayReturn(p)
    /\ Goes(p, "rejoining")
    /\ UNCHANGED << battleVars, squadVars, charVars, lapses >>

OfferReservation(p) ==
    /\ Enabled("reserve") /\ AtNpc(p) /\ ~Open /\ ~MayReturn(p)
    /\ squadOn # None /\ ~tried[p]
    /\ Goes(p, "reserving")
    /\ UNCHANGED << battleVars, squadVars, charVars, lapses >>

----------------------------------------------------------------------------
(* The NPC: the answers (action) *)

\* The player closes the dialog, or what it chose is refused.
Close(p) ==
    /\ job[p].at \in Dialogs
    /\ Finishes(p)
    /\ UNCHANGED << battleVars, squadVars, charVars, lapses >>

\* registerSquad finds no squad.
Register(p) ==
    /\ At(p, "asked") /\ squadOn = None
    /\ Goes(p, "adding")
    /\ UNCHANGED << battleVars, squadVars, charVars, lapses >>

\* addMapleSquad: another squad may be there by now, and the new one is
\* cleared again.  SquadId bounds the squads whose timers run.
AddSquad(p) ==
    /\ At(p, "adding") /\ Finishes(p)
    /\ Cardinality({s \in SquadId : UnusedSquad(s)}) > 1
    /\ \/ /\ squadOn = None
          /\ \E s \in SquadId :
                 /\ s = CHOOSE n \in SquadId : UnusedSquad(n)
                 /\ squad' = [squad EXCEPT ![s] = NewSquad(p)]
                 /\ squadOn' = s
       \/ squadOn # None /\ squadOn' = None /\ UNCHANGED squad
    /\ UNCHANGED << queue, battleVars, charVars, lapses >>

\* getLeader clears the squad: when the menu opens, or in addMember or
\* startInstance.
LoseLeader(p) ==
    /\ squadOn # None /\ LeaderLost(squadOn)
    /\ \/ AtNpc(p) /\ Open /\ ~tried[p]
       \/ job[p].at \in {"joining", "leading"}
    /\ ClearSquad(squadOn)
    /\ Finishes(p)
    /\ UNCHANGED << queue, battleVars, charVars, lapses >>

Answers(p, menu) == At(p, menu) /\ Finishes(p) /\ squadOn # None

Join(p) ==
    /\ Answers(p, "joining") /\ LeaderFound(squadOn)
    /\ ~Contains(squad[squadOn].members, p)
    /\ Len(squad[squadOn].members) <= Seats
    /\ squad' = [squad EXCEPT ![squadOn].members = With(@, p)]
    /\ UNCHANGED << squadOn, queue, battleVars, charVars, lapses >>

Withdraw(p) ==
    /\ Enabled("withdraw") /\ Answers(p, "joining") /\ LeaderFound(squadOn)
    /\ Contains(squad[squadOn].members, p)
    /\ squad' = [squad EXCEPT ![squadOn].members = Without(@, p)]
    /\ UNCHANGED << squadOn, queue, battleVars, charVars, lapses >>

\* Mutant: the position goes on the list, not the name.
BanPosition(p) ==
    /\ Enabled("ban") /\ Answers(p, "leading")
    /\ \E i \in 2 .. Len(squad[squadOn].members) :
           LET q == squad[squadOn].members[i]
           IN  /\ where[q] # "gone"
               /\ squad' = [squad EXCEPT ![squadOn].members = Without(@, q),
                                         ![squadOn].banned = @ \cup {i}]
    /\ UNCHANGED << squadOn, queue, battleVars, charVars, lapses >>

\* banMember: any position but the first.
Ban(p) ==
    /\ Enabled("ban") /\ Answers(p, "leading")
    /\ \E i \in 2 .. Len(squad[squadOn].members) :
           LET q == squad[squadOn].members[i]
           IN  /\ where[q] # "gone"
               /\ squad' = [squad EXCEPT ![squadOn].members = Without(@, q),
                                         ![squadOn].banned = @ \cup {q}]
    /\ UNCHANGED << squadOn, queue, battleVars, charVars, lapses >>

Accept(p) ==
    /\ Enabled("ban") /\ Answers(p, "leading")
    /\ \E q \in squad[squadOn].banned :
           /\ where[q] # "gone"
           /\ squad' = [squad EXCEPT ![squadOn].members = With(@, q),
                                     ![squadOn].banned = @ \ {q}]
    /\ UNCHANGED << squadOn, queue, battleVars, charVars, lapses >>

\* setNextPlayer: a second reservation takes the first one back.
Reserve(p) ==
    /\ Answers(p, "reserving")
    /\ queue' = IF Contains(queue, p) THEN Without(queue, p) ELSE Append(queue, p)
    /\ UNCHANGED << squadOn, squad, battleVars, charVars, lapses >>

----------------------------------------------------------------------------
(* The battle *)

\* Nobody holds the write lock of the instance.
Unlocked(b) == battle[b].timer # "evict"
Alive(b) == \E n \in BattleId : n = b /\ battle[n].live

Present(s) == {p \in Player : Contains(squad[s].members, p) /\ where[p] = "shrine"}

\* The menu is of a squad that is gone, or copy gave the squad to a player who
\* took itself off the list afterwards.
Misled(p) ==
    LET members == squad[squadOn].members
    IN  job[p].squad # squadOn \/ members = << >> \/ Head(members) # p

\* A player is on the way out, or the timer has begun to end a battle.
WindingUp ==
    \/ \E p \in Player : job[p].at \in Leaving /\ where[p] # "shrine"
    \/ \E b \in BattleId : battle[b].timer \in {"due", "evict", "reset"}

\* EventManager.startInstance up to registerSquad, with the script's setup:
\* whatever squad the channel has now, and the new instance under the old
\* name.  Bounds: BattleId, and without dawdle the leader answers while the
\* squad of its menu is on the channel.
Start(p) ==
    /\ At(p, "leading") /\ squadOn # None /\ LeaderFound(squadOn)
    /\ Enabled("dawdle") \/ job[p].squad = squadOn
    /\ Cardinality(Present(squadOn)) >= MinMembers
    /\ \A m \in Player : Contains(squad[squadOn].members, m) => ~At(m, "quitting")
    /\ \E b \in BattleId :
           /\ UnusedBattle(b) /\ b = CHOOSE n \in BattleId : UnusedBattle(n)
           /\ battle' = [battle EXCEPT ![b] = NewBattle]
           /\ named' = b
           /\ job' = [job EXCEPT ![p] = Doing("starting", squadOn, b, squad[squadOn].members)]
    /\ state' = "1"
    /\ lapses' = lapses \cup (IF Misled(p) THEN {"misled"} ELSE {})
                        \cup (IF WindingUp THEN {"hasty"} ELSE {})
    /\ UNCHANGED << squadVars, charVars >>

\* One round of registerSquad: the member's twelve hours begin, and
\* registerPlayer adds it unless the instance is disposed.
RegisterMember(p) ==
    /\ At(p, "starting") /\ job[p].todo # << >>
    /\ LET m == Head(job[p].todo)
           b == job[p].battle
           adds == where[m] = "shrine" /\ battle[b].live
       IN  /\ adds => Unlocked(b)
           /\ tried' = [tried EXCEPT ![m] = @ \/ where[m] = "shrine"]
           /\ battle' = IF adds THEN [battle EXCEPT ![b].chars = @ \cup {m}] ELSE battle
           /\ job' = IF adds THEN [job EXCEPT ![p].at = "entering"]
                             ELSE [job EXCEPT ![p].todo = Tail(@)]
    /\ UNCHANGED << state, named, squadVars, where, inst, lapses >>

\* reAdd: the member is put back and registered.
Rejoin(p) ==
    /\ At(p, "rejoining") /\ MayReturn(p) /\ squadOn # None
    /\ Unlocked(named)
    /\ squad' = [squad EXCEPT ![squadOn].members = Append(Without(@, p), p)]
    /\ battle' = [battle EXCEPT ![named].chars = @ \cup {p}]
    /\ job' = [job EXCEPT ![p] = Doing("reentering", None, named, << p >>)]
    /\ lapses' = lapses \cup {"returned"}
    /\ UNCHANGED << state, named, squadOn, queue, charVars >>

\* registerPlayer after it let go of the lock: setEventInstance, and
\* playerEntry warps the player into the arena, which closes its dialog.
Enter(p) ==
    /\ job[p].at \in {"entering", "reentering"}
    /\ LET m == Head(job[p].todo)
       IN  /\ inst' = [inst EXCEPT ![m] = job[p].battle]
           /\ \/ where' = [where EXCEPT ![m] = "arena"] /\ UNCHANGED lapses
              \/ LieDetector /\ lapses' = lapses \cup {"refused"} /\ UNCHANGED where
           /\ job' = [q \in Player |->
                        CASE q = p /\ job[q].at = "entering" ->
                                 [job[q] EXCEPT !.at = "starting", !.todo = Tail(@)]
                          [] q = p /\ job[q].at = "reentering" -> Idle
                          [] q = m /\ q # p /\ job[q].at \in Dialogs -> Idle
                          [] OTHER -> job[q]]
    /\ UNCHANGED << battleVars, squadVars, tried >>

\* Mutant: the removal is cancelled and the status stays.
SetStatusLate(p) ==
    /\ At(p, "starting") /\ job[p].todo = << >>
    /\ squad' = [squad EXCEPT ![job[p].squad].timer = FALSE]
    /\ Finishes(p)
    /\ UNCHANGED << squadOn, queue, battleVars, charVars, lapses >>

\* The end of registerSquad.
SetStatus(p) ==
    /\ At(p, "starting") /\ job[p].todo = << >>
    /\ squad' = [squad EXCEPT ![job[p].squad].status = 2, ![job[p].squad].timer = FALSE]
    /\ Finishes(p)
    /\ UNCHANGED << squadOn, queue, battleVars, charVars, lapses >>

\* dispose_NoLock and EventManager.disposeInstance, which goes by the name.
Dispose(b) ==
    /\ battle' = [battle EXCEPT ![b].live = FALSE, ![b].chars = {}, ![b].dced = {}]
    /\ named' = None
    /\ state' = "0"


----------------------------------------------------------------------------
(* A player leaves *)

\* changeMapInternal calls the event instance first.
Leave(p) ==
    /\ job[p].at \in {"idle"} \cup Dialogs
    /\ where[p] = "arena" \/ (inst[p] # None /\ where[p] # "gone")
    /\ IF Alive(inst[p])
       THEN job' = [job EXCEPT ![p] = Doing("leaving", None, inst[p], << >>)]
       ELSE job' = [job EXCEPT ![p] = Doing("departing", None, None, << >>)]
    /\ UNCHANGED << battleVars, squadVars, charVars, lapses >>

\* Mutant: unregisterPlayer forgets the character's side.
UnregisterHalf(p) ==
    /\ At(p, "leaving")
    /\ LET b == job[p].battle
       IN  /\ battle[b].live => Unlocked(b)
           /\ battle' = [battle EXCEPT ![b].chars = @ \ {p}]
    /\ Goes(p, "checking")
    /\ UNCHANGED << state, named, squadVars, charVars, lapses >>

\* The script's changedMap: unregisterPlayer, ...
Unregister(p) ==
    /\ At(p, "leaving")
    /\ LET b == job[p].battle
       IN  /\ battle[b].live => Unlocked(b)
           /\ battle' = [battle EXCEPT ![b].chars = @ \ {p}]
    /\ inst' = [inst EXCEPT ![p] = None]
    /\ Goes(p, "checking")
    /\ UNCHANGED << state, named, squadVars, where, tried, lapses >>

\* Mutant: changedMap resets the state whatever disposeIfPlayerBelow returns.
DisposeAndReset(p) ==
    /\ At(p, "checking")
    /\ LET b == job[p].battle
       IN  IF battle[b].live /\ battle[b].chars = {}
           THEN Unlocked(b) /\ Dispose(b)
           ELSE (battle[b].live => Unlocked(b)) /\ UNCHANGED battleVars
    /\ Goes(p, "resetting")
    /\ UNCHANGED << squadVars, charVars, lapses >>

\* ... disposeIfPlayerBelow(0, 0), true for an instance that is disposed, ...
DisposeIfEmpty(p) ==
    /\ At(p, "checking")
    /\ LET b == job[p].battle
       IN  \/ /\ ~battle[b].live
              /\ Goes(p, "resetting")
              /\ UNCHANGED battleVars
           \/ /\ battle[b].live /\ Unlocked(b) /\ battle[b].chars = {}
              /\ Dispose(b)
              /\ Goes(p, "resetting")
           \/ /\ battle[b].live /\ Unlocked(b) /\ battle[b].chars # {}
              /\ Goes(p, "departing")
              /\ UNCHANGED battleVars
    /\ UNCHANGED << squadVars, charVars, lapses >>

\* ... and setProperty("state", "0").
Reset(p) ==
    /\ At(p, "resetting")
    /\ state' = "0"
    /\ Goes(p, "departing")
    /\ UNCHANGED << named, battle, squadVars, charVars, lapses >>

\* changeMapInternal goes on, unless the player was warped meanwhile.
Depart(p) ==
    /\ At(p, "departing")
    /\ IF where[p] # "away" THEN GoesAway(p, "away") ELSE UNCHANGED << where, state, squadVars >>
    /\ Finishes(p)
    /\ UNCHANGED << named, battle, inst, tried, lapses >>

\* A walk that the event has no part in; it closes the dialog.
Walk(p) ==
    /\ Enabled("walk") /\ job[p].at \in {"idle"} \cup Dialogs /\ inst[p] = None
    /\ \/ where[p] = "shrine" /\ where' = [where EXCEPT ![p] = "away"]
       \/ where[p] = "away" /\ where' = [where EXCEPT ![p] = "shrine"]
    /\ Finishes(p)
    /\ UNCHANGED << battleVars, squadVars, inst, tried, lapses >>

\* Bound: a connection does not end while its own registration is to come.
BeingRegistered(p) == \E q \in Player : Contains(job[q].todo, p)

\* removalTask: playerDisconnected; the dead are not let back in.
LogOut(p) ==
    /\ Enabled("logout") /\ job[p].at \in {"idle"} \cup Dialogs
    /\ where[p] # "gone" /\ ~BeingRegistered(p)
    /\ LET b == inst[p]
       IN  \/ ~Alive(b) /\ UNCHANGED << battleVars, inst >>
           \/ /\ Alive(b) /\ Unlocked(b)
              /\ inst' = [inst EXCEPT ![p] = None]
              /\ IF battle[b].chars \subseteq {p} THEN Dispose(b)
                 ELSE /\ \E alive \in BOOLEAN :
                             battle' = [battle EXCEPT
                                          ![b].chars = @ \ {p},
                                          ![b].dced = IF alive THEN @ \cup {p} ELSE @]
                      /\ UNCHANGED << state, named >>
    /\ job' = [job EXCEPT ![p] = Doing("quitting", None, None, << >>)]
    /\ UNCHANGED << squadVars, where, tried, lapses >>

\* removalTask takes the character off its map.
Quit(p) ==
    /\ At(p, "quitting")
    /\ GoesAway(p, "gone")
    /\ Finishes(p)
    /\ inst' = [inst EXCEPT ![p] = None]
    /\ UNCHANGED << named, battle, tried, lapses >>

LogIn(p) ==
    /\ where[p] = "gone" /\ At(p, "idle")
    /\ where' = [where EXCEPT ![p] = "away"]
    /\ UNCHANGED << battleVars, squadVars, inst, tried, job, lapses >>

----------------------------------------------------------------------------
(* The battle's timer *)

\* The task finds its instance alive, or does nothing.  An hour is longer
\* than a handler takes.
TimeUp(b) ==
    /\ battle[b].timer = "armed"
    /\ \A p \in Player : job[p].at \in {"starting", "entering"} => job[p].battle # b
    /\ battle' = [battle EXCEPT ![b].timer = IF battle[b].live THEN "due" ELSE "off"]
    /\ UNCHANGED << state, named, squadVars, charVars, job, lapses >>

\* scheduledTimeout: disposeIfPlayerBelow(100, ...) takes the lock if the
\* instance is still alive, ...
TakeLock(b) ==
    /\ battle[b].timer = "due"
    /\ battle' = [battle EXCEPT ![b].timer = IF battle[b].live THEN "evict" ELSE "reset"]
    /\ UNCHANGED << state, named, squadVars, charVars, job, lapses >>

\* Mutant: a player is unregistered and not warped.
EvictNowhere(b, p) ==
    /\ battle[b].timer = "evict" /\ p \in battle[b].chars
    /\ battle' = [battle EXCEPT ![b].chars = @ \ {p}]
    /\ inst' = [inst EXCEPT ![p] = None]
    /\ UNCHANGED << state, named, squadVars, where, tried, job, lapses >>

\* ... unregisters and warps each player, ...
Evict(b, p) ==
    /\ battle[b].timer = "evict" /\ p \in battle[b].chars
    /\ battle' = [battle EXCEPT ![b].chars = @ \ {p}]
    /\ inst' = [inst EXCEPT ![p] = None]
    /\ \/ /\ GoesAway(p, "away")
          /\ job' = [job EXCEPT ![p] = IF @.at \in Dialogs THEN Idle ELSE @]
          /\ UNCHANGED lapses
       \/ /\ LieDetector /\ lapses' = lapses \cup {"refused"}
          /\ UNCHANGED << where, state, squadVars, job >>
    /\ UNCHANGED << named, tried >>

\* ... and disposes the instance; ...
CloseBattle(b) ==
    /\ battle[b].timer = "evict" /\ battle[b].chars = {}
    /\ battle' = [battle EXCEPT ![b] = [Disposed EXCEPT !.timer = "reset"]]
    /\ named' = None
    /\ state' = "0"
    /\ UNCHANGED << squadVars, charVars, job, lapses >>

\* ... then the script sets the state whatever happened.
ResetState(b) ==
    /\ battle[b].timer = "reset"
    /\ battle' = [battle EXCEPT ![b].timer = "off"]
    /\ state' = "0"
    /\ UNCHANGED << named, squadVars, charVars, job, lapses >>

----------------------------------------------------------------------------
Chats(p) ==
    \/ AskToLead(p) \/ OpenMenu(p) \/ OfferReturn(p) \/ OfferReservation(p)
    \/ Close(p) \/ Register(p) \/ LoseLeader(p) \/ Join(p) \/ Withdraw(p)
    \/ Ban(p) \/ Accept(p) \/ Reserve(p) \/ Start(p) \/ Rejoin(p)

\* A handler that has begun runs to its end.
Works(p) ==
    \/ AddSquad(p) \/ RegisterMember(p) \/ Enter(p) \/ SetStatus(p)
    \/ Unregister(p) \/ DisposeIfEmpty(p) \/ Reset(p) \/ Depart(p) \/ Quit(p)

Moves(p) == Leave(p) \/ Walk(p) \/ LogOut(p) \/ LogIn(p)

BattleTimer(b) ==
    \/ TimeUp(b) \/ TakeLock(b) \/ CloseBattle(b) \/ ResetState(b)
    \/ \E p \in Player : Evict(b, p)

Next ==
    \/ \E p \in Player : Chats(p) \/ Works(p) \/ Moves(p)
    \/ \E s \in SquadId : Expire(s)
    \/ \E b \in BattleId : BattleTimer(b)

\* Handlers and timers run; players may stop at any time.
Fairness ==
    /\ \A p \in Player : WF_vars(Works(p))
    /\ \A s \in SquadId : WF_vars(Expire(s))
    /\ \A b \in BattleId : WF_vars(BattleTimer(b))

Spec == Init /\ [][Next]_vars /\ Fairness

----------------------------------------------------------------------------
(* Safety *)

\* Whoever the instance lets go of is taken off the arena: a player there
\* belongs to a battle (EventInstanceManager) or its own thread is taking it
\* out.  A lie detector test keeps it in (changeMapInternal).
InBattle ==
    "refused" \notin lapses =>
        \A p \in Player : where[p] = "arena" => inst[p] # None \/ job[p].at \in Leaving

\* MapleCharacter.eventInstance and EventInstanceManager.chars agree: a live
\* instance counts everybody who believes to be in it.
Enrolled ==
    \A p \in Player, b \in BattleId :
        inst[p] = b /\ battle[b].live /\ Unlocked(b) => p \in battle[b].chars

\* The door that the NPC shows, em.getProperty("state"), is shut as long as a
\* battle is fought: until its timer has begun to send the players away.  After
\* a lapse checkStates, or a late reset, opens it.
DoorShut ==
    lapses = {} => \A b \in BattleId : battle[b].live /\ battle[b].timer # "evict" => state = "1"

\* One boss, one battle (EventManager.startInstance): a second instance is
\* made only when the first is disposed, unless a lapse left the door open on
\* it.
OneBattle == lapses = {} => Cardinality({b \in BattleId : battle[b].live}) <= 1

\* A squad that forms has its removal scheduled, whatever became of the battle
\* it tried to start (scheduleRemoval, setStatus).
Waiting == \A s \in SquadId : squadOn = s /\ squad[s].status = 1 => squad[s].timer

(* Liveness *)

\* The boss is free again: a squad that does not fight is removed after five
\* minutes, one that fights when its last member has left, a battle ends by
\* its timer if not before, and the reservations are served or dropped
\* (scheduleRemoval, checkStates, scheduledTimeout).  Lie detectors are left
\* out, and so is a squad that somebody was let back into.
BossFree ==
    (squadOn # None \/ state = "1")
        ~> ((squadOn = None /\ state = "0") \/ "returned" \in lapses)

----------------------------------------------------------------------------
(* What the code does not keep: these are stated for the reader, and fail. *)

\* The instance that a player fights in is not disposed.  Violated: reAdd
\* registers a player that the timer no longer sees.
LiveBattle ==
    \A p \in Player, b \in BattleId :
        where[p] = "arena" /\ inst[p] = b => battle[b].live \/ job[p].at \in Leaving

\* A squad goes off the channel only by being cleared itself (addMapleSquad,
\* clear).  Violated: a second registration takes the first one off.
OwnClear == [][\A s \in SquadId : squadOn = s /\ squadOn' # s => squad'[s] # squad[s]]_vars

\* A banned player is not a member (banMember, addMember).  Violated by a
\* question asked before the ban.
BannedStayOut == \A s \in SquadId : \A p \in squad[s].banned : ~Contains(squad[s].members, p)

\* addMember fills the seats of a squad and no more.  Violated.
AtMostThirty == \A s \in SquadId : Len(squad[s].members) <= Seats
=============================================================================
