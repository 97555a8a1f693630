---------------------------- MODULE MapleMapItem ----------------------------
(***************************************************************************)
(* Drops lying on the maps of one channel: server/maps/MapleMapItem.java,  *)
(* its life on server/maps/MapleMap.java, and the threads that race for    *)
(* it: the pick-up handlers (InventoryHandler, PetHandler, DamageParse),   *)
(* the respawn worker (World.handleMap), whatever clears a map             *)
(* (MapleMap.removeDrops), and whatever moves a character to another map   *)
(* (a portal, or a timer of an event).                                     *)
(*                                                                         *)
(* A drop is named by its map and its object id, because two maps number   *)
(* their objects independently.  Each handler is split at the points where *)
(* another thread can see or change what it uses: a pick-up holds the lock *)
(* of the drop, the respawn worker and the others never take it.           *)
(***************************************************************************)
EXTENDS Integers, FiniteSets

CONSTANTS
    Char,      \* the characters of the channel, one handler thread each
    Map, Oid,  \* maps, and the object ids each of them hands out
    Worker,    \* the respawn worker
    Clearer,   \* the threads that call removeDrops (a set)
    Mover,     \* a thread that moves characters
    NoOne,     \* the owner of a drop of nobody; the holder of a free lock
    NoDrop,    \* a null drop
    Everlast,  \* the maps whose player drops stay and go home with the owner
    Market,    \* the map that keeps a random drop (910000000 of channel 1)
    PartyOf,   \* the members of a character's party, {} without a party
    Bonus,     \* the characters with hasPartyBonus
    Amounts,   \* what a heap of meso may be worth
    MobTypes,  \* the types of the monsters' drops
    Ways,      \* the handlers in use: by hand, by pet, in a pet's stride,
               \* or by a meso explosion
    Home       \* where the characters start

Thread == Char \cup Clearer \cup {Worker, Mover}
Drop == Map \X Oid

ASSUME MapItemAssumption ==
    /\ Char \cap Clearer = {}
    /\ Worker \notin Char \cup Clearer \cup {Mover}
    /\ Mover \notin Char \cup Clearer
    /\ NoOne \notin Thread
    /\ NoDrop \notin Drop
    /\ Market \subseteq Map
    /\ Everlast \subseteq Map \ Market
    /\ PartyOf \in [Char -> SUBSET Char]
    /\ \A c \in Char : IsFiniteSet(PartyOf[c])
    /\ Bonus \subseteq Char /\ IsFiniteSet(Bonus)
    /\ Amounts \subseteq Nat \ {0}
    /\ MobTypes \subseteq 0..3
    /\ Ways \subseteq {"hand", "pet", "stride", "blast"}
    /\ Home \in [Char -> Map]

\* How a drop was made.  type: 0 owner only, 1 owner's party, 2 anybody, 3 a
\* boss explosion (anybody).  nextFFA is set exactly when nextExpiry is and the
\* type is below 2, so one field stands for both.
Kind ==
    [owner : Char \cup {NoOne}, type : 0..3, playerDrop : BOOLEAN,
     meso : Amounts \cup {0}, randDrop : BOOLEAN, timed : BOOLEAN]

VARIABLES
    made,      \* the drops made so far, and how: a partial function to Kind
    onMap,     \* MapleMap.mapobjects, of ITEM type
    pickedUp,  \* MapleMapItem.pickedUp (of those made)
    type,      \* MapleMapItem.type now
    age,       \* 0, 1 (30 s: nextFFA has passed), 2 (120 s: nextExpiry has)
    lock,      \* MapleMapItem.lock: its holder
    stage,     \* where each thread is in its handler
    how,       \* which way a handler picks up
    at,        \* the drop a thread works on
    sweep,     \* the rest of the snapshot a thread works through
    mapOf,     \* MapleCharacter.map
    leaver,    \* the character the Mover moves
    pending,   \* random drops the timer of a market will make
    grants,    \* history: how often a drop was handed out
    paid,      \* history: the meso handed out for it
    strayed    \* history: somebody was moved away in the middle of a pick-up

dropVars == <<made, onMap, pickedUp, type, age>>
threadVars == <<stage, how, at, sweep>>
historyVars == <<grants, paid, strayed>>
vars == <<dropVars, lock, threadVars, mapOf, leaver, pending, historyVars>>

Stage == {"idle", "found", "entered", "leaving", "marked", "removed", "blown", "returning"}

Made == DOMAIN made
MapOfDrop(d) == d[1]

-----------------------------------------------------------------------------
\* A map starts empty; the channel has asked for the market's first random
\* drop (Start).
Init ==
    /\ made = [d \in {} |-> NoDrop]
    /\ onMap = {}
    /\ pickedUp = [d \in Drop |-> FALSE]
    /\ type = [d \in Drop |-> 0]
    /\ age = [d \in Drop |-> 0]
    /\ lock = [d \in Drop |-> NoOne]
    /\ stage = [t \in Thread |-> "idle"]
    /\ how = [t \in Thread |-> "hand"]
    /\ at = [t \in Thread |-> NoDrop]
    /\ sweep = [t \in Thread |-> {}]
    /\ mapOf = Home
    /\ leaver = NoOne
    /\ pending = [m \in Map |-> IF m \in Market THEN 1 ELSE 0]
    /\ grants = [d \in Drop |-> 0]
    /\ paid = [d \in Drop |-> 0]
    /\ strayed = FALSE

-----------------------------------------------------------------------------
(* Drops appear.                                                           *)

\* addMapObject under a fresh object id of map m.
Spawn(m, kind) ==
    /\ \E d \in {m} \X Oid :
        /\ d \notin Made
        /\ made' = [x \in Made \cup {d} |-> IF x = d THEN kind ELSE made[x]]
        /\ onMap' = onMap \cup {d}
        /\ type' = [type EXCEPT ![d] = kind.type]
    /\ UNCHANGED <<pickedUp, age, lock, threadVars, mapOf, leaver, historyVars>>

\* spawnMobDrop and spawnMobMesoDrop: the timers run on every kind of map.
MobDrop(m, c, t, x) ==
    /\ Spawn(m, [owner |-> c, type |-> t, playerDrop |-> FALSE, meso |-> x,
                 randDrop |-> FALSE, timed |-> TRUE])
    /\ UNCHANGED pending

\* spawnItemDrop of a stack a player drops.
DropItem(c) ==
    /\ stage[c] = "idle"
    /\ Spawn(mapOf[c], [owner |-> c, type |-> 2, playerDrop |-> TRUE, meso |-> 0,
                        randDrop |-> FALSE, timed |-> mapOf[c] \notin Everlast])
    /\ UNCHANGED pending

\* DropMeso, spawnMesoDrop: anybody may take a player's meso although its type
\* is 0, but on an everlast map.
DropMeso(c, x) ==
    /\ stage[c] = "idle"
    /\ Spawn(mapOf[c], [owner |-> c, type |-> 0, playerDrop |-> TRUE, meso |-> x,
                        randDrop |-> FALSE, timed |-> mapOf[c] \notin Everlast])
    /\ UNCHANGED pending

\* spawnAutoDrop, which spawnMobDrop may call at its end (there are no monsters
\* in the market), ...
AutoDrop(m) ==
    Spawn(m, [owner |-> NoOne, type |-> 2, playerDrop |-> FALSE, meso |-> 0,
              randDrop |-> TRUE, timed |-> TRUE])
MobAutoDrop(m) == m \notin Market /\ AutoDrop(m) /\ UNCHANGED pending

\* ... or the timer, 20 s after spawnRandDrop asked for it.
RandDrop(m) ==
    /\ pending[m] > 0
    /\ AutoDrop(m)
    /\ pending' = [pending EXCEPT ![m] = @ - 1]

Age(d) ==
    /\ d \in Made /\ age[d] < 2
    /\ age' = [age EXCEPT ![d] = @ + 1]
    /\ UNCHANGED <<made, onMap, pickedUp, type, lock, threadVars>>
    /\ UNCHANGED <<mapOf, leaver, pending, historyVars>>

-----------------------------------------------------------------------------
(* Picking up.                                                             *)

\* isPickedUp (and a handler that does not ask)
NeverPickedUp(d) == FALSE
IsPickedUp(d) == pickedUp[d]

\* setPickedUp(true) (and its omission)
PickUpUnmarked(d) == pickedUp
PickUp(d) == [pickedUp EXCEPT ![d] = TRUE]

\* The refusals of each handler, for character c that is not the owner.  A
\* pet that walks over a drop takes nothing but its owner's.
OthersMay(c, d, h) ==
    LET k == made[d] IN
    /\ k.playerDrop => h = "hand" /\ mapOf[c] \notin Everlast
    /\ ~ k.playerDrop =>
        /\ type[d] # 0
        /\ type[d] = 1 => k.owner \in PartyOf[c]
        /\ h # "stride"
MayTake(c, d, h) == made[d].owner = c \/ OthersMay(c, d, h)

\* getMapObject: the handler has found the drop and waits for its lock.
Look(c, d, h) ==
    /\ stage[c] = "idle"
    /\ d \in onMap
    /\ MapOfDrop(d) = mapOf[c]
    /\ h = "blast" => made[d].meso > 0
    /\ stage' = [stage EXCEPT ![c] = "found"]
    /\ how' = [how EXCEPT ![c] = h]
    /\ at' = [at EXCEPT ![c] = d]
    /\ UNCHANGED <<dropVars, lock, sweep, mapOf, leaver, pending, historyVars>>

\* The handler ends, with or without the lock in its hands.
Leave(c) ==
    /\ stage' = [stage EXCEPT ![c] = "idle"]
    /\ how' = [how EXCEPT ![c] = "hand"]
    /\ at' = [at EXCEPT ![c] = NoDrop]
    /\ lock' = [d \in Drop |-> IF lock[d] = c THEN NoOne ELSE lock[d]]

\* lock.lock(), then the guards: the drop may be gone, or out of bounds for c.
Enter(c) ==
    LET d == at[c] IN
    /\ stage[c] = "found" /\ how[c] # "blast"
    /\ lock[d] = NoOne
    /\ IF IsPickedUp(d) \/ ~ MayTake(c, d, how[c])
       THEN Leave(c)
       ELSE /\ stage' = [stage EXCEPT ![c] = "entered"]
            /\ lock' = [lock EXCEPT ![d] = c]
            /\ UNCHANGED <<how, at>>
    /\ UNCHANGED <<dropVars, sweep, mapOf, leaver, pending, historyVars>>

\* No room, a blocked pick-up, a quest that has not started.
Refuse(c) ==
    /\ stage[c] = "entered"
    /\ Leave(c)
    /\ UNCHANGED <<dropVars, sweep, mapOf, leaver, pending, historyVars>>

\* The other members of c's party on c's map, and what a drop of x meso of
\* another owner pays: 40% of it in equal shares (not 40 times it; not shares
\* of the whole heap), the rest to c, and a bonus on top.
Fellows(c) == {f \in PartyOf[c] \ {c} : mapOf[f] = mapOf[c]}
SplitUnscaled(x) == x * 40
Split(x) == (x * 40) \div 100
SplitWhole(x, n) == IF n = 0 THEN 0 ELSE x \div n
SplitInto(x, n) == IF n = 0 THEN 0 ELSE Split(x) \div n
Payout(c, x) ==
    LET n == Cardinality(Fellows(c)) IN
    x - Split(x) + n * SplitInto(x, n)
      + Cardinality(Fellows(c) \cap Bonus) * (x \div 20)

Grant(c) ==
    LET d == at[c]
        x == made[d].meso
    IN
    /\ stage[c] = "entered"
    /\ grants' = [grants EXCEPT ![d] = @ + 1]
    /\ paid' = [paid EXCEPT ![d] =
          @ + IF PartyOf[c] # {} /\ made[d].owner # c THEN Payout(c, x) ELSE x]
    /\ stage' = [stage EXCEPT ![c] = "leaving"]
    /\ UNCHANGED <<dropVars, lock, how, at, sweep, mapOf, leaver, pending, strayed>>

\* A meso explosion removes the heap first and marks it after.
Explode(c) ==
    LET d == at[c] IN
    /\ stage[c] = "found" /\ how[c] = "blast"
    /\ lock[d] = NoOne
    /\ IF IsPickedUp(d)
       THEN Leave(c) /\ UNCHANGED onMap
       ELSE /\ stage' = [stage EXCEPT ![c] = "blown"]
            /\ lock' = [lock EXCEPT ![d] = c]
            /\ onMap' = onMap \ {d}
            /\ UNCHANGED <<how, at>>
    /\ UNCHANGED <<made, pickedUp, type, age, sweep>>
    /\ UNCHANGED <<mapOf, leaver, pending, historyVars>>

ExplodeDone(c) ==
    /\ stage[c] = "blown"
    /\ pickedUp' = PickUp(at[c])
    /\ Leave(c)
    /\ UNCHANGED <<made, onMap, type, age, sweep>>
    /\ UNCHANGED <<mapOf, leaver, pending, historyVars>>

-----------------------------------------------------------------------------
(* The last steps of removeItem, removeItem_Pet, expire and                *)
(* returnEverLastItem: mark, remove, ask for a new random drop.            *)

Mark(t) ==
    /\ stage[t] = "leaving"
    /\ pickedUp' = PickUp(at[t])
    /\ stage' = [stage EXCEPT ![t] = "marked"]
    /\ UNCHANGED <<made, onMap, type, age, lock, how, at, sweep>>
    /\ UNCHANGED <<mapOf, leaver, pending, historyVars>>

\* The map the drop is taken off: expire and returnEverLastItem have the map,
\* a pick-up asks the character again, which may have moved since.
MapHandled(t) == IF t \in Char THEN mapOf[t] ELSE MapOfDrop(at[t])

\* removeMapObject removes whatever the map has under that object id.
Remove(t) ==
    /\ stage[t] = "marked"
    /\ onMap' = onMap \ {<<MapHandled(t), at[t][2]>>}
    /\ stage' = [stage EXCEPT ![t] = "removed"]
    /\ UNCHANGED <<made, pickedUp, type, age, lock, how, at, sweep>>
    /\ UNCHANGED <<mapOf, leaver, pending, historyVars>>

\* spawnRandDrop: nothing but in the market, and not while one lies there.
NeedsRandDrop(m) ==
    /\ m \in Market
    /\ \A d \in onMap : MapOfDrop(d) = m => ~ made[d].randDrop

\* Who asks: both ways out of the map, for a random drop only.
PickersAsk(t) == t \in Char /\ made[at[t]].randDrop /\ NeedsRandDrop(MapHandled(t))
Asks(t) == made[at[t]].randDrop /\ NeedsRandDrop(MapHandled(t))

Refill(t) ==
    /\ stage[t] = "removed"
    /\ pending' = [pending EXCEPT ![MapHandled(t)] = @ + IF Asks(t) THEN 1 ELSE 0]
    /\ Leave(t)
    /\ UNCHANGED <<dropVars, sweep, mapOf, leaver, historyVars>>

-----------------------------------------------------------------------------
(* The threads that work through a snapshot of the map and take no lock.   *)

\* Due is due from the moment on; free for all comes with time only.
ExpiresOnTheDot(d) == ~ pickedUp[d] /\ made[d].timed /\ age[d] = 1
ShouldExpire(d) == ~ pickedUp[d] /\ made[d].timed /\ age[d] = 2
FFAAnytime(d) == ~ pickedUp[d] /\ type[d] < 2 /\ made[d].timed
ShouldFFA(d) == ~ pickedUp[d] /\ type[d] < 2 /\ made[d].timed /\ age[d] >= 1

\* getAllItemsThreadsafe, by handleMap and by removeDrops.
Snapshot(t, m) ==
    /\ t \in Clearer \cup {Worker}
    /\ stage[t] = "idle" /\ sweep[t] = {}
    /\ sweep' = [sweep EXCEPT ![t] = {d \in onMap : MapOfDrop(d) = m}]
    /\ UNCHANGED <<dropVars, lock, stage, how, at, mapOf, leaver, pending, historyVars>>

Next1(t, d) ==
    /\ stage[t] = "idle"
    /\ d \in sweep[t]
    /\ sweep' = [sweep EXCEPT ![t] = @ \ {d}]

StartLeaving(t, d) ==
    /\ stage' = [stage EXCEPT ![t] = "leaving"]
    /\ at' = [at EXCEPT ![t] = d]

\* handleMap looks at one drop: it expires it, frees it for all, or passes.
WorkerVisits(d) ==
    /\ Next1(Worker, d)
    /\ IF ShouldExpire(d)
       THEN StartLeaving(Worker, d) /\ UNCHANGED type
       ELSE /\ type' = IF ShouldFFA(d) THEN [type EXCEPT ![d] = 2] ELSE type
            /\ UNCHANGED <<stage, at>>
    /\ UNCHANGED <<made, onMap, pickedUp, age, lock, how>>
    /\ UNCHANGED <<mapOf, leaver, pending, historyVars>>

\* removeDrops expires every drop of its snapshot, due or not.
ClearerVisits(t, d) ==
    /\ Next1(t, d)
    /\ StartLeaving(t, d)
    /\ UNCHANGED <<dropVars, lock, how, mapOf, leaver, pending, historyVars>>

-----------------------------------------------------------------------------
(* Moving.  MapleMap.removePlayer of an everlast map first gives a         *)
(* character back what it owns there; then MapleCharacter.map changes.     *)

Depart(c) ==
    /\ leaver = NoOne
    /\ leaver' = c
    /\ sweep' = [sweep EXCEPT ![Mover] =
          IF mapOf[c] \in Everlast
          THEN {d \in onMap : MapOfDrop(d) = mapOf[c] /\ made[d].owner = c}
          ELSE {}]
    /\ UNCHANGED <<dropVars, lock, stage, how, at, mapOf, pending, historyVars>>

\* returnEverLastItem marks, then gives, then removes; it asks nothing.
Return(d) ==
    /\ Next1(Mover, d)
    /\ pickedUp' = PickUp(d)
    /\ stage' = [stage EXCEPT ![Mover] = "returning"]
    /\ at' = [at EXCEPT ![Mover] = d]
    /\ UNCHANGED <<made, onMap, type, age, lock, how>>
    /\ UNCHANGED <<mapOf, leaver, pending, historyVars>>

ReturnGrant ==
    LET d == at[Mover] IN
    /\ stage[Mover] = "returning"
    /\ grants' = [grants EXCEPT ![d] = @ + 1]
    /\ paid' = [paid EXCEPT ![d] = @ + made[d].meso]
    /\ stage' = [stage EXCEPT ![Mover] = "marked"]
    /\ UNCHANGED <<dropVars, lock, how, at, sweep, mapOf, leaver, pending, strayed>>

Arrive(m) ==
    /\ leaver # NoOne
    /\ stage[Mover] = "idle" /\ sweep[Mover] = {}
    /\ m # mapOf[leaver]
    /\ mapOf' = [mapOf EXCEPT ![leaver] = m]
    /\ strayed' = (strayed \/ (stage[leaver] # "idle" /\ how[leaver] # "blast"))
    /\ leaver' = NoOne
    /\ UNCHANGED <<dropVars, lock, threadVars, pending, grants, paid>>

-----------------------------------------------------------------------------
MakeDrop ==
    \/ \E m \in Map, c \in Char, t \in MobTypes, x \in Amounts \cup {0} : MobDrop(m, c, t, x)
    \/ \E c \in Char : DropItem(c)
    \/ \E c \in Char, x \in Amounts : DropMeso(c, x)
    \/ \E m \in Map : RandDrop(m)
    \/ \E m \in Map : MobAutoDrop(m)

\* What a thread does once it has started
Picking(c) == Enter(c) \/ Refuse(c) \/ Grant(c) \/ Explode(c) \/ ExplodeDone(c)
Ending(t) == Mark(t) \/ Remove(t) \/ Refill(t)
WorkerGoesOn == \E d \in Drop : WorkerVisits(d)
ClearerGoesOn(t) == \E d \in Drop : ClearerVisits(t, d)
MoverGoesOn == ReturnGrant \/ \E d \in Drop : Return(d)

Next ==
    \/ MakeDrop
    \/ \E d \in Drop : Age(d)
    \/ \E c \in Char, d \in Drop, h \in Ways : Look(c, d, h)
    \/ \E c \in Char : Picking(c)
    \/ \E t \in Thread : Ending(t)
    \/ \E t \in Clearer \cup {Worker}, m \in Map : Snapshot(t, m)
    \/ WorkerGoesOn \/ MoverGoesOn
    \/ \E t \in Clearer : ClearerGoesOn(t)
    \/ \E c \in Char : Depart(c)
    \/ \E m \in Map : Arrive(m)

Spec == Init /\ [][Next]_vars

\* Time passes, a handler that has started is carried on, and the respawn
\* worker comes back to every map and works through its snapshot (World
\* registers it every 4.5 s).  Nobody has to look, to clear or to move.
Fairness ==
    /\ \A d \in Drop : WF_vars(Age(d))
    /\ \A c \in Char : WF_vars(Picking(c))
    /\ \A t \in Thread : WF_vars(Ending(t))
    /\ \A m \in Map : SF_vars(Snapshot(Worker, m))
    /\ WF_vars(WorkerGoesOn) /\ WF_vars(MoverGoesOn)
    /\ \A t \in Clearer : WF_vars(ClearerGoesOn(t))

FairSpec == Spec /\ Fairness

-----------------------------------------------------------------------------
TypeOK ==
    /\ Made \subseteq Drop
    /\ \A d \in Made : made[d] \in Kind
    /\ onMap \subseteq Made
    /\ pickedUp \in [Drop -> BOOLEAN]
    /\ type \in [Drop -> 0..3]
    /\ age \in [Drop -> 0..2]
    /\ lock \in [Drop -> Char \cup {NoOne}]
    /\ stage \in [Thread -> Stage]
    /\ how \in [Thread -> Ways \cup {"hand"}]
    /\ at \in [Thread -> Made \cup {NoDrop}]
    /\ sweep \in [Thread -> SUBSET Made]
    /\ mapOf \in [Char -> Map]
    /\ leaver \in Char \cup {NoOne}
    /\ pending \in [Map -> Nat]
    /\ grants \in [Drop -> Nat]
    /\ paid \in [Drop -> Nat]
    /\ strayed \in BOOLEAN

\* Whatever the respawn worker, removeDrops, explosions and other players do
\* meanwhile, a drop is handed out at most once - except on an everlast map,
\* where returnEverLastItem gives without the lock and without isPickedUp.
GrantedOnce == \A d \in Drop : MapOfDrop(d) \notin Everlast => grants[d] <= 1

\* The shares of a heap of meso never add up to more than the heap, but for
\* the twentieth a member with hasPartyBonus gets on top.
SharesFit ==
    \A d \in Made : MapOfDrop(d) \notin Everlast =>
        paid[d] <= made[d].meso + Cardinality(Bonus) * (made[d].meso \div 20)

\* When no thread works on a drop, it lies on its map exactly as long as it
\* is not picked up, and it was not handed out: no ghost that players see and
\* nobody can take, no drop that vanishes.  A character moved to another map
\* in the middle of its pick-up takes the drop off the wrong map.
MapTellsTruth ==
    ~ strayed => \A d \in Made :
        (\A t \in Thread : stage[t] = "idle" \/ at[t] # d) =>
            /\ d \in onMap <=> ~ pickedUp[d]
            /\ grants[d] > 0 => pickedUp[d]

\* The market never stays without its random drop: one lies there, one is
\* due, or a thread that took one off the map is about to ask for the next.
RandDropKept ==
    ~ strayed => \A m \in Market :
        \/ \E d \in onMap : MapOfDrop(d) = m /\ made[d].randDrop
        \/ pending[m] > 0
        \/ \E t \in Thread : /\ stage[t] = "removed"
                             /\ MapOfDrop(at[t]) = m /\ made[at[t]].randDrop

\* A monster's drop goes to somebody outside the owner's party only if it was
\* free for all from the start, or after its first 30 seconds.
OwnerFirst ==
    [][\A c \in Char :
          stage[c] = "entered" /\ stage'[c] = "leaving" =>
              LET k == made[at[c]] IN
              \/ k.owner = c
              \/ k.playerDrop
              \/ k.type >= 2
              \/ k.type = 1 /\ k.owner \in PartyOf[c]
              \/ age[at[c]] >= 1]_vars

\* Every drop with an expiry leaves its map in the end, picked up or expired,
\* unless somebody was moved away in the middle of a pick-up.
Cleared ==
    \A d \in Drop :
        (d \in onMap /\ made[d].timed) ~> (d \notin onMap \/ strayed)
=============================================================================
