---------------------------- MODULE MapItemProofs ----------------------------
(* What is proved of the drops of a map for any characters, maps, clearing  *)
(* threads and object ids.                                                  *)
EXTENDS MapleMapItem, FiniteSetTheorems, TLAPS

-----------------------------------------------------------------------------
(* A thread in the middle of something works on a drop that was made.       *)

Busy == \A t \in Thread : stage[t] # "idle" => at[t] \in Made
TypeInv == TypeOK /\ Busy

\* 40% of a heap is a part of it.
LEMMA SplitBounds ==
    ASSUME NEW x \in Nat
    PROVE  Split(x) \in 0..x
BY DEF Split

\* Whatever the party, a pick-up hands out a number of meso, not less than 0.
LEMMA PayoutNat ==
    ASSUME MapItemAssumption, TypeOK, NEW c \in Char, NEW x \in Nat
    PROVE  Payout(c, x) \in Nat
<1> DEFINE F == Fellows(c)
<1>1. PartyOf[c] \subseteq Char /\ IsFiniteSet(PartyOf[c])
  BY DEF MapItemAssumption
<1>2. IsFiniteSet(F) /\ IsFiniteSet(F \cap Bonus)
  <2>1. F \subseteq PartyOf[c] /\ F \cap Bonus \subseteq PartyOf[c]
    BY DEF Fellows
  <2> QED BY <1>1, <2>1, FS_Subset
<1>3. Cardinality(F) \in Nat /\ Cardinality(F \cap Bonus) \in Nat
  BY <1>2, FS_CardinalityType
<1>4. Split(x) \in Nat /\ x - Split(x) \in Nat
  BY SplitBounds
<1>5. \A n \in Nat : SplitInto(x, n) \in Nat
  BY <1>4 DEF SplitInto
<1>6. \A n, m \in Nat : n * m \in Nat
  OBVIOUS
<1>7. x \div 20 \in Nat
  OBVIOUS
<1>8. Cardinality(F) * SplitInto(x, Cardinality(F)) \in Nat
  BY <1>3, <1>5, <1>6
<1>9. Cardinality(F \cap Bonus) * (x \div 20) \in Nat
  BY <1>3, <1>6, <1>7
<1> HIDE DEF F
<1>10. \A i, j, k \in Nat : i + j + k \in Nat
  OBVIOUS
<1> QED BY <1>4, <1>8, <1>9, <1>10 DEF Payout, F

LEMMA ThreadFacts ==
    ASSUME MapItemAssumption
    PROVE  /\ Char \subseteq Thread /\ Clearer \subseteq Thread
           /\ Worker \in Thread /\ Mover \in Thread
           /\ Worker \notin Char /\ Mover \notin Char /\ NoOne \notin Char
           /\ Clearer \cap Char = {}
BY DEF MapItemAssumption, Thread

LEMMA DropFacts ==
    /\ \A d \in Drop : MapOfDrop(d) \in Map
    /\ \A m \in Map, o \in Oid : <<m, o>> \in Drop /\ MapOfDrop(<<m, o>>) = m
    /\ \A m \in Map : {m} \X Oid \subseteq Drop
BY DEF Drop, MapOfDrop

-----------------------------------------------------------------------------
(* Type correctness.                                                        *)

\* A fresh drop leaves the map of those made before it alone.
LEMMA SpawnType ==
    ASSUME MapItemAssumption, TypeInv, NEW m \in Map, NEW kind \in Kind, Spawn(m, kind)
    PROVE  /\ Made \subseteq Made'
           /\ Made' \subseteq Drop
           /\ \A d \in Made' : made'[d] \in Kind
           /\ onMap' \subseteq Made'
           /\ type' \in [Drop -> 0..3]
<1>1. PICK d \in {m} \X Oid :
        /\ d \notin Made
        /\ made' = [x \in Made \cup {d} |-> IF x = d THEN kind ELSE made[x]]
        /\ onMap' = onMap \cup {d}
        /\ type' = [type EXCEPT ![d] = kind.type]
  BY DEF Spawn
<1>2. Made' = Made \cup {d}
  BY <1>1 DEF Made
<1>3. d \in Drop
  BY DropFacts
<1>4. kind.type \in 0..3
  BY DEF Kind
<1>5. \A x \in Made' : made'[x] = IF x = d THEN kind ELSE made[x]
  BY <1>1, <1>2
<1> QED
  BY <1>1, <1>2, <1>3, <1>4, <1>5 DEF TypeInv, TypeOK

\* What a spawning action keeps, it keeps for every thread.
LEMMA SpawnKeeps ==
    ASSUME MapItemAssumption, TypeInv, NEW m \in Map, NEW kind \in Kind,
           Spawn(m, kind), pending' \in [Map -> Nat]
    PROVE  TypeInv'
<1>1. UNCHANGED <<pickedUp, age, lock, stage, how, at, sweep, mapOf, leaver,
                  grants, paid, strayed>>
  BY DEF Spawn, threadVars, historyVars
<1>2. /\ Made \subseteq Made'
      /\ Made' \subseteq Drop
      /\ \A d \in Made' : made'[d] \in Kind
      /\ onMap' \subseteq Made'
      /\ type' \in [Drop -> 0..3]
  BY SpawnType
<1>3. at' \in [Thread -> Made' \cup {NoDrop}] /\ sweep' \in [Thread -> SUBSET Made']
  <2> DEFINE A == Made \cup {NoDrop}  B == Made' \cup {NoDrop}
  <2>1. A \subseteq B
    BY <1>2
  <2>2. at \in [Thread -> A] /\ sweep \in [Thread -> SUBSET Made]
    BY DEF TypeInv, TypeOK
  <2>3. at \in [Thread -> B]
    <3> HIDE DEF A, B
    <3> QED BY <2>1, <2>2
  <2>4. sweep \in [Thread -> SUBSET Made']
    <3> DEFINE C == Made'
    <3>1. Made \subseteq C
      BY <1>2
    <3> HIDE DEF C
    <3>2. sweep \in [Thread -> SUBSET C]
      BY <2>2, <3>1
    <3> QED BY <3>2 DEF C
  <2> QED BY <1>1, <2>3, <2>4
<1>4. TypeOK'
  BY <1>1, <1>2, <1>3 DEF TypeInv, TypeOK
<1>5. Busy'
  BY <1>1, <1>2 DEF TypeInv, Busy
<1> QED BY <1>4, <1>5 DEF TypeInv

LEMMA MakeDropType ==
    ASSUME MapItemAssumption, TypeInv, MakeDrop
    PROVE  TypeInv'
<1> USE ThreadFacts
<1>0. mapOf \in [Char -> Map] /\ pending \in [Map -> Nat]
  BY DEF TypeInv, TypeOK
<1>1. CASE \E m \in Map, c \in Char, t \in MobTypes, x \in Amounts \cup {0} : MobDrop(m, c, t, x)
  <2>1. PICK m \in Map, c \in Char, t \in MobTypes, x \in Amounts \cup {0} : MobDrop(m, c, t, x)
    BY <1>1
  <2>2. [owner |-> c, type |-> t, playerDrop |-> FALSE, meso |-> x,
         randDrop |-> FALSE, timed |-> TRUE] \in Kind
    BY DEF Kind, MapItemAssumption
  <2> QED BY <2>1, <2>2, <1>0, SpawnKeeps DEF MobDrop
<1>2. CASE \E c \in Char : DropItem(c)
  <2>1. PICK c \in Char : DropItem(c)
    BY <1>2
  <2>2. [owner |-> c, type |-> 2, playerDrop |-> TRUE, meso |-> 0,
         randDrop |-> FALSE, timed |-> mapOf[c] \notin Everlast] \in Kind
    BY DEF Kind
  <2>3. mapOf[c] \in Map
    BY <1>0
  <2> QED BY <2>1, <2>2, <2>3, <1>0, SpawnKeeps DEF DropItem
<1>3. CASE \E c \in Char, x \in Amounts : DropMeso(c, x)
  <2>1. PICK c \in Char, x \in Amounts : DropMeso(c, x)
    BY <1>3
  <2>2. [owner |-> c, type |-> 0, playerDrop |-> TRUE, meso |-> x,
         randDrop |-> FALSE, timed |-> mapOf[c] \notin Everlast] \in Kind
    BY DEF Kind
  <2>3. mapOf[c] \in Map
    BY <1>0
  <2> QED BY <2>1, <2>2, <2>3, <1>0, SpawnKeeps DEF DropMeso
<1>5. CASE \E m \in Map : MobAutoDrop(m)
  <2>1. PICK m \in Map : MobAutoDrop(m)
    BY <1>5
  <2>2. [owner |-> NoOne, type |-> 2, playerDrop |-> FALSE, meso |-> 0,
         randDrop |-> TRUE, timed |-> TRUE] \in Kind
    BY DEF Kind
  <2> QED BY <2>1, <2>2, <1>0, SpawnKeeps DEF MobAutoDrop, AutoDrop
<1>4. CASE \E m \in Map : RandDrop(m)
  <2>1. PICK m \in Map : RandDrop(m)
    BY <1>4
  <2>2. [owner |-> NoOne, type |-> 2, playerDrop |-> FALSE, meso |-> 0,
         randDrop |-> TRUE, timed |-> TRUE] \in Kind
    BY DEF Kind
  <2>3. pending' \in [Map -> Nat]
    BY <2>1, <1>0 DEF RandDrop
  <2> QED BY <2>1, <2>2, <2>3, SpawnKeeps DEF RandDrop, AutoDrop
<1> QED BY <1>1, <1>2, <1>3, <1>4, <1>5 DEF MakeDrop

\* Giving up changes a thread to one that holds nothing and works on nothing.
LEMMA LeaveType ==
    ASSUME MapItemAssumption, TypeInv, NEW t \in Thread, Leave(t), UNCHANGED made
    PROVE  /\ stage' \in [Thread -> Stage]
           /\ how' \in [Thread -> Ways \cup {"hand"}]
           /\ at' \in [Thread -> Made' \cup {NoDrop}]
           /\ lock' \in [Drop -> Char \cup {NoOne}]
           /\ Busy'
BY DEF Stage, Leave, TypeInv, TypeOK, Busy, Made

\* A drop is worth a number of meso, none if it is a stack.
LEMMA HeapNat ==
    ASSUME MapItemAssumption, TypeInv, NEW d \in Made
    PROVE  made[d].meso \in Nat
<1>1. made[d] \in Kind
  BY DEF TypeInv, TypeOK
<1>2. made[d].meso \in Amounts \cup {0}
  BY <1>1 DEF Kind
<1>3. Amounts \subseteq Nat
  BY DEF MapItemAssumption
<1>4. \A y \in Amounts \cup {0} : y \in Nat
  BY <1>3
<1> QED BY <1>2, <1>4

LEMMA PickingType ==
    ASSUME MapItemAssumption, TypeInv, NEW c \in Char, Picking(c)
    PROVE  TypeInv'
<1> USE ThreadFacts
<1>0. Made' = Made /\ UNCHANGED made
  <2>1. CASE Enter(c) \/ Refuse(c) \/ Grant(c)
    BY <2>1 DEF Enter, Refuse, Grant, dropVars, Made
  <2>2. CASE Explode(c) \/ ExplodeDone(c)
    BY <2>2 DEF Explode, ExplodeDone, Made
  <2> QED BY <2>1, <2>2 DEF Picking
<1>1. CASE Enter(c)
  <2>1. UNCHANGED <<dropVars, sweep, mapOf, leaver, pending, historyVars>>
    BY <1>1 DEF Enter
  <2>2. CASE Leave(c)
    BY <1>0, <2>1, <2>2, LeaveType DEF TypeInv, TypeOK, dropVars, historyVars
  <2>3. CASE ~ Leave(c)
    BY <1>0, <1>1, <2>1, <2>3 DEF Stage, Enter, TypeInv, TypeOK, Busy, dropVars, historyVars
  <2> QED BY <2>2, <2>3
<1>2. CASE Refuse(c)
  BY <1>0, <1>2, LeaveType DEF Refuse, TypeInv, TypeOK, dropVars, historyVars
<1>3. CASE Grant(c)
  <2> DEFINE d == at[c]  x == made[d].meso
  <2>0. d \in Made /\ d \in Drop
    BY <1>3 DEF Grant, TypeInv, TypeOK, Busy
  <2>1. x \in Nat
    BY <2>0, HeapNat
  <2>2. Payout(c, x) \in Nat
    BY <2>0, <2>1, PayoutNat DEF TypeInv
  <2> HIDE DEF x
  <2>3. (IF PartyOf[c] # {} /\ made[d].owner # c THEN Payout(c, x) ELSE x) \in Nat
    BY <2>1, <2>2
  <2>4. grants' \in [Drop -> Nat] /\ paid' \in [Drop -> Nat]
    <3>1. grants' = [grants EXCEPT ![d] = @ + 1]
      BY <1>3 DEF Grant
    <3>2. paid' = [paid EXCEPT ![d] =
             @ + IF PartyOf[c] # {} /\ made[d].owner # c THEN Payout(c, x) ELSE x]
      BY <1>3 DEF Grant, x
    <3> QED BY <2>0, <2>3, <3>1, <3>2 DEF TypeInv, TypeOK
  <2> QED BY <1>0, <1>3, <2>4 DEF Stage, Grant, TypeInv, TypeOK, Busy, dropVars
<1>4. CASE Explode(c)
  <2>1. UNCHANGED <<made, pickedUp, type, age, sweep, mapOf, leaver, pending, grants,
                    paid, strayed>>
    BY <1>4 DEF Explode, historyVars
  <2>2. onMap' \subseteq Made'
    BY <1>0, <1>4 DEF Explode, TypeInv, TypeOK
  <2>3. CASE IsPickedUp(at[c])
    <3>1. Leave(c)
      BY <1>4, <2>3 DEF Explode
    <3> QED BY <1>0, <2>1, <2>2, <3>1, LeaveType DEF TypeInv, TypeOK
  <2>4. CASE ~ IsPickedUp(at[c])
    <3>1. /\ stage[c] = "found"
          /\ stage' = [stage EXCEPT ![c] = "blown"]
          /\ lock' = [lock EXCEPT ![at[c]] = c]
          /\ UNCHANGED <<how, at>>
      BY <1>4, <2>4 DEF Explode
    <3> QED BY <1>0, <2>1, <2>2, <3>1 DEF Stage, TypeInv, TypeOK, Busy
  <2> QED BY <2>3, <2>4
<1>5. CASE ExplodeDone(c)
  BY <1>0, <1>5, LeaveType DEF PickUp, ExplodeDone, TypeInv, TypeOK, historyVars
<1> QED BY <1>1, <1>2, <1>3, <1>4, <1>5 DEF Picking

LEMMA EndingType ==
    ASSUME MapItemAssumption, TypeInv, NEW t \in Thread, Ending(t)
    PROVE  TypeInv'
<1>0. Made' = Made /\ UNCHANGED made
  BY DEF Ending, Mark, Remove, Refill, dropVars, Made
<1>1. CASE Mark(t)
  BY <1>0, <1>1 DEF Stage, PickUp, Mark, TypeInv, TypeOK, Busy, historyVars
<1>2. CASE Remove(t)
  BY <1>0, <1>2 DEF Stage, Remove, TypeInv, TypeOK, Busy, historyVars
<1>3. CASE Refill(t)
  <2>1. pending' \in [Map -> Nat]
    <3>1. \A n \in Nat : n + (IF Asks(t) THEN 1 ELSE 0) \in Nat
      OBVIOUS
    <3>2. pending' = [pending EXCEPT ![MapHandled(t)] = @ + IF Asks(t) THEN 1 ELSE 0]
      BY <1>3 DEF Refill
    <3> QED BY <3>1, <3>2 DEF TypeInv, TypeOK
  <2> QED
    BY <1>0, <1>3, <2>1, LeaveType DEF Refill, TypeInv, TypeOK, dropVars, historyVars
<1> QED BY <1>1, <1>2, <1>3 DEF Ending

\* Every step of every thread keeps the types.
LEMMA TypeStep ==
    ASSUME MapItemAssumption, TypeInv, [Next]_vars
    PROVE  TypeInv'
<1> USE ThreadFacts
<1>1. CASE MakeDrop
  BY <1>1, MakeDropType
<1>2. CASE \E d \in Drop : Age(d)
  BY <1>2 DEF Age, TypeInv, TypeOK, Busy, Made, threadVars, historyVars
<1>3. CASE \E c \in Char, d \in Drop, h \in Ways : Look(c, d, h)
  BY <1>3 DEF Stage, Look, TypeInv, TypeOK, Busy, Made, dropVars, historyVars
<1>4. CASE \E c \in Char : Picking(c)
  BY <1>4, PickingType
<1>5. CASE \E t \in Thread : Ending(t)
  BY <1>5, EndingType
<1>6. CASE \E t \in Clearer \cup {Worker}, m \in Map : Snapshot(t, m)
  BY <1>6 DEF Snapshot, TypeInv, TypeOK, Busy, Made, dropVars, historyVars
<1>7. CASE WorkerGoesOn
  <2>1. PICK d \in Drop : WorkerVisits(d)
    BY <1>7 DEF WorkerGoesOn
  <2>2. d \in Made
    BY <2>1 DEF WorkerVisits, Next1, TypeInv, TypeOK
  <2>3. type' \in [Drop -> 0..3]
    BY <2>1 DEF WorkerVisits, TypeInv, TypeOK
  <2> QED BY <2>1, <2>2, <2>3 DEF Stage, WorkerVisits, StartLeaving, Next1, TypeInv, TypeOK,
             Busy, Made, historyVars
<1>8. CASE \E t \in Clearer : ClearerGoesOn(t)
  BY <1>8 DEF Stage, ClearerGoesOn, ClearerVisits, StartLeaving, Next1, TypeInv, TypeOK, Busy,
     Made, dropVars, historyVars
<1>9. CASE MoverGoesOn
  <2>1. CASE ReturnGrant
    <3>1. at[Mover] \in Made
      BY <2>1 DEF ReturnGrant, TypeInv, Busy
    <3>2. made[at[Mover]].meso \in Nat
      BY <3>1, HeapNat
    <3>3. grants' \in [Drop -> Nat] /\ paid' \in [Drop -> Nat]
      BY <2>1, <3>1, <3>2 DEF ReturnGrant, TypeInv, TypeOK
    <3> QED BY <2>1, <3>1, <3>3 DEF Stage, ReturnGrant, TypeInv, TypeOK, Busy, Made, dropVars
  <2>2. CASE \E d \in Drop : Return(d)
    BY <2>2 DEF Stage, PickUp, Return, Next1, TypeInv, TypeOK, Busy, Made, historyVars
  <2> QED BY <1>9, <2>1, <2>2 DEF MoverGoesOn
<1>10. CASE \E c \in Char : Depart(c)
  BY <1>10 DEF Depart, TypeInv, TypeOK, Busy, Made, dropVars, historyVars
<1>11. CASE \E m \in Map : Arrive(m)
  BY <1>11 DEF Arrive, TypeInv, TypeOK, Busy, Made, dropVars, threadVars
<1>12. CASE UNCHANGED vars
  BY <1>12 DEF vars, TypeInv, TypeOK, Busy, Made, dropVars, threadVars, historyVars
<1> QED BY <1>1, <1>2, <1>3, <1>4, <1>5, <1>6, <1>7, <1>8, <1>9, <1>10, <1>11, <1>12 DEF Next

LEMMA TypeStart ==
    ASSUME MapItemAssumption, Init
    PROVE  TypeInv
<1> USE ThreadFacts
<1>1. Made = {}
  BY DEF Init, Made
<1>2. Busy
  BY DEF Init, Busy
<1>3. mapOf \in [Char -> Map]
  BY DEF Init, MapItemAssumption
<1>4. sweep \in [Thread -> SUBSET Made] /\ at \in [Thread -> Made \cup {NoDrop}]
  BY <1>1 DEF Init
<1>5. pending \in [Map -> Nat]
  BY DEF Init
<1>6. stage \in [Thread -> Stage]
  BY DEF Stage, Init
<1>7. \A d \in Made : made[d] \in Kind
  BY <1>1
<1>8. /\ pickedUp \in [Drop -> BOOLEAN] /\ type \in [Drop -> 0..3]
      /\ age \in [Drop -> 0..2] /\ lock \in [Drop -> Char \cup {NoOne}]
      /\ grants \in [Drop -> Nat] /\ paid \in [Drop -> Nat]
      /\ how \in [Thread -> Ways \cup {"hand"}]
  BY DEF Init
<1>9. TypeOK
  BY <1>1, <1>3, <1>4, <1>5, <1>6, <1>7, <1>8 DEF Init, TypeOK
<1> QED BY <1>2, <1>9 DEF TypeInv

\* Every field of a drop and every thread's position stays in range, and a
\* thread in the middle of a handler works on a drop that exists.
THEOREM MapItemTypes == Spec => []TypeOK
<1> USE MapItemAssumption
<1>1. Spec => []TypeInv
  BY TypeStart, TypeStep, PTL DEF Spec
<1> QED BY <1>1, PTL DEF TypeInv

-----------------------------------------------------------------------------
(* Handed out at most once.  isPickedUp is read under the lock of the drop  *)
(* and set under it by whoever hands it out; the threads without the lock   *)
(* only ever set it, and the one that hands out without it works on the     *)
(* drops of everlast maps alone.                                            *)

Holding == {"entered", "leaving", "marked", "removed", "blown"}

LocksHeld == \A c \in Char : stage[c] \in Holding => lock[at[c]] = c

MoverAtHome ==
    /\ \A d \in sweep[Mover] : MapOfDrop(d) \in Everlast
    /\ stage[Mover] = "returning" => MapOfDrop(at[Mover]) \in Everlast

HandedOut(d) ==
    /\ grants[d] <= 1
    /\ \A c \in Char : stage[c] = "entered" /\ at[c] = d => grants[d] = 0
    /\ grants[d] = 1 =>
          pickedUp[d] \/ \E c \in Char : stage[c] = "leaving" /\ at[c] = d

AllHandedOut == \A d \in Drop : MapOfDrop(d) \notin Everlast => HandedOut(d)

OnceInv == TypeInv /\ LocksHeld /\ MoverAtHome /\ AllHandedOut

\* A step that leaves the characters' handlers and the locks alone, and hands
\* out nothing but on everlast maps, and takes no pickedUp back.
LEMMA OthersKeepOnce ==
    ASSUME MapItemAssumption, OnceInv, TypeInv', MoverAtHome',
           \A c \in Char : stage'[c] = stage[c] /\ at'[c] = at[c],
           UNCHANGED lock,
           \A d \in Drop : pickedUp[d] => pickedUp'[d],
           \A d \in Drop : MapOfDrop(d) \notin Everlast => grants'[d] = grants[d]
    PROVE  OnceInv'
<1>1. LocksHeld'
  BY DEF OnceInv, LocksHeld
<1>2. AllHandedOut'
  <2> SUFFICES ASSUME NEW d \in Drop, MapOfDrop(d) \notin Everlast
               PROVE  HandedOut(d)'
    BY DEF AllHandedOut
  <2>1. HandedOut(d)
    BY DEF OnceInv, AllHandedOut
  <2> QED BY <2>1 DEF HandedOut
<1> QED BY <1>1, <1>2 DEF OnceInv

\* A handler that ends without having handed anything out just now.
LEMMA LeaveKeepsOnce ==
    ASSUME MapItemAssumption, OnceInv, TypeInv', NEW c \in Char, Leave(c),
           stage[c] # "leaving", UNCHANGED <<sweep, grants>>,
           \A d \in Drop : pickedUp[d] => pickedUp'[d]
    PROVE  OnceInv'
<1> USE ThreadFacts
<1>0. /\ stage \in [Thread -> Stage] /\ at \in [Thread -> Made \cup {NoDrop}]
      /\ lock \in [Drop -> Char \cup {NoOne}] /\ Made \subseteq Drop
  BY DEF OnceInv, TypeInv, TypeOK
<1>1. /\ stage'[c] = "idle"
      /\ \A t \in Thread : t # c => stage'[t] = stage[t] /\ at'[t] = at[t]
      /\ \A d \in Drop : lock[d] # c => lock'[d] = lock[d]
  BY <1>0 DEF Leave
<1>2. LocksHeld'
  <2> SUFFICES ASSUME NEW e \in Char, stage'[e] \in Holding
               PROVE  lock'[at'[e]] = e
    BY DEF LocksHeld
  <2>1. e # c
    BY <1>1 DEF Holding
  <2>2. at[e] \in Drop
    BY <1>0, <1>1, <2>1 DEF OnceInv, TypeInv, Busy, Holding
  <2> QED BY <1>1, <2>1, <2>2 DEF OnceInv, LocksHeld
<1>3. MoverAtHome'
  BY <1>1 DEF OnceInv, MoverAtHome
<1>4. AllHandedOut'
  <2> SUFFICES ASSUME NEW d \in Drop, MapOfDrop(d) \notin Everlast
               PROVE  HandedOut(d)'
    BY DEF AllHandedOut
  <2>1. HandedOut(d)
    BY DEF OnceInv, AllHandedOut
  <2> QED BY <1>1, <2>1 DEF HandedOut
<1> QED BY <1>2, <1>3, <1>4 DEF OnceInv

\* A handler that gets the lock of a drop nobody has picked up is the only one
\* that can hand it out, and nobody has.
LEMMA EnterKeepsOnce ==
    ASSUME MapItemAssumption, OnceInv, TypeInv', NEW c \in Char, Enter(c)
    PROVE  OnceInv'
<1> USE ThreadFacts
<1> DEFINE d == at[c]
<1>1. CASE Leave(c)
  BY <1>1, LeaveKeepsOnce DEF Enter, dropVars, historyVars
<1>2. CASE ~ Leave(c)
  <2>1. /\ stage[c] = "found" /\ lock[d] = NoOne /\ ~ pickedUp[d]
        /\ stage' = [stage EXCEPT ![c] = "entered"]
        /\ lock' = [lock EXCEPT ![d] = c]
        /\ UNCHANGED <<how, at, sweep, grants, pickedUp>>
    BY <1>2 DEF Enter, IsPickedUp, dropVars, historyVars
  <2>2. /\ stage \in [Thread -> Stage] /\ at \in [Thread -> Made \cup {NoDrop}]
        /\ lock \in [Drop -> Char \cup {NoOne}] /\ Made \subseteq Drop
        /\ grants \in [Drop -> Nat]
    BY DEF OnceInv, TypeInv, TypeOK
  <2>3. d \in Drop
    BY <2>1, <2>2 DEF OnceInv, TypeInv, Busy
  <2>4. \A e \in Char : stage[e] \in Holding => at[e] # d
    BY <2>1 DEF OnceInv, LocksHeld
  <2>5. LocksHeld'
    <3> SUFFICES ASSUME NEW e \in Char, stage'[e] \in Holding
                 PROVE  lock'[at'[e]] = e
      BY DEF LocksHeld
    <3>1. CASE e = c
      BY <2>1, <2>2, <2>3, <3>1
    <3>2. CASE e # c
      <4>1. stage[e] \in Holding /\ at[e] \in Drop /\ at[e] # d
        BY <2>1, <2>2, <2>4, <3>2 DEF OnceInv, TypeInv, Busy, Holding
      <4> QED BY <2>1, <2>2, <2>3, <4>1 DEF OnceInv, LocksHeld
    <3> QED BY <3>1, <3>2
  <2>6. MoverAtHome'
    BY <2>1, <2>2 DEF OnceInv, MoverAtHome
  <2>7. AllHandedOut'
    <3> SUFFICES ASSUME NEW x \in Drop, MapOfDrop(x) \notin Everlast
                 PROVE  HandedOut(x)'
      BY DEF AllHandedOut
    <3>1. HandedOut(x)
      BY DEF OnceInv, AllHandedOut
    <3>2. x = d => grants[x] = 0
      BY <2>1, <2>2, <2>4, <3>1 DEF HandedOut, Holding
    <3> QED BY <2>1, <2>2, <3>1, <3>2 DEF HandedOut
  <2> QED BY <2>5, <2>6, <2>7 DEF OnceInv
<1> QED BY <1>1, <1>2

LEMMA GrantKeepsOnce ==
    ASSUME MapItemAssumption, OnceInv, TypeInv', NEW c \in Char, Grant(c)
    PROVE  OnceInv'
<1> USE ThreadFacts
<1> DEFINE d == at[c]
<1>1. /\ stage[c] = "entered"
      /\ stage' = [stage EXCEPT ![c] = "leaving"]
      /\ grants' = [grants EXCEPT ![d] = @ + 1]
      /\ UNCHANGED <<lock, at, sweep, pickedUp>>
  BY DEF Grant, dropVars
<1>2. /\ stage \in [Thread -> Stage] /\ at \in [Thread -> Made \cup {NoDrop}]
      /\ Made \subseteq Drop /\ grants \in [Drop -> Nat]
  BY DEF OnceInv, TypeInv, TypeOK
<1>3. d \in Drop
  BY <1>1, <1>2 DEF OnceInv, TypeInv, Busy
<1>4. \A e \in Char : stage[e] \in Holding /\ at[e] = d => e = c
  BY <1>1 DEF OnceInv, LocksHeld, Holding
<1>5. LocksHeld'
  BY <1>1, <1>2 DEF OnceInv, LocksHeld, Holding
<1>6. MoverAtHome'
  BY <1>1, <1>2 DEF OnceInv, MoverAtHome
<1>7. AllHandedOut'
  <2> SUFFICES ASSUME NEW x \in Drop, MapOfDrop(x) \notin Everlast
               PROVE  HandedOut(x)'
    BY DEF AllHandedOut
  <2>1. HandedOut(x)
    BY DEF OnceInv, AllHandedOut
  <2>2. CASE x = d
    <3>1. grants[x] = 0 /\ grants'[x] = 1
      BY <1>1, <1>2, <2>1, <2>2 DEF HandedOut
    <3>2. stage'[c] = "leaving" /\ at'[c] = x
      BY <1>1, <1>2, <2>2
    <3>3. \A e \in Char : stage'[e] = "entered" => at'[e] # x
      BY <1>1, <1>2, <1>4, <2>2 DEF Holding
    <3> QED BY <3>1, <3>2, <3>3 DEF HandedOut
  <2>3. CASE x # d
    BY <1>1, <1>2, <2>1, <2>3 DEF HandedOut
  <2> QED BY <2>2, <2>3
<1> QED BY <1>5, <1>6, <1>7 DEF OnceInv

LEMMA ExplodeKeepsOnce ==
    ASSUME MapItemAssumption, OnceInv, TypeInv', NEW c \in Char,
           Explode(c) \/ ExplodeDone(c)
    PROVE  OnceInv'
<1> USE ThreadFacts
<1> DEFINE d == at[c]
<1>0. /\ stage \in [Thread -> Stage] /\ at \in [Thread -> Made \cup {NoDrop}]
      /\ lock \in [Drop -> Char \cup {NoOne}] /\ Made \subseteq Drop
      /\ pickedUp \in [Drop -> BOOLEAN]
  BY DEF OnceInv, TypeInv, TypeOK
<1>1. CASE ExplodeDone(c)
  <2>1. /\ stage[c] = "blown" /\ Leave(c) /\ UNCHANGED <<sweep, grants>>
        /\ pickedUp' = [pickedUp EXCEPT ![d] = TRUE]
    BY <1>1 DEF ExplodeDone, PickUp, historyVars
  <2>2. \A x \in Drop : pickedUp[x] => pickedUp'[x]
    BY <1>0, <2>1
  <2> QED BY <2>1, <2>2, LeaveKeepsOnce
<1>2. CASE Explode(c) /\ IsPickedUp(d)
  <2>1. stage[c] = "found" /\ Leave(c) /\ UNCHANGED <<sweep, grants, pickedUp>>
    BY <1>2 DEF Explode, historyVars
  <2> QED BY <2>1, LeaveKeepsOnce
<1>3. CASE Explode(c) /\ ~ IsPickedUp(d)
  <2>1. /\ stage[c] = "found" /\ lock[d] = NoOne
        /\ stage' = [stage EXCEPT ![c] = "blown"]
        /\ lock' = [lock EXCEPT ![d] = c]
        /\ UNCHANGED <<at, sweep, grants, pickedUp>>
    BY <1>3 DEF Explode, historyVars
  <2>2. d \in Drop
    BY <1>0, <2>1 DEF OnceInv, TypeInv, Busy
  <2>3. LocksHeld'
    <3> SUFFICES ASSUME NEW e \in Char, stage'[e] \in Holding
                 PROVE  lock'[at'[e]] = e
      BY DEF LocksHeld
    <3>1. CASE e = c
      BY <1>0, <2>1, <2>2, <3>1
    <3>2. CASE e # c
      <4>1. stage[e] \in Holding /\ at[e] \in Drop /\ lock[at[e]] = e
        BY <1>0, <2>1, <3>2 DEF OnceInv, LocksHeld, TypeInv, Busy, Holding
      <4> QED BY <1>0, <2>1, <2>2, <4>1
    <3> QED BY <3>1, <3>2
  <2>4. MoverAtHome'
    BY <1>0, <2>1 DEF OnceInv, MoverAtHome
  <2>5. AllHandedOut'
    <3> SUFFICES ASSUME NEW x \in Drop, MapOfDrop(x) \notin Everlast
                 PROVE  HandedOut(x)'
      BY DEF AllHandedOut
    <3>1. HandedOut(x)
      BY DEF OnceInv, AllHandedOut
    <3> QED BY <1>0, <2>1, <3>1 DEF HandedOut
  <2> QED BY <2>3, <2>4, <2>5 DEF OnceInv
<1> QED BY <1>1, <1>2, <1>3

LEMMA EndingKeepsOnce ==
    ASSUME MapItemAssumption, OnceInv, TypeInv', NEW t \in Thread, Ending(t)
    PROVE  OnceInv'
<1> USE ThreadFacts
<1> DEFINE d == at[t]
<1>0. /\ stage \in [Thread -> Stage] /\ at \in [Thread -> Made \cup {NoDrop}]
      /\ Made \subseteq Drop /\ pickedUp \in [Drop -> BOOLEAN]
  BY DEF OnceInv, TypeInv, TypeOK
<1>1. CASE Mark(t)
  <2>1. /\ stage[t] = "leaving"
        /\ stage' = [stage EXCEPT ![t] = "marked"]
        /\ pickedUp' = [pickedUp EXCEPT ![d] = TRUE]
        /\ UNCHANGED <<lock, at, sweep, grants>>
    BY <1>1 DEF Mark, PickUp, historyVars
  <2>2. d \in Drop
    BY <1>0, <2>1 DEF OnceInv, TypeInv, Busy
  <2>3. LocksHeld'
    BY <1>0, <2>1 DEF OnceInv, LocksHeld, Holding
  <2>4. MoverAtHome'
    BY <1>0, <2>1 DEF OnceInv, MoverAtHome
  <2>5. AllHandedOut'
    <3> SUFFICES ASSUME NEW x \in Drop, MapOfDrop(x) \notin Everlast
                 PROVE  HandedOut(x)'
      BY DEF AllHandedOut
    <3>1. HandedOut(x)
      BY DEF OnceInv, AllHandedOut
    <3>2. CASE x = d
      BY <1>0, <2>1, <2>2, <3>1, <3>2 DEF HandedOut
    <3>3. CASE x # d
      BY <1>0, <2>1, <2>2, <3>1, <3>3 DEF HandedOut
    <3> QED BY <3>2, <3>3
  <2> QED BY <2>3, <2>4, <2>5 DEF OnceInv
<1>2. CASE Remove(t)
  <2>1. /\ stage[t] = "marked"
        /\ stage' = [stage EXCEPT ![t] = "removed"]
        /\ UNCHANGED <<lock, at, sweep, grants, pickedUp>>
    BY <1>2 DEF Remove, historyVars
  <2>2. LocksHeld'
    BY <1>0, <2>1 DEF OnceInv, LocksHeld, Holding
  <2>3. MoverAtHome'
    BY <1>0, <2>1 DEF OnceInv, MoverAtHome
  <2>4. AllHandedOut'
    <3> SUFFICES ASSUME NEW x \in Drop, MapOfDrop(x) \notin Everlast
                 PROVE  HandedOut(x)'
      BY DEF AllHandedOut
    <3>1. HandedOut(x)
      BY DEF OnceInv, AllHandedOut
    <3> QED BY <1>0, <2>1, <3>1 DEF HandedOut
  <2> QED BY <2>2, <2>3, <2>4 DEF OnceInv
<1>3. CASE Refill(t)
  <2>1. stage[t] = "removed" /\ Leave(t) /\ UNCHANGED <<sweep, grants, pickedUp>>
    BY <1>3 DEF Refill, dropVars, historyVars
  <2>2. CASE t \in Char
    BY <2>1, <2>2, LeaveKeepsOnce
  <2>3. CASE t \notin Char
    <3>1. \A c \in Char : stage'[c] = stage[c] /\ at'[c] = at[c]
      BY <1>0, <2>1, <2>3 DEF Leave
    <3>2. lock' = lock
      <4>1. lock \in [Drop -> Char \cup {NoOne}]
        BY DEF OnceInv, TypeInv, TypeOK
      <4>2. \A x \in Drop : lock[x] # t
        BY <4>1, <2>3 DEF MapItemAssumption
      <4> QED BY <2>1, <4>1, <4>2 DEF Leave
    <3>3. MoverAtHome'
      BY <1>0, <2>1 DEF OnceInv, MoverAtHome, Leave
    <3> QED BY <2>1, <3>1, <3>2, <3>3, OthersKeepOnce
  <2> QED BY <2>2, <2>3
<1> QED BY <1>1, <1>2, <1>3 DEF Ending

\* Nobody who works through a snapshot hands out a drop of an ordinary map.
LEMMA SweepersKeepOnce ==
    ASSUME MapItemAssumption, OnceInv, TypeInv',
           \/ \E t \in Clearer \cup {Worker}, m \in Map : Snapshot(t, m)
           \/ WorkerGoesOn \/ MoverGoesOn
           \/ \E t \in Clearer : ClearerGoesOn(t)
           \/ \E c \in Char : Depart(c)
    PROVE  OnceInv'
<1> USE ThreadFacts
<1>0. /\ stage \in [Thread -> Stage] /\ at \in [Thread -> Made \cup {NoDrop}]
      /\ sweep \in [Thread -> SUBSET Made] /\ Made \subseteq Drop
      /\ pickedUp \in [Drop -> BOOLEAN] /\ grants \in [Drop -> Nat]
      /\ Mover \notin Clearer \cup {Worker}
  BY DEF OnceInv, TypeInv, TypeOK, MapItemAssumption
<1>1. MoverAtHome
  BY DEF OnceInv
<1>2. ASSUME NEW t \in Clearer \cup {Worker}, NEW m \in Map, Snapshot(t, m)
      PROVE  OnceInv'
  <2>1. MoverAtHome'
    BY <1>0, <1>1, <1>2 DEF Snapshot, MoverAtHome
  <2> QED BY <1>2, <2>1, OthersKeepOnce DEF Snapshot, dropVars, historyVars
<1>3. ASSUME NEW d \in Drop, WorkerVisits(d)
      PROVE  OnceInv'
  <2>1. MoverAtHome'
    BY <1>0, <1>1, <1>3 DEF WorkerVisits, Next1, StartLeaving, MoverAtHome
  <2>2. \A c \in Char : stage'[c] = stage[c] /\ at'[c] = at[c]
    BY <1>0, <1>3 DEF WorkerVisits, StartLeaving
  <2>3. UNCHANGED <<lock, pickedUp, grants>>
    BY <1>3 DEF WorkerVisits, historyVars
  <2> QED BY <2>1, <2>2, <2>3, OthersKeepOnce
<1>4. ASSUME NEW t \in Clearer, NEW d \in Drop, ClearerVisits(t, d)
      PROVE  OnceInv'
  <2>1. MoverAtHome'
    BY <1>0, <1>1, <1>4 DEF ClearerVisits, Next1, StartLeaving, MoverAtHome
  <2>2. \A c \in Char : stage'[c] = stage[c] /\ at'[c] = at[c]
    BY <1>0, <1>4 DEF ClearerVisits, StartLeaving
  <2>3. UNCHANGED <<lock, pickedUp, grants>>
    BY <1>4 DEF ClearerVisits, dropVars, historyVars
  <2> QED BY <2>1, <2>2, <2>3, OthersKeepOnce
<1>5. ASSUME NEW d \in Drop, Return(d)
      PROVE  OnceInv'
  <2>1. d \in sweep[Mover] /\ MapOfDrop(d) \in Everlast
    BY <1>1, <1>5 DEF Return, Next1, MoverAtHome
  <2>2. MoverAtHome'
    BY <1>0, <1>1, <1>5, <2>1 DEF Return, Next1, MoverAtHome
  <2>3. \A c \in Char : stage'[c] = stage[c] /\ at'[c] = at[c]
    BY <1>0, <1>5 DEF Return
  <2>4. UNCHANGED <<lock, grants>>
    BY <1>5 DEF Return, historyVars
  <2>5. \A x \in Drop : pickedUp[x] => pickedUp'[x]
    BY <1>0, <1>5 DEF Return, PickUp
  <2> QED BY <2>2, <2>3, <2>4, <2>5, OthersKeepOnce
<1>6. ASSUME ReturnGrant
      PROVE  OnceInv'
  <2>1. MapOfDrop(at[Mover]) \in Everlast
    BY <1>1, <1>6 DEF ReturnGrant, MoverAtHome
  <2>2. MoverAtHome'
    BY <1>0, <1>1, <1>6 DEF ReturnGrant, MoverAtHome
  <2>3. \A c \in Char : stage'[c] = stage[c] /\ at'[c] = at[c]
    BY <1>0, <1>6 DEF ReturnGrant
  <2>4. UNCHANGED <<lock, pickedUp>>
    BY <1>6 DEF ReturnGrant, dropVars
  <2>5. \A x \in Drop : MapOfDrop(x) \notin Everlast => grants'[x] = grants[x]
    BY <1>0, <1>6, <2>1 DEF ReturnGrant
  <2> QED BY <2>2, <2>3, <2>4, <2>5, OthersKeepOnce
<1>7. ASSUME NEW c \in Char, Depart(c)
      PROVE  OnceInv'
  <2>1. /\ sweep' = [sweep EXCEPT ![Mover] =
              IF mapOf[c] \in Everlast
              THEN {d \in onMap : MapOfDrop(d) = mapOf[c] /\ made[d].owner = c}
              ELSE {}]
        /\ UNCHANGED <<stage, at, lock, pickedUp, grants>>
    BY <1>7 DEF Depart, dropVars, historyVars
  <2>2. MoverAtHome'
    BY <1>0, <1>1, <2>1 DEF MoverAtHome
  <2> QED BY <2>1, <2>2, OthersKeepOnce
<1> QED BY <1>2, <1>3, <1>4, <1>5, <1>6, <1>7
        DEF WorkerGoesOn, ClearerGoesOn, MoverGoesOn

LEMMA MakeDropKeepsOnce ==
    ASSUME MapItemAssumption, OnceInv, TypeInv', MakeDrop
    PROVE  OnceInv'
<1>1. UNCHANGED <<pickedUp, lock, stage, at, sweep, grants>>
  BY DEF MakeDrop, MobDrop, DropItem, DropMeso, RandDrop, MobAutoDrop, AutoDrop, Spawn, threadVars, historyVars
<1>2. MoverAtHome'
  BY <1>1 DEF OnceInv, MoverAtHome
<1> QED BY <1>1, <1>2, OthersKeepOnce

LEMMA OnceStep ==
    ASSUME MapItemAssumption, OnceInv, [Next]_vars
    PROVE  OnceInv'
<1>0. TypeInv'
  BY TypeStep DEF OnceInv
<1>1. CASE MakeDrop
  BY <1>0, <1>1, MakeDropKeepsOnce
<1>2. CASE \E d \in Drop : Age(d)
  <2>1. UNCHANGED <<pickedUp, lock, stage, at, sweep, grants>>
    BY <1>2 DEF Age, threadVars, historyVars
  <2>2. MoverAtHome'
    BY <2>1 DEF OnceInv, MoverAtHome
  <2> QED BY <1>0, <2>1, <2>2, OthersKeepOnce
<1>3. CASE \E c \in Char, d \in Drop, h \in Ways : Look(c, d, h)
  <2>1. PICK c \in Char, d \in Drop, h \in Ways : Look(c, d, h)
    BY <1>3
  <2>2. /\ stage[c] = "idle"
        /\ stage' = [stage EXCEPT ![c] = "found"]
        /\ at' = [at EXCEPT ![c] = d]
        /\ UNCHANGED <<pickedUp, lock, sweep, grants>>
    BY <2>1 DEF Look, dropVars, historyVars
  <2>3. /\ stage \in [Thread -> Stage] /\ at \in [Thread -> Made \cup {NoDrop}]
    BY DEF OnceInv, TypeInv, TypeOK
  <2>4. LocksHeld'
    BY <2>2, <2>3, ThreadFacts DEF OnceInv, LocksHeld, Holding
  <2>5. MoverAtHome'
    BY <2>2, <2>3, ThreadFacts DEF OnceInv, MoverAtHome
  <2>6. AllHandedOut'
    <3> SUFFICES ASSUME NEW x \in Drop, MapOfDrop(x) \notin Everlast
                 PROVE  HandedOut(x)'
      BY DEF AllHandedOut
    <3>1. HandedOut(x)
      BY DEF OnceInv, AllHandedOut
    <3> QED BY <2>2, <2>3, <3>1, ThreadFacts DEF HandedOut
  <2> QED BY <1>0, <2>4, <2>5, <2>6 DEF OnceInv
<1>4. CASE \E c \in Char : Picking(c)
  <2>1. PICK c \in Char : Picking(c)
    BY <1>4
  <2>2. CASE Refuse(c)
    BY <1>0, <2>2, LeaveKeepsOnce DEF Refuse, dropVars, historyVars
  <2> QED BY <1>0, <2>1, <2>2, EnterKeepsOnce, GrantKeepsOnce, ExplodeKeepsOnce DEF Picking
<1>5. CASE \E t \in Thread : Ending(t)
  BY <1>0, <1>5, EndingKeepsOnce
<1>6. CASE \/ \E t \in Clearer \cup {Worker}, m \in Map : Snapshot(t, m)
           \/ WorkerGoesOn \/ MoverGoesOn
           \/ \E t \in Clearer : ClearerGoesOn(t)
           \/ \E c \in Char : Depart(c)
  BY <1>0, <1>6, SweepersKeepOnce
<1>7. CASE \E m \in Map : Arrive(m)
  <2>1. UNCHANGED <<pickedUp, lock, stage, at, sweep, grants>>
    BY <1>7 DEF Arrive, dropVars, threadVars
  <2>2. MoverAtHome'
    BY <2>1 DEF OnceInv, MoverAtHome
  <2> QED BY <1>0, <2>1, <2>2, OthersKeepOnce
<1>8. CASE UNCHANGED vars
  <2>1. UNCHANGED <<pickedUp, lock, stage, at, sweep, grants>>
    BY <1>8 DEF vars, dropVars, threadVars, historyVars
  <2>2. MoverAtHome'
    BY <2>1 DEF OnceInv, MoverAtHome
  <2> QED BY <1>0, <2>1, <2>2, OthersKeepOnce
<1> QED BY <1>1, <1>2, <1>3, <1>4, <1>5, <1>6, <1>7, <1>8 DEF Next

LEMMA OnceStart ==
    ASSUME MapItemAssumption, Init
    PROVE  OnceInv
<1>1. /\ \A t \in Thread : stage[t] = "idle" /\ sweep[t] = {}
      /\ \A d \in Drop : grants[d] = 0
  BY DEF Init
<1>2. LocksHeld /\ MoverAtHome /\ AllHandedOut
  BY <1>1, ThreadFacts DEF LocksHeld, MoverAtHome, AllHandedOut, HandedOut, Holding
<1> QED BY <1>2, TypeStart DEF OnceInv

\* However pick-ups by hand and by pet, explosions, expiry and clearing race,
\* a drop of an ordinary map is handed out at most once.
THEOREM HandedOutOnce == Spec => []GrantedOnce
<1> USE MapItemAssumption
<1>1. Spec => []OnceInv
  BY OnceStart, OnceStep, PTL DEF Spec
<1>2. OnceInv => GrantedOnce
  BY DEF OnceInv, AllHandedOut, HandedOut, GrantedOnce
<1> QED BY <1>1, <1>2, PTL
-----------------------------------------------------------------------------
(* What a heap pays.                                                        *)

PaidOnce ==
    \A d \in Drop :
        /\ d \notin Made => grants[d] = 0 /\ paid[d] = 0
        /\ MapOfDrop(d) \notin Everlast => (grants[d] = 0 => paid[d] = 0)

ShareInv == OnceInv /\ PaidOnce /\ SharesFit

\* Shares rounded down do not add up to more than what is shared.
LEMMA SharesOfAPart ==
    ASSUME NEW x \in Nat, NEW n \in Nat
    PROVE  n * SplitInto(x, n) <= Split(x)
<1>1. Split(x) \in Nat
  BY SplitBounds
<1>2. \A s \in Nat, k \in Nat \ {0} : k * (s \div k) <= s
  OBVIOUS
<1>3. CASE n = 0
  BY <1>1, <1>3 DEF SplitInto
<1>4. CASE n # 0
  BY <1>1, <1>2, <1>4 DEF SplitInto
<1> QED BY <1>3, <1>4

\* A pick-up pays the heap at most, and the twentieth for each with a bonus.
LEMMA PayoutFits ==
    ASSUME MapItemAssumption, NEW c \in Char, NEW x \in Nat
    PROVE  Payout(c, x) <= x + Cardinality(Bonus) * (x \div 20)
<1> DEFINE F == Fellows(c)
<1>1. IsFiniteSet(F) /\ IsFiniteSet(F \cap Bonus) /\ IsFiniteSet(Bonus)
  <2>1. F \subseteq PartyOf[c] /\ F \cap Bonus \subseteq Bonus
    BY DEF Fellows
  <2>2. IsFiniteSet(PartyOf[c]) /\ IsFiniteSet(Bonus)
    BY DEF MapItemAssumption
  <2> QED BY <2>1, <2>2, FS_Subset
<1>2. PICK n \in Nat : n = Cardinality(F)
  BY <1>1, FS_CardinalityType
<1>3. PICK k \in Nat : k = Cardinality(F \cap Bonus)
  BY <1>1, FS_CardinalityType
<1>4. PICK b \in Nat : b = Cardinality(Bonus)
  BY <1>1, FS_CardinalityType
<1>5. k <= b
  <2>1. F \cap Bonus \subseteq Bonus
    OBVIOUS
  <2> QED BY <1>1, <1>3, <1>4, <2>1, FS_Subset
<1>6. PICK y \in Nat : y = x \div 20
  OBVIOUS
<1>7. k * y <= b * y
  BY <1>5
<1>8. Split(x) \in Nat
  BY SplitBounds
<1>9. PICK z : z = n * SplitInto(x, n)
  OBVIOUS
<1>10. z \in Nat /\ z <= Split(x)
  <2>1. SplitInto(x, n) \in Nat
    BY <1>8 DEF SplitInto
  <2>2. z \in Nat
    BY <2>1, <1>9
  <2> QED BY <1>9, <2>2, SharesOfAPart
<1>11. k * y \in Int /\ b * y \in Int
  OBVIOUS
<1>12. Payout(c, x) = x - Split(x) + z + k * y
  BY <1>2, <1>3, <1>6, <1>9 DEF Payout
<1>13. x + Cardinality(Bonus) * (x \div 20) = x + b * y
  BY <1>4, <1>6
<1>14. \A i, j \in Int : i <= j => x - Split(x) + z + i <= x + j
  BY <1>8, <1>10
<1> QED BY <1>7, <1>11, <1>12, <1>13, <1>14

\* A new drop was never handed out, and the old ones stay what they are.
LEMMA SpawnEffect ==
    ASSUME MapItemAssumption, TypeInv, MakeDrop
    PROVE  \E d \in Drop, kind \in Kind :
              /\ d \notin Made
              /\ Made' = Made \cup {d}
              /\ made'[d] = kind
              /\ \A x \in Made : made'[x] = made[x]
              /\ onMap' = onMap \cup {d}
              /\ type' = [type EXCEPT ![d] = kind.type]
              /\ kind.randDrop => kind.meso = 0
              /\ \/ pending' = pending
                 \/ kind.randDrop /\ pending' = [pending EXCEPT ![MapOfDrop(d)] = @ - 1]
              /\ UNCHANGED <<pickedUp, age, lock, threadVars, mapOf, leaver, historyVars>>
<1>1. ASSUME NEW m \in Map, NEW kind \in Kind, Spawn(m, kind),
             kind.randDrop => kind.meso = 0,
             \/ pending' = pending
             \/ kind.randDrop /\ pending' = [pending EXCEPT ![m] = @ - 1]
      PROVE  \E d \in Drop, k \in Kind :
              /\ d \notin Made
              /\ Made' = Made \cup {d}
              /\ made'[d] = k
              /\ \A x \in Made : made'[x] = made[x]
              /\ onMap' = onMap \cup {d}
              /\ type' = [type EXCEPT ![d] = k.type]
              /\ k.randDrop => k.meso = 0
              /\ \/ pending' = pending
                 \/ k.randDrop /\ pending' = [pending EXCEPT ![MapOfDrop(d)] = @ - 1]
              /\ UNCHANGED <<pickedUp, age, lock, threadVars, mapOf, leaver, historyVars>>
  <2>1. PICK d \in {m} \X Oid :
          /\ d \notin Made
          /\ made' = [x \in Made \cup {d} |-> IF x = d THEN kind ELSE made[x]]
          /\ onMap' = onMap \cup {d}
          /\ type' = [type EXCEPT ![d] = kind.type]
    BY <1>1 DEF Spawn
  <2>2. d \in Drop /\ MapOfDrop(d) = m
    BY <2>1, DropFacts DEF MapOfDrop
  <2>3. Made' = Made \cup {d}
    BY <2>1 DEF Made
  <2>4. made'[d] = kind /\ \A x \in Made : made'[x] = made[x]
    BY <2>1
  <2>5. UNCHANGED <<pickedUp, age, lock, threadVars, mapOf, leaver, historyVars>>
    BY <1>1 DEF Spawn
  <2> QED BY <1>1, <2>1, <2>2, <2>3, <2>4, <2>5
<1>0. mapOf \in [Char -> Map]
  BY DEF TypeInv, TypeOK
<1>2. CASE \E m \in Map, c \in Char, t \in MobTypes, x \in Amounts \cup {0} : MobDrop(m, c, t, x)
  <2>1. PICK m \in Map, c \in Char, t \in MobTypes, x \in Amounts \cup {0} : MobDrop(m, c, t, x)
    BY <1>2
  <2>2. [owner |-> c, type |-> t, playerDrop |-> FALSE, meso |-> x,
         randDrop |-> FALSE, timed |-> TRUE] \in Kind
    BY DEF Kind, MapItemAssumption
  <2> QED BY <2>1, <2>2, <1>1 DEF MobDrop
<1>3. CASE \E c \in Char : DropItem(c)
  <2>1. PICK c \in Char : DropItem(c)
    BY <1>3
  <2>2. [owner |-> c, type |-> 2, playerDrop |-> TRUE, meso |-> 0,
         randDrop |-> FALSE, timed |-> mapOf[c] \notin Everlast] \in Kind
    BY DEF Kind
  <2> QED BY <2>1, <2>2, <1>0, <1>1 DEF DropItem
<1>4. CASE \E c \in Char, x \in Amounts : DropMeso(c, x)
  <2>1. PICK c \in Char, x \in Amounts : DropMeso(c, x)
    BY <1>4
  <2>2. [owner |-> c, type |-> 0, playerDrop |-> TRUE, meso |-> x,
         randDrop |-> FALSE, timed |-> mapOf[c] \notin Everlast] \in Kind
    BY DEF Kind
  <2> QED BY <2>1, <2>2, <1>0, <1>1 DEF DropMeso
<1>5. CASE \E m \in Map : RandDrop(m)
  <2>1. PICK m \in Map : RandDrop(m)
    BY <1>5
  <2>2. [owner |-> NoOne, type |-> 2, playerDrop |-> FALSE, meso |-> 0,
         randDrop |-> TRUE, timed |-> TRUE] \in Kind
    BY DEF Kind
  <2> QED BY <2>1, <2>2, <1>1 DEF RandDrop, AutoDrop
<1>6. CASE \E m \in Map : MobAutoDrop(m)
  <2>1. PICK m \in Map : MobAutoDrop(m)
    BY <1>6
  <2>2. [owner |-> NoOne, type |-> 2, playerDrop |-> FALSE, meso |-> 0,
         randDrop |-> TRUE, timed |-> TRUE] \in Kind
    BY DEF Kind
  <2> QED BY <2>1, <2>2, <1>1 DEF MobAutoDrop, AutoDrop
<1> QED BY <1>2, <1>3, <1>4, <1>5, <1>6 DEF MakeDrop

\* Only a pick-up and the way home hand out anything; only a new drop is made.
LEMMA PayingSteps ==
    ASSUME [Next]_vars, ~ MakeDrop, ~ \E c \in Char : Grant(c), ~ ReturnGrant
    PROVE  UNCHANGED <<made, grants, paid>>
<1>1. CASE \E d \in Drop : Age(d)
  BY <1>1 DEF Age, historyVars
<1>2. CASE \E c \in Char, d \in Drop, h \in Ways : Look(c, d, h)
  BY <1>2 DEF Look, dropVars, historyVars
<1>3. CASE \E c \in Char : Picking(c)
  BY <1>3 DEF Picking, Enter, Refuse, Explode, ExplodeDone, dropVars, historyVars
<1>4. CASE \E t \in Thread : Ending(t)
  BY <1>4 DEF Ending, Mark, Remove, Refill, dropVars, historyVars
<1>5. CASE \E t \in Clearer \cup {Worker}, m \in Map : Snapshot(t, m)
  BY <1>5 DEF Snapshot, dropVars, historyVars
<1>6. CASE WorkerGoesOn \/ MoverGoesOn
  BY <1>6 DEF WorkerGoesOn, MoverGoesOn, WorkerVisits, Return, historyVars
<1>7. CASE \E t \in Clearer : ClearerGoesOn(t)
  BY <1>7 DEF ClearerGoesOn, ClearerVisits, dropVars, historyVars
<1>8. CASE \E c \in Char : Depart(c)
  BY <1>8 DEF Depart, dropVars, historyVars
<1>9. CASE \E m \in Map : Arrive(m)
  BY <1>9 DEF Arrive, dropVars
<1>10. CASE UNCHANGED vars
  BY <1>10 DEF vars, dropVars, historyVars
<1> QED BY <1>1, <1>2, <1>3, <1>4, <1>5, <1>6, <1>7, <1>8, <1>9, <1>10 DEF Next

\* What a drop may pay in all.
Most(d) == made[d].meso + Cardinality(Bonus) * (made[d].meso \div 20)

LEMMA MostOfHeap ==
    ASSUME MapItemAssumption, NEW x \in Nat
    PROVE  /\ x + Cardinality(Bonus) * (x \div 20) \in Nat
           /\ x <= x + Cardinality(Bonus) * (x \div 20)
<1>1. PICK y \in Nat : y = x \div 20
  OBVIOUS
<1>2. PICK b \in Nat : b = Cardinality(Bonus)
  BY FS_CardinalityType DEF MapItemAssumption
<1>3. b * y \in Nat
  OBVIOUS
<1>4. \A z \in Nat : x + z \in Nat /\ x <= x + z
  OBVIOUS
<1> QED BY <1>1, <1>2, <1>3, <1>4

LEMMA MostNat ==
    ASSUME MapItemAssumption, TypeInv, NEW d \in Made
    PROVE  Most(d) \in Nat /\ made[d].meso <= Most(d)
BY HeapNat, MostOfHeap DEF Most

LEMMA ShareStep ==
    ASSUME MapItemAssumption, ShareInv, [Next]_vars
    PROVE  ShareInv'
<1> USE ThreadFacts
<1>0. OnceInv' /\ TypeInv /\ TypeInv'
  BY OnceStep DEF ShareInv, OnceInv
<1>1. /\ Made \subseteq Drop /\ grants \in [Drop -> Nat] /\ paid \in [Drop -> Nat]
      /\ OnceInv /\ PaidOnce /\ \A d \in Made : MapOfDrop(d) \notin Everlast => paid[d] <= Most(d)
  BY <1>0 DEF TypeInv, TypeOK, ShareInv, SharesFit, Most
<1>2. SUFFICES PaidOnce' /\ \A d \in Made' : MapOfDrop(d) \notin Everlast => paid'[d] <= Most(d)'
  BY <1>0 DEF ShareInv, SharesFit, Most, MapOfDrop
<1>3. CASE MakeDrop
  <2>1. PICK d \in Drop, kind \in Kind :
          /\ d \notin Made
          /\ Made' = Made \cup {d}
          /\ made'[d] = kind
          /\ \A x \in Made : made'[x] = made[x]
          /\ UNCHANGED <<grants, paid>>
    BY <1>0, <1>3, SpawnEffect DEF historyVars
  <2>2. PaidOnce'
    BY <1>1, <2>1 DEF PaidOnce
  <2>3. \A x \in Made : Most(x)' = Most(x)
    BY <2>1 DEF Most
  <2>4. paid'[d] <= Most(d)'
    <3>1. Most(d)' \in Nat
      <4>1. made'[d] = kind /\ kind \in Kind
        BY <2>1
      <4>2. kind.meso \in Nat
        <5>1. kind.meso \in Amounts \cup {0}
          BY DEF Kind
        <5>2. \A y \in Amounts \cup {0} : y \in Nat
          BY DEF MapItemAssumption
        <5> QED BY <5>1, <5>2
      <4> QED BY <4>1, <4>2, MostOfHeap DEF Most
    <3>2. paid'[d] = 0
      BY <1>1, <2>1 DEF PaidOnce
    <3> QED BY <3>1, <3>2
  <2> QED BY <1>1, <2>1, <2>2, <2>3, <2>4
<1>4. CASE \E c \in Char : Grant(c)
  <2>1. PICK c \in Char : Grant(c)
    BY <1>4
  <2>2. PICK d \in Made : d = at[c]
    BY <1>0, <2>1 DEF Grant, TypeInv, Busy
  <2>3. PICK x \in Nat : x = made[d].meso
    BY <1>0, HeapNat
  <2>4. PICK y : y = IF PartyOf[c] # {} /\ made[d].owner # c THEN Payout(c, x) ELSE x
    OBVIOUS
  <2>5. y \in Nat /\ y <= Most(d)
    <3>1. Payout(c, x) \in Nat
      BY <1>0, PayoutNat DEF TypeInv
    <3>2. Payout(c, x) <= Most(d)
      BY <2>3, PayoutFits DEF Most
    <3>3. x <= Most(d)
      BY <1>0, <2>3, MostNat
    <3> QED BY <2>4, <3>1, <3>2, <3>3
  <2>6. /\ grants' = [grants EXCEPT ![d] = @ + 1]
        /\ paid' = [paid EXCEPT ![d] = @ + y]
        /\ UNCHANGED made /\ stage[c] = "entered"
    BY <2>1, <2>2, <2>3, <2>4 DEF Grant, dropVars
  <2>7. Made' = Made /\ \A z \in Made : Most(z)' = Most(z)
    BY <2>6 DEF Made, Most
  <2>8. d \in Drop
    BY <1>1
  <2>9. MapOfDrop(d) \notin Everlast => paid[d] = 0
    BY <1>1, <2>2, <2>6, <2>8 DEF PaidOnce, OnceInv, AllHandedOut, HandedOut
  <2>10. PaidOnce'
    BY <1>1, <2>5, <2>6, <2>7, <2>8 DEF PaidOnce
  <2>11. \A z \in Made : MapOfDrop(z) \notin Everlast => paid'[z] <= Most(z)
    BY <1>1, <2>5, <2>6, <2>8, <2>9
  <2> QED BY <2>7, <2>10, <2>11
<1>5. CASE ReturnGrant
  <2>1. PICK d \in Made : d = at[Mover]
    BY <1>0, <1>5 DEF ReturnGrant, TypeInv, Busy
  <2>2. MapOfDrop(d) \in Everlast /\ d \in Drop
    BY <1>1, <1>5, <2>1 DEF ReturnGrant, OnceInv, MoverAtHome
  <2>3. /\ UNCHANGED made
        /\ \A z \in Drop : z # d => grants'[z] = grants[z] /\ paid'[z] = paid[z]
    BY <1>1, <1>5, <2>1 DEF ReturnGrant, dropVars
  <2>4. Made' = Made /\ \A z \in Made : Most(z)' = Most(z)
    BY <2>3 DEF Made, Most
  <2>5. PaidOnce'
    BY <1>1, <2>2, <2>3, <2>4 DEF PaidOnce
  <2> QED BY <1>1, <2>2, <2>3, <2>4, <2>5
<1>6. CASE ~ MakeDrop /\ ~ (\E c \in Char : Grant(c)) /\ ~ ReturnGrant
  <2>1. UNCHANGED <<made, grants, paid>>
    BY <1>6, PayingSteps
  <2>2. Made' = Made /\ \A z \in Made : Most(z)' = Most(z)
    BY <2>1 DEF Made, Most
  <2> QED BY <1>1, <2>1, <2>2 DEF PaidOnce
<1> QED BY <1>3, <1>4, <1>5, <1>6

\* However a heap of meso is divided, and whoever races for it, what is paid
\* for it is never more than the heap and the bonuses.
THEOREM NoMesoMade == Spec => []SharesFit
<1> USE MapItemAssumption
<1>1. Init => ShareInv
  <2> SUFFICES ASSUME Init PROVE ShareInv
    OBVIOUS
  <2>1. OnceInv
    BY OnceStart
  <2>2. Made = {}
    BY DEF Init, Made
  <2>3. PaidOnce
    BY DEF Init, PaidOnce
  <2> QED BY <2>1, <2>2, <2>3 DEF ShareInv, SharesFit
<1>2. ShareInv /\ [Next]_vars => ShareInv'
  BY ShareStep
<1>3. ShareInv => SharesFit
  BY DEF ShareInv
<1> QED BY <1>1, <1>2, <1>3, PTL DEF Spec
-----------------------------------------------------------------------------
(* The owner first.  A drop's type changes with time only, and whoever has  *)
(* passed the guards was entitled to the drop when it did: what entitles is *)
(* never taken back.                                                        *)

Freed == \A d \in Made : type[d] = made[d].type \/ age[d] >= 1

Entitled(c, d) ==
    LET k == made[d] IN
    \/ k.owner = c
    \/ k.playerDrop
    \/ k.type >= 2
    \/ k.type = 1 /\ k.owner \in PartyOf[c]
    \/ age[d] >= 1

Rightful == \A c \in Char : stage[c] = "entered" => Entitled(c, at[c])

RightInv == TypeInv /\ Freed /\ Rightful

\* Time does not run back, and a drop stays as it was made.
LEMMA Lasting ==
    ASSUME MapItemAssumption, TypeInv, [Next]_vars, NEW d \in Made
    PROVE  /\ d \in Made' /\ made'[d] = made[d]
           /\ age[d] \in 0..2 /\ age'[d] \in 0..2 /\ age[d] <= age'[d]
<1>0. /\ age \in [Drop -> 0..2] /\ d \in Drop
  BY DEF TypeInv, TypeOK
<1>1. CASE MakeDrop
  BY <1>0, <1>1, SpawnEffect
<1>2. CASE \E x \in Drop : Age(x)
  <2>1. PICK x \in Drop : Age(x)
    BY <1>2
  <2>2. age[x] < 2 /\ age' = [age EXCEPT ![x] = @ + 1] /\ UNCHANGED made
    BY <2>1 DEF Age
  <2> QED BY <1>0, <2>2 DEF Made
<1>3. CASE ~ MakeDrop /\ ~ \E x \in Drop : Age(x)
  <2>1. UNCHANGED <<made, age>>
    BY <1>3 DEF Next, Look, Picking, Enter, Refuse, Grant, Explode, ExplodeDone, Ending, Mark,
       Remove, Refill, Snapshot, WorkerGoesOn, WorkerVisits, MoverGoesOn, ReturnGrant, Return,
       ClearerGoesOn, ClearerVisits, Depart, Arrive, vars, dropVars
  <2> QED BY <1>0, <2>1 DEF Made
<1> QED BY <1>1, <1>2, <1>3

\* The respawn worker frees a drop when its time has come.
LEMMA FreedStep ==
    ASSUME MapItemAssumption, RightInv, [Next]_vars
    PROVE  Freed'
<1>0. /\ TypeInv /\ Freed /\ type \in [Drop -> 0..3] /\ Made \subseteq Drop
  BY DEF RightInv, TypeInv, TypeOK
<1>1. CASE MakeDrop
  <2>1. PICK d \in Drop, kind \in Kind :
          /\ d \notin Made /\ Made' = Made \cup {d}
          /\ made'[d] = kind /\ \A x \in Made : made'[x] = made[x]
          /\ type' = [type EXCEPT ![d] = kind.type]
          /\ UNCHANGED age
    BY <1>0, <1>1, SpawnEffect
  <2>2. type'[d] = made'[d].type /\ \A x \in Made : type'[x] = type[x]
    BY <1>0, <2>1
  <2> QED BY <1>0, <2>1, <2>2 DEF Freed
<1>2. CASE WorkerGoesOn
  <2>1. PICK d \in Drop : WorkerVisits(d)
    BY <1>2 DEF WorkerGoesOn
  <2>2. UNCHANGED <<made, age>>
    BY <2>1 DEF WorkerVisits
  <2>3. type' = type \/ (age[d] >= 1 /\ type' = [type EXCEPT ![d] = 2])
    BY <2>1 DEF WorkerVisits, ShouldFFA
  <2> QED BY <1>0, <2>2, <2>3 DEF Freed, Made
<1>3. CASE ~ MakeDrop /\ ~ WorkerGoesOn
  <2>1. UNCHANGED <<made, type>>
    BY <1>3 DEF Next, Age, Look, Picking, Enter, Refuse, Grant, Explode, ExplodeDone, Ending, Mark,
       Remove, Refill, Snapshot, MoverGoesOn, ReturnGrant, Return,
       ClearerGoesOn, ClearerVisits, Depart, Arrive, vars, dropVars
  <2>2. Made' = Made
    BY <2>1 DEF Made
  <2>3. \A d \in Made : age[d] >= 1 => age'[d] >= 1
    BY <1>0, Lasting
  <2> QED BY <1>0, <2>1, <2>2, <2>3 DEF Freed
<1> QED BY <1>1, <1>2, <1>3

\* The guards let in the entitled.
LEMMA GuardsEntitle ==
    ASSUME MapItemAssumption, RightInv, NEW c \in Char, NEW d \in Made, NEW h, MayTake(c, d, h)
    PROVE  Entitled(c, d)
<1> DEFINE k == made[d]
<1>1. type[d] \in 0..3 /\ k.type \in 0..3 /\ (type[d] = k.type \/ age[d] >= 1)
  BY DEF RightInv, Freed, TypeInv, TypeOK, Kind
<1>2. CASE k.owner = c \/ k.playerDrop \/ age[d] >= 1
  BY <1>2 DEF Entitled
<1>3. CASE k.owner # c /\ ~ k.playerDrop /\ type[d] = k.type
  <2>1. type[d] # 0 /\ (type[d] = 1 => k.owner \in PartyOf[c])
    BY <1>3 DEF MayTake, OthersMay
  <2>2. k.type = 1 \/ k.type >= 2
    BY <1>1, <1>3, <2>1
  <2> QED BY <1>3, <2>1, <2>2 DEF Entitled
<1> QED BY <1>1, <1>2, <1>3

\* Only Enter brings a thread past the guards.
LEMMA PastTheGuards ==
    ASSUME MapItemAssumption, TypeInv, [Next]_vars, NEW c \in Char, stage'[c] = "entered"
    PROVE  \/ stage[c] = "entered" /\ at'[c] = at[c]
           \/ Enter(c) /\ ~ Leave(c) /\ at'[c] = at[c] /\ stage[c] = "found"
<1> USE ThreadFacts
<1>0. /\ stage \in [Thread -> Stage] /\ at \in [Thread -> Made \cup {NoDrop}] /\ c \in Thread
  BY DEF TypeInv, TypeOK
<1>1. ASSUME NEW t \in Thread, Leave(t)
      PROVE  t # c /\ stage'[c] = stage[c] /\ at'[c] = at[c]
  BY <1>0, <1>1 DEF Leave
<1>2. CASE MakeDrop \/ (\E d \in Drop : Age(d)) \/ (\E m \in Map : Arrive(m)) \/ UNCHANGED vars
           \/ (\E t \in Clearer \cup {Worker}, m \in Map : Snapshot(t, m))
           \/ (\E e \in Char : Depart(e))
  <2>1. UNCHANGED <<stage, at>>
    BY <1>2 DEF MakeDrop, MobDrop, DropItem, DropMeso, RandDrop, MobAutoDrop, AutoDrop, Spawn, Age, Arrive, Snapshot,
       Depart, vars, threadVars
  <2> QED BY <2>1
<1>3. CASE \E e \in Char, d \in Drop, h \in Ways : Look(e, d, h)
  BY <1>0, <1>3 DEF Look
<1>4. CASE \E e \in Char : Picking(e)
  <2>1. PICK e \in Char : Picking(e)
    BY <1>4
  <2>2. CASE Enter(e)
    <3>1. CASE Leave(e)
      BY <1>0, <1>1, <3>1
    <3>2. CASE ~ Leave(e)
      BY <1>0, <2>2, <3>2 DEF Enter
    <3> QED BY <3>1, <3>2
  <2>3. CASE Refuse(e)
    BY <1>0, <1>1, <2>3 DEF Refuse
  <2>4. CASE Grant(e)
    BY <1>0, <2>4 DEF Grant
  <2>5. CASE Explode(e)
    <3>1. CASE Leave(e)
      BY <1>0, <1>1, <3>1
    <3>2. CASE ~ Leave(e)
      BY <1>0, <2>5, <3>2 DEF Explode
    <3> QED BY <3>1, <3>2
  <2>6. CASE ExplodeDone(e)
    BY <1>0, <1>1, <2>6 DEF ExplodeDone
  <2> QED BY <2>1, <2>2, <2>3, <2>4, <2>5, <2>6 DEF Picking
<1>5. CASE \E t \in Thread : Ending(t)
  <2>1. PICK t \in Thread : Ending(t)
    BY <1>5
  <2>2. CASE Mark(t) \/ Remove(t)
    BY <1>0, <2>2 DEF Mark, Remove
  <2>3. CASE Refill(t)
    BY <1>0, <1>1, <2>3 DEF Refill
  <2> QED BY <2>1, <2>2, <2>3 DEF Ending
<1>6. CASE WorkerGoesOn
  BY <1>0, <1>6 DEF WorkerGoesOn, WorkerVisits, StartLeaving
<1>7. CASE MoverGoesOn
  BY <1>0, <1>7 DEF MoverGoesOn, ReturnGrant, Return
<1>8. CASE \E t \in Clearer : ClearerGoesOn(t)
  BY <1>0, <1>8 DEF ClearerGoesOn, ClearerVisits, StartLeaving
<1> QED BY <1>2, <1>3, <1>4, <1>5, <1>6, <1>7, <1>8 DEF Next

LEMMA RightStep ==
    ASSUME MapItemAssumption, RightInv, [Next]_vars
    PROVE  RightInv'
<1> USE ThreadFacts
<1>0. TypeInv /\ TypeInv' /\ Freed'
  BY TypeStep, FreedStep DEF RightInv
<1>1. ASSUME NEW c \in Char, NEW d \in Made, Entitled(c, d)
      PROVE  Entitled(c, d)'
  <2>1. made'[d] = made[d] /\ age[d] \in 0..2 /\ age'[d] \in 0..2 /\ age[d] <= age'[d]
    BY <1>0, Lasting
  <2>2. age[d] >= 1 => age'[d] >= 1
    BY <2>1
  <2> QED BY <1>1, <2>1, <2>2 DEF Entitled
<1>2. ASSUME NEW c \in Char, stage'[c] = "entered"
      PROVE  Entitled(c, at[c])'
  <2>1. CASE stage[c] = "entered" /\ at'[c] = at[c]
    <3>1. PICK d \in Made : d = at[c]
      BY <1>0, <2>1 DEF TypeInv, Busy
    <3>2. Entitled(c, d)
      BY <2>1, <3>1 DEF RightInv, Rightful
    <3>3. Entitled(c, d)'
      BY <1>1, <3>2
    <3> QED BY <2>1, <3>1, <3>3 DEF Entitled
  <2>2. CASE Enter(c) /\ ~ Leave(c) /\ at'[c] = at[c] /\ stage[c] = "found"
    <3>1. PICK d \in Made : d = at[c]
      BY <1>0, <2>2 DEF TypeInv, Busy
    <3>2. MayTake(c, d, how[c])
      BY <2>2, <3>1 DEF Enter
    <3>3. Entitled(c, d)'
      BY <1>1, <3>2, GuardsEntitle
    <3> QED BY <2>2, <3>1, <3>3 DEF Entitled
  <2> QED BY <1>0, <1>2, <2>1, <2>2, PastTheGuards
<1>3. Rightful'
  BY <1>2 DEF Rightful
<1> QED BY <1>0, <1>3 DEF RightInv

\* A monster's drop goes to its owner and the owner's party alone until half a
\* minute has passed, whichever handler reaches for it and however late.
THEOREM OwnersGoFirst == Spec => OwnerFirst
<1> USE MapItemAssumption
<1>1. Init => RightInv
  <2> SUFFICES ASSUME Init PROVE RightInv
    OBVIOUS
  <2>1. TypeInv /\ Made = {}
    BY TypeStart DEF Init, Made
  <2>2. \A c \in Char : stage[c] = "idle"
    BY ThreadFacts DEF Init
  <2> QED BY <2>1, <2>2 DEF RightInv, Freed, Rightful
<1>2. RightInv /\ [Next]_vars => RightInv'
  BY RightStep
<1>3. RightInv => \A c \in Char : stage[c] = "entered" => Entitled(c, at[c])
  BY DEF RightInv, Rightful
<1>4. RightInv /\ [Next]_vars =>
        [\A c \in Char :
          stage[c] = "entered" /\ stage'[c] = "leaving" =>
              LET k == made[at[c]] IN
              \/ k.owner = c
              \/ k.playerDrop
              \/ k.type >= 2
              \/ k.type = 1 /\ k.owner \in PartyOf[c]
              \/ age[at[c]] >= 1]_vars
  BY <1>3 DEF Entitled
<1> QED BY <1>1, <1>2, <1>4, PTL DEF Spec, OwnerFirst
-----------------------------------------------------------------------------
(* A drop lies on its map as long as it is not picked up.  The two are      *)
(* written by separate steps: whoever takes a drop marks it first and       *)
(* removes it after, but an explosion removes first.  Between the two, a    *)
(* thread works on the drop; which one it is does not matter.               *)

Blasting ==
    \A c \in Char : stage[c] # "idle" =>
        /\ how[c] = "blast" => stage[c] \in {"found", "blown"} /\ made[at[c]].meso > 0
        /\ stage[c] = "blown" => how[c] = "blast" /\ at[c] \notin onMap

OnTheSpot ==
    ~ strayed => \A c \in Char :
        stage[c] # "idle" /\ how[c] # "blast" => mapOf[c] = MapOfDrop(at[c])

MarkedFirst ==
    \A t \in Thread : stage[t] \in {"returning", "marked", "removed"} => pickedUp[at[t]]

\* It is on the map, or taken, or an explosion is about to mark it.
Shown(d) == d \in onMap \/ pickedUp[d] \/ \E c \in Char : stage[c] = "blown" /\ at[c] = d
\* If it is taken and still there, somebody is about to remove it.
Going(d) ==
    pickedUp[d] /\ d \in onMap =>
        \E t \in Thread : stage[t] \in {"returning", "marked"} /\ at[t] = d
\* If it was handed out, it is marked, or about to be.
Given(d) ==
    grants[d] > 0 => pickedUp[d] \/ \E c \in Char : stage[c] = "leaving" /\ at[c] = d
Truthful == ~ strayed => \A d \in Made : Shown(d) /\ Going(d) /\ Given(d)

RandDropsAreThings == \A d \in Made : made[d].randDrop => made[d].meso = 0

Unmade == \A d \in Drop : d \notin Made => grants[d] = 0 /\ ~ pickedUp[d]

Order == Blasting /\ OnTheSpot /\ MarkedFirst /\ Truthful /\ RandDropsAreThings /\ Unmade
TruthInv == TypeInv /\ Order

LEMMA TruthFacts ==
    ASSUME MapItemAssumption, TruthInv
    PROVE  /\ stage \in [Thread -> Stage] /\ at \in [Thread -> Made \cup {NoDrop}]
           /\ how \in [Thread -> Ways \cup {"hand"}]
           /\ pickedUp \in [Drop -> BOOLEAN] /\ grants \in [Drop -> Nat]
           /\ mapOf \in [Char -> Map] /\ strayed \in BOOLEAN
           /\ onMap \subseteq Made /\ Made \subseteq Drop /\ Char \subseteq Thread
           /\ \A t \in Thread : stage[t] # "idle" => at[t] \in Made
           /\ Blasting /\ OnTheSpot /\ MarkedFirst /\ Truthful /\ RandDropsAreThings /\ Unmade
BY ThreadFacts DEF TruthInv, Order, TypeInv, TypeOK, Busy

LEMMA SpawnKeepsTruth ==
    ASSUME MapItemAssumption, TruthInv, MakeDrop
    PROVE  Order'
<1> USE TruthFacts
<1>1. PICK d \in Drop, kind \in Kind :
          /\ d \notin Made /\ Made' = Made \cup {d}
          /\ made'[d] = kind /\ \A x \in Made : made'[x] = made[x]
          /\ onMap' = onMap \cup {d}
          /\ kind.randDrop => kind.meso = 0
          /\ UNCHANGED <<pickedUp, stage, how, at, mapOf, grants, strayed>>
  BY SpawnEffect DEF TruthInv, threadVars, historyVars
<1>2. \A t \in Thread : stage[t] # "idle" => made'[at[t]] = made[at[t]] /\ at[t] # d
  BY <1>1
<1>3. Blasting'
  BY <1>1, <1>2 DEF Blasting
<1>4. OnTheSpot' /\ MarkedFirst'
  BY <1>1 DEF OnTheSpot, MarkedFirst, MapOfDrop
<1>5. Truthful'
  <2>1. ~ pickedUp[d] /\ grants[d] = 0
    BY <1>1 DEF Unmade
  <2>2. Shown(d)' /\ Going(d)' /\ Given(d)'
    BY <1>1, <2>1 DEF Shown, Going, Given
  <2>3. ASSUME ~ strayed, NEW x \in Made
        PROVE  Shown(x)' /\ Going(x)' /\ Given(x)'
    <3>1. Shown(x) /\ Going(x) /\ Given(x)
      BY <2>3 DEF Truthful
    <3> QED BY <1>1, <3>1 DEF Shown, Going, Given
  <2> QED BY <1>1, <2>2, <2>3 DEF Truthful
<1>6. RandDropsAreThings' /\ Unmade'
  BY <1>1 DEF RandDropsAreThings, Unmade
<1> QED BY <1>3, <1>4, <1>5, <1>6 DEF Order

\* What is not about the drops and their handlers does not matter.
LEMMA QuietKeepsTruth ==
    ASSUME MapItemAssumption, TruthInv,
           UNCHANGED <<made, onMap, pickedUp, stage, how, at, mapOf, grants, strayed>>
    PROVE  Order'
<1>1. Made' = Made
  BY DEF Made
<1>2. Order
  BY DEF TruthInv
<1> QED BY <1>1, <1>2 DEF Order, Blasting, OnTheSpot, MarkedFirst, Truthful, Shown, Going, Given,
        RandDropsAreThings, Unmade, MapOfDrop

\* A thread that goes on without touching the drop, to a stage that owes less.
LEMMA GoingOnKeepsTruth ==
    ASSUME MapItemAssumption, TruthInv, NEW t \in Thread, NEW s \in {"found", "entered", "leaving"},
           UNCHANGED <<made, onMap, pickedUp, mapOf, strayed, grants>>,
           stage[t] \in {"idle", "found"},
           stage' = [stage EXCEPT ![t] = s],
           NEW d \in Made, at' = [at EXCEPT ![t] = d],
           NEW h, how' = [how EXCEPT ![t] = h],
           t \in Char => /\ h = "blast" => made[d].meso > 0 /\ s = "found"
                         /\ ~ strayed => (h # "blast" => mapOf[t] = MapOfDrop(d))
    PROVE  Order'
<1> USE TruthFacts
<1>1. Made' = Made
  BY DEF Made
<1>2. Blasting'
  BY <1>1 DEF Blasting
<1>3. OnTheSpot'
  BY <1>1 DEF OnTheSpot, MapOfDrop
<1>4. MarkedFirst'
  BY DEF MarkedFirst
<1>5. Truthful'
  <2> SUFFICES ASSUME ~ strayed', NEW x \in Made
               PROVE  Shown(x)' /\ Going(x)' /\ Given(x)'
    BY <1>1 DEF Truthful
  <2>1. Shown(x) /\ Going(x) /\ Given(x)
    BY DEF Truthful
  <2>2. Shown(x)'
    BY <2>1 DEF Shown
  <2>3. Going(x)'
    BY <2>1 DEF Going
  <2>4. Given(x)'
    BY <2>1 DEF Given
  <2> QED BY <2>2, <2>3, <2>4
<1>6. RandDropsAreThings' /\ Unmade'
  BY <1>1 DEF RandDropsAreThings, Unmade
<1> QED BY <1>2, <1>3, <1>4, <1>5, <1>6 DEF Order

\* Giving up, or being done: an explosion marks the drop as it ends.
LEMMA LeaveKeepsTruth ==
    ASSUME MapItemAssumption, TruthInv, NEW t \in Thread, Leave(t),
           stage[t] \in {"found", "entered", "blown", "removed"},
           UNCHANGED <<made, onMap, mapOf, strayed, grants>>,
           \/ stage[t] # "blown" /\ UNCHANGED pickedUp
           \/ t \in Char /\ stage[t] = "blown" /\ pickedUp' = PickUp(at[t])
    PROVE  Order'
<1> USE TruthFacts
<1>1. Made' = Made
  BY DEF Made
<1>2. /\ stage' = [stage EXCEPT ![t] = "idle"]
      /\ at' = [at EXCEPT ![t] = NoDrop]
      /\ how' = [how EXCEPT ![t] = "hand"]
  BY DEF Leave
<1>3. at[t] \in Drop
  OBVIOUS
<1>4. /\ \A x \in Drop : pickedUp[x] => pickedUp'[x]
      /\ \A x \in Drop : pickedUp'[x] =>
            pickedUp[x] \/ (stage[t] = "blown" /\ x = at[t] /\ t \in Char)
      /\ stage[t] = "blown" => pickedUp'[at[t]]
  BY <1>3 DEF PickUp
<1>5. Blasting'
  BY <1>1, <1>2 DEF Blasting
<1>6. OnTheSpot'
  BY <1>1, <1>2 DEF OnTheSpot, MapOfDrop
<1>7. MarkedFirst'
  BY <1>2, <1>4 DEF MarkedFirst
<1>8. Truthful'
  <2> SUFFICES ASSUME ~ strayed', NEW x \in Made
               PROVE  Shown(x)' /\ Going(x)' /\ Given(x)'
    BY <1>1 DEF Truthful
  <2>1. Shown(x) /\ Going(x) /\ Given(x)
    BY DEF Truthful
  <2>2. Shown(x)'
    BY <1>2, <1>4, <2>1 DEF Shown
  <2>3. Going(x)'
    <3>1. stage[t] = "blown" /\ t \in Char => at[t] \notin onMap
      BY DEF Blasting
    <3>2. pickedUp'[x] /\ x \in onMap => pickedUp[x]
      BY <1>4, <3>1
    <3> QED BY <1>2, <2>1, <3>2 DEF Going
  <2>4. Given(x)'
    BY <1>2, <1>4, <2>1 DEF Given
  <2> QED BY <2>2, <2>3, <2>4
<1>9. RandDropsAreThings' /\ Unmade'
  BY <1>1, <1>4 DEF RandDropsAreThings, Unmade
<1> QED BY <1>5, <1>6, <1>7, <1>8, <1>9 DEF Order

\* Handing out: by a pick-up that marks next, or of a drop marked already.
LEMMA GrantKeepsTruth ==
    ASSUME MapItemAssumption, TruthInv, NEW t \in Thread, NEW d \in Made, d = at[t],
           UNCHANGED <<made, onMap, pickedUp, mapOf, strayed, how, at>>,
           grants' = [grants EXCEPT ![d] = @ + 1],
           \/ t \in Char /\ stage[t] = "entered" /\ stage' = [stage EXCEPT ![t] = "leaving"]
           \/ t \notin Char /\ stage[t] = "returning" /\ stage' = [stage EXCEPT ![t] = "marked"]
    PROVE  Order'
<1> USE TruthFacts
<1>1. Made' = Made
  BY DEF Made
<1>2. Blasting'
  BY <1>1 DEF Blasting
<1>3. OnTheSpot'
  BY <1>1 DEF OnTheSpot, MapOfDrop
<1>4. MarkedFirst'
  BY DEF MarkedFirst
<1>5. Truthful'
  <2> SUFFICES ASSUME ~ strayed', NEW x \in Made
               PROVE  Shown(x)' /\ Going(x)' /\ Given(x)'
    BY <1>1 DEF Truthful
  <2>1. Shown(x) /\ Going(x) /\ Given(x)
    BY DEF Truthful
  <2>2. Shown(x)'
    BY <2>1 DEF Shown
  <2>3. Going(x)'
    BY <2>1 DEF Going
  <2>4. Given(x)'
    <3>1. CASE x = d
      BY <3>1 DEF Given, MarkedFirst
    <3>2. CASE x # d
      BY <2>1, <3>2 DEF Given
    <3> QED BY <3>1, <3>2
  <2> QED BY <2>2, <2>3, <2>4
<1>6. RandDropsAreThings' /\ Unmade'
  BY <1>1 DEF RandDropsAreThings, Unmade
<1> QED BY <1>2, <1>3, <1>4, <1>5, <1>6 DEF Order

\* An explosion takes the heap off the map and is about to mark it.
LEMMA BlastKeepsTruth ==
    ASSUME MapItemAssumption, TruthInv, NEW c \in Char, NEW d \in Made, d = at[c],
           UNCHANGED <<made, pickedUp, mapOf, strayed, how, at, grants>>,
           stage[c] = "found", how[c] = "blast",
           stage' = [stage EXCEPT ![c] = "blown"],
           onMap' = onMap \ {d}
    PROVE  Order'
<1> USE TruthFacts
<1>1. Made' = Made
  BY DEF Made
<1>2. Blasting'
  BY <1>1 DEF Blasting
<1>3. OnTheSpot'
  BY <1>1 DEF OnTheSpot, MapOfDrop
<1>4. MarkedFirst'
  BY DEF MarkedFirst
<1>5. Truthful'
  <2> SUFFICES ASSUME ~ strayed', NEW x \in Made
               PROVE  Shown(x)' /\ Going(x)' /\ Given(x)'
    BY <1>1 DEF Truthful
  <2>1. Shown(x) /\ Going(x) /\ Given(x)
    BY DEF Truthful
  <2>2. Shown(x)'
    BY <2>1 DEF Shown
  <2>3. Going(x)'
    BY <2>1 DEF Going
  <2>4. Given(x)'
    BY <2>1 DEF Given
  <2> QED BY <2>2, <2>3, <2>4
<1>6. RandDropsAreThings' /\ Unmade'
  BY <1>1 DEF RandDropsAreThings, Unmade
<1> QED BY <1>2, <1>3, <1>4, <1>5, <1>6 DEF Order

\* Marking: after the hand-out, or before it on the way home.
LEMMA MarkKeepsTruth ==
    ASSUME MapItemAssumption, TruthInv, NEW t \in Thread, NEW d \in Made,
           UNCHANGED <<made, onMap, mapOf, strayed, how, grants>>,
           at' = [at EXCEPT ![t] = d], pickedUp' = PickUp(d),
           \/ stage[t] = "leaving" /\ at[t] = d /\ stage' = [stage EXCEPT ![t] = "marked"]
           \/ stage[t] = "idle" /\ t \notin Char /\ stage' = [stage EXCEPT ![t] = "returning"]
    PROVE  Order'
<1> USE TruthFacts
<1>1. Made' = Made
  BY DEF Made
<1>2. pickedUp' = [pickedUp EXCEPT ![d] = TRUE]
  BY DEF PickUp
<1>3. Blasting'
  BY <1>1 DEF Blasting
<1>4. OnTheSpot'
  BY <1>1 DEF OnTheSpot, MapOfDrop
<1>5. MarkedFirst'
  BY <1>2 DEF MarkedFirst
<1>6. Truthful'
  <2> SUFFICES ASSUME ~ strayed', NEW x \in Made
               PROVE  Shown(x)' /\ Going(x)' /\ Given(x)'
    BY <1>1 DEF Truthful
  <2>1. Shown(x) /\ Going(x) /\ Given(x)
    BY DEF Truthful
  <2>2. Shown(x)'
    BY <1>2, <2>1 DEF Shown
  <2>3. Going(x)'
    <3>1. CASE x = d
      BY <3>1 DEF Going
    <3>2. CASE x # d
      BY <1>2, <2>1, <3>2 DEF Going
    <3> QED BY <3>1, <3>2
  <2>4. Given(x)'
    <3>1. CASE x = d
      BY <1>2, <3>1 DEF Given
    <3>2. CASE x # d
      BY <1>2, <2>1, <3>2 DEF Given
    <3> QED BY <3>1, <3>2
  <2> QED BY <2>2, <2>3, <2>4
<1>7. RandDropsAreThings' /\ Unmade'
  BY <1>1, <1>2 DEF RandDropsAreThings, Unmade
<1> QED BY <1>3, <1>4, <1>5, <1>6, <1>7 DEF Order

\* Unless somebody was moved away, a drop is removed from the map it is on.
LEMMA RemovesItsOwn ==
    ASSUME MapItemAssumption, TruthInv, ~ strayed, NEW t \in Thread,
           stage[t] \in {"marked", "removed"}
    PROVE  /\ MapHandled(t) = MapOfDrop(at[t])
           /\ at[t] = <<MapHandled(t), at[t][2]>>
<1> USE TruthFacts
<1>1. MapHandled(t) = MapOfDrop(at[t])
  <2>1. CASE t \in Char
    <3>1. how[t] # "blast"
      BY <2>1 DEF Blasting
    <3> QED BY <2>1, <3>1 DEF OnTheSpot, MapHandled
  <2>2. CASE t \notin Char
    BY <2>2 DEF MapHandled
  <2> QED BY <2>1, <2>2
<1>2. at[t] \in Drop
  OBVIOUS
<1>3. at[t] = <<MapOfDrop(at[t]), at[t][2]>>
  BY <1>2 DEF Drop, MapOfDrop
<1> QED BY <1>1, <1>3

LEMMA RemoveKeepsTruth ==
    ASSUME MapItemAssumption, TruthInv, NEW t \in Thread, Remove(t)
    PROVE  Order'
<1> USE TruthFacts
<1>1. /\ stage[t] = "marked"
      /\ onMap' = onMap \ {<<MapHandled(t), at[t][2]>>}
      /\ stage' = [stage EXCEPT ![t] = "removed"]
      /\ UNCHANGED <<made, pickedUp, how, at, mapOf, grants, strayed>>
  BY DEF Remove, historyVars
<1>2. Made' = Made
  BY <1>1 DEF Made
<1>3. Blasting'
  BY <1>1, <1>2 DEF Blasting
<1>4. OnTheSpot'
  BY <1>1, <1>2 DEF OnTheSpot, MapOfDrop
<1>5. MarkedFirst'
  BY <1>1 DEF MarkedFirst
<1>6. Truthful'
  <2> SUFFICES ASSUME ~ strayed', NEW x \in Made
               PROVE  Shown(x)' /\ Going(x)' /\ Given(x)'
    BY <1>2 DEF Truthful
  <2>0. ~ strayed
    BY <1>1
  <2>1. Shown(x) /\ Going(x) /\ Given(x)
    BY <2>0 DEF Truthful
  <2>2. onMap' = onMap \ {at[t]} /\ pickedUp[at[t]]
    BY <1>1, <2>0, RemovesItsOwn DEF MarkedFirst
  <2>3. Shown(x)'
    BY <1>1, <2>1, <2>2 DEF Shown
  <2>4. Going(x)'
    BY <1>1, <2>1, <2>2 DEF Going
  <2>5. Given(x)'
    BY <1>1, <2>1 DEF Given
  <2> QED BY <2>3, <2>4, <2>5
<1>7. RandDropsAreThings' /\ Unmade'
  BY <1>1, <1>2 DEF RandDropsAreThings, Unmade
<1> QED BY <1>3, <1>4, <1>5, <1>6, <1>7 DEF Order

LEMMA ArriveKeepsTruth ==
    ASSUME MapItemAssumption, TruthInv, NEW m \in Map, Arrive(m)
    PROVE  Order'
<1> USE TruthFacts
<1>1. /\ leaver \in Char
      /\ mapOf' = [mapOf EXCEPT ![leaver] = m]
      /\ strayed' = (strayed \/ (stage[leaver] # "idle" /\ how[leaver] # "blast"))
      /\ UNCHANGED <<made, onMap, pickedUp, stage, how, at, grants>>
  BY DEF Arrive, dropVars, threadVars, TruthInv, TypeInv, TypeOK
<1>2. Made' = Made
  BY <1>1 DEF Made
<1>3. OnTheSpot'
  BY <1>1 DEF OnTheSpot, MapOfDrop
<1>4. Truthful'
  BY <1>1, <1>2 DEF Truthful, Shown, Going, Given
<1>5. Blasting' /\ MarkedFirst' /\ RandDropsAreThings' /\ Unmade'
  BY <1>1, <1>2 DEF Blasting, MarkedFirst, RandDropsAreThings, Unmade
<1> QED BY <1>3, <1>4, <1>5 DEF Order

LEMMA PickingKeepsTruth ==
    ASSUME MapItemAssumption, TruthInv, NEW c \in Char, Picking(c)
    PROVE  Order'
<1> USE TruthFacts
<1>1. CASE Enter(c)
  <2>1. /\ stage[c] = "found" /\ how[c] # "blast"
        /\ UNCHANGED <<made, onMap, pickedUp, mapOf, strayed, grants>>
    BY <1>1 DEF Enter, dropVars, historyVars
  <2>2. CASE Leave(c)
    BY <2>1, <2>2, LeaveKeepsTruth
  <2>3. CASE ~ Leave(c)
    <3>1. stage' = [stage EXCEPT ![c] = "entered"] /\ UNCHANGED <<how, at>>
      BY <1>1, <2>3 DEF Enter
    <3>2. PICK d \in Made : d = at[c]
      BY <2>1
    <3>3. at' = [at EXCEPT ![c] = d] /\ how' = [how EXCEPT ![c] = how[c]]
      BY <3>1, <3>2
    <3>4. ~ strayed => mapOf[c] = MapOfDrop(d)
      BY <2>1, <3>2 DEF OnTheSpot
    <3> HIDE TruthFacts
    <3>5. PICK h : h = how[c]
      OBVIOUS
    <3>6. how' = [how EXCEPT ![c] = h] /\ h # "blast" /\ c \in Thread
      BY <2>1, <3>3, <3>5, ThreadFacts
    <3> QED BY <2>1, <3>1, <3>3, <3>4, <3>6, GoingOnKeepsTruth
  <2> QED BY <2>2, <2>3
<1>2. CASE Refuse(c)
  BY <1>2, LeaveKeepsTruth DEF Refuse, dropVars, historyVars
<1>3. CASE Grant(c)
  BY <1>3, GrantKeepsTruth DEF Grant, dropVars
<1>4. CASE Explode(c)
  <2>1. /\ stage[c] = "found" /\ how[c] = "blast"
        /\ UNCHANGED <<made, pickedUp, mapOf, strayed, grants>>
    BY <1>4 DEF Explode, historyVars
  <2>2. CASE IsPickedUp(at[c])
    BY <1>4, <2>1, <2>2, LeaveKeepsTruth DEF Explode
  <2>3. CASE ~ IsPickedUp(at[c])
    <3>1. /\ stage' = [stage EXCEPT ![c] = "blown"]
          /\ onMap' = onMap \ {at[c]} /\ UNCHANGED <<how, at>>
      BY <1>4, <2>3 DEF Explode
    <3> QED BY <2>1, <3>1, BlastKeepsTruth
  <2> QED BY <2>2, <2>3
<1>5. CASE ExplodeDone(c)
  BY <1>5, LeaveKeepsTruth DEF ExplodeDone, historyVars
<1> QED BY <1>1, <1>2, <1>3, <1>4, <1>5 DEF Picking

LEMMA TruthStep ==
    ASSUME MapItemAssumption, TruthInv, [Next]_vars
    PROVE  TruthInv'
<1> USE TruthFacts
<1>0. TypeInv' /\ TypeInv
  BY TypeStep DEF TruthInv
<1> SUFFICES Order'
  BY <1>0 DEF TruthInv
<1>1. CASE MakeDrop
  BY <1>1, SpawnKeepsTruth
<1>2. CASE \/ \E d \in Drop : Age(d)
           \/ \E t \in Clearer \cup {Worker}, m \in Map : Snapshot(t, m)
           \/ \E c \in Char : Depart(c)
           \/ UNCHANGED vars
  <2>1. UNCHANGED <<made, onMap, pickedUp, stage, how, at, mapOf, grants, strayed>>
    BY <1>2 DEF Age, Snapshot, Depart, vars, dropVars, threadVars, historyVars
  <2> QED BY <2>1, QuietKeepsTruth
<1>3. CASE \E c \in Char, d \in Drop, h \in Ways : Look(c, d, h)
  <2>1. PICK c \in Char, d \in Drop, h \in Ways : Look(c, d, h)
    BY <1>3
  <2>2. /\ UNCHANGED <<made, onMap, pickedUp, mapOf, strayed, grants>>
        /\ stage[c] = "idle" /\ stage' = [stage EXCEPT ![c] = "found"]
        /\ at' = [at EXCEPT ![c] = d] /\ how' = [how EXCEPT ![c] = h]
        /\ h = "blast" => made[d].meso > 0
        /\ MapOfDrop(d) = mapOf[c] /\ d \in Made
    BY <2>1 DEF Look, dropVars, historyVars
  <2> QED BY <2>2, GoingOnKeepsTruth
<1>4. CASE \E c \in Char : Picking(c)
  BY <1>4, PickingKeepsTruth
<1>5. CASE \E t \in Thread : Ending(t)
  <2>1. PICK t \in Thread : Ending(t)
    BY <1>5
  <2>2. CASE Mark(t)
    <3>1. /\ stage[t] = "leaving" /\ stage' = [stage EXCEPT ![t] = "marked"]
          /\ pickedUp' = PickUp(at[t])
          /\ UNCHANGED <<made, onMap, mapOf, strayed, how, at, grants>>
      BY <2>2 DEF Mark, historyVars
    <3>2. PICK d \in Made : d = at[t]
      BY <3>1
    <3>3. at' = [at EXCEPT ![t] = d] /\ pickedUp' = PickUp(d)
      BY <3>1, <3>2
    <3> QED BY <3>1, <3>2, <3>3, MarkKeepsTruth
  <2>3. CASE Remove(t)
    BY <2>3, RemoveKeepsTruth
  <2>4. CASE Refill(t)
    BY <2>4, LeaveKeepsTruth DEF Refill, dropVars, historyVars
  <2> QED BY <2>1, <2>2, <2>3, <2>4 DEF Ending
<1>6. ASSUME NEW t \in Clearer \cup {Worker}, NEW d \in Drop, Next1(t, d), StartLeaving(t, d),
             UNCHANGED <<made, onMap, pickedUp, mapOf, strayed, grants, how>>
      PROVE  Order'
  <2>1. t \in Thread /\ t \notin Char /\ d \in Made /\ stage[t] = "idle"
    BY <1>0, <1>6, ThreadFacts DEF Next1, TypeInv, TypeOK
  <2>2. /\ stage' = [stage EXCEPT ![t] = "leaving"] /\ at' = [at EXCEPT ![t] = d]
        /\ how' = [how EXCEPT ![t] = how[t]]
    BY <1>6, <2>1 DEF StartLeaving
  <2>3. PICK h : h = how[t]
    OBVIOUS
  <2>4. how' = [how EXCEPT ![t] = h]
    BY <2>2, <2>3
  <2> HIDE TruthFacts
  <2> QED BY <1>6, <2>1, <2>2, <2>4, GoingOnKeepsTruth
<1>7. CASE WorkerGoesOn
  <2>1. PICK d \in Drop : WorkerVisits(d)
    BY <1>7 DEF WorkerGoesOn
  <2>2. CASE ShouldExpire(d)
    BY <1>6, <2>1, <2>2 DEF WorkerVisits, historyVars
  <2>3. CASE ~ ShouldExpire(d)
    BY <2>1, <2>3, QuietKeepsTruth DEF WorkerVisits, historyVars
  <2> QED BY <2>2, <2>3
<1>8. CASE \E t \in Clearer : ClearerGoesOn(t)
  BY <1>6, <1>8 DEF ClearerGoesOn, ClearerVisits, dropVars, historyVars
<1>9. CASE MoverGoesOn
  <2>0. Mover \in Thread /\ Mover \notin Char
    BY ThreadFacts
  <2>1. CASE ReturnGrant
    BY <2>0, <2>1, GrantKeepsTruth DEF ReturnGrant, dropVars
  <2>2. CASE \E d \in Drop : Return(d)
    <3>1. PICK d \in Drop : Return(d)
      BY <2>2
    <3>2. d \in Made
      BY <1>0, <2>0, <3>1 DEF Return, Next1, TypeInv, TypeOK
    <3> QED BY <2>0, <3>1, <3>2, MarkKeepsTruth DEF Return, Next1, historyVars
  <2> QED BY <1>9, <2>1, <2>2 DEF MoverGoesOn
<1>10. CASE \E m \in Map : Arrive(m)
  BY <1>10, ArriveKeepsTruth
<1> QED BY <1>1, <1>2, <1>3, <1>4, <1>5, <1>7, <1>8, <1>9, <1>10 DEF Next

LEMMA TruthStart ==
    ASSUME MapItemAssumption, Init
    PROVE  TruthInv
<1>1. TypeInv /\ Made = {} /\ \A t \in Thread : stage[t] = "idle"
  BY TypeStart DEF Init, Made
<1>2. Unmade
  BY DEF Init, Unmade
<1>3. Char \subseteq Thread
  BY ThreadFacts
<1> QED BY <1>1, <1>2, <1>3 DEF TruthInv, Order, Blasting, OnTheSpot, MarkedFirst, Truthful,
        RandDropsAreThings

\* When the handlers are through with a drop, players see it on its map if and
\* only if it is still to be had, and what was handed out is gone.
THEOREM MapsTellTheTruth == Spec => []MapTellsTruth
<1> USE MapItemAssumption
<1>1. TruthInv => MapTellsTruth
  <2> SUFFICES ASSUME TruthInv, ~ strayed, NEW d \in Made,
                      \A t \in Thread : stage[t] = "idle" \/ at[t] # d
               PROVE  /\ d \in onMap <=> ~ pickedUp[d]
                      /\ grants[d] > 0 => pickedUp[d]
    BY DEF MapTellsTruth
  <2>1. Shown(d) /\ Going(d) /\ Given(d)
    BY TruthFacts DEF Truthful
  <2>2. Char \subseteq Thread
    BY ThreadFacts
  <2> QED BY <2>1, <2>2 DEF Shown, Going, Given
<1> QED BY <1>1, TruthStart, TruthStep, PTL DEF Spec
-----------------------------------------------------------------------------
(* The market's random drop.  Whoever takes one off the map asks for the    *)
(* next, unless another lies there by then.                                 *)

Lies(m) == \E d \in onMap : MapOfDrop(d) = m /\ made[d].randDrop
AboutToAsk(t, m) == stage[t] = "removed" /\ MapOfDrop(at[t]) = m /\ made[at[t]].randDrop
Kept(m) == Lies(m) \/ pending[m] > 0 \/ \E t \in Thread : AboutToAsk(t, m)

RandInv == TruthInv /\ RandDropKept

\* The steps that matter are four; after any other, whatever lay on a map,
\* was due or was about to be asked for still is.
LEMMA OthersKeepRand ==
    ASSUME MapItemAssumption, TruthInv, [Next]_vars, ~ MakeDrop,
           ~ \E c \in Char : Explode(c) /\ ~ IsPickedUp(at[c]),
           ~ \E t \in Thread : Remove(t) \/ Refill(t)
    PROVE  /\ UNCHANGED <<made, onMap, pending>>
           /\ \A t \in Thread : stage[t] = "removed" => stage'[t] = "removed" /\ at'[t] = at[t]
           /\ strayed => strayed'
<1> USE TruthFacts
<1>1. CASE \/ \E d \in Drop : Age(d)
           \/ \E t \in Clearer \cup {Worker}, m \in Map : Snapshot(t, m)
           \/ \E c \in Char : Depart(c)
           \/ \E m \in Map : Arrive(m)
           \/ UNCHANGED vars
  BY <1>1 DEF Age, Snapshot, Depart, Arrive, vars, dropVars, threadVars, historyVars
<1>2. CASE \E c \in Char, d \in Drop, h \in Ways : Look(c, d, h)
  BY <1>2 DEF Look, dropVars, historyVars
<1>3. CASE \E c \in Char : Picking(c)
  <2>1. PICK c \in Char : Picking(c)
    BY <1>3
  <2>2. CASE Enter(c) \/ Refuse(c) \/ Grant(c)
    BY <2>2 DEF Enter, Refuse, Grant, Leave, dropVars, historyVars
  <2>3. CASE Explode(c)
    <3>1. IsPickedUp(at[c])
      BY <2>3
    <3> QED BY <2>3, <3>1 DEF Explode, Leave, historyVars
  <2>4. CASE ExplodeDone(c)
    BY <2>4 DEF ExplodeDone, Leave, historyVars
  <2> QED BY <2>1, <2>2, <2>3, <2>4 DEF Picking
<1>4. CASE \E t \in Thread : Ending(t)
  BY <1>4 DEF Ending, Mark, historyVars
<1>5. CASE WorkerGoesOn
  BY <1>5 DEF WorkerGoesOn, WorkerVisits, Next1, StartLeaving, historyVars
<1>6. CASE \E t \in Clearer : ClearerGoesOn(t)
  BY <1>6 DEF ClearerGoesOn, ClearerVisits, Next1, StartLeaving, dropVars, historyVars
<1>7. CASE MoverGoesOn
  BY <1>7 DEF MoverGoesOn, ReturnGrant, Return, Next1, dropVars, historyVars
<1> QED BY <1>1, <1>2, <1>3, <1>4, <1>5, <1>6, <1>7 DEF Next

LEMMA RandStep ==
    ASSUME MapItemAssumption, RandInv, [Next]_vars
    PROVE  RandInv'
<1>0. TruthInv /\ TruthInv' /\ Market \subseteq Map
  BY TruthStep DEF RandInv, MapItemAssumption
<1> USE <1>0, TruthFacts
<1> SUFFICES ASSUME ~ strayed', NEW m \in Market
             PROVE  Kept(m)'
  BY DEF RandInv, RandDropKept, Kept, Lies, AboutToAsk
<1>2. ~ strayed => Kept(m)
  BY DEF RandInv, RandDropKept, Kept, Lies, AboutToAsk
<1>3. m \in Map /\ pending \in [Map -> Nat] /\ pending' \in [Map -> Nat]
  BY DEF TruthInv, TypeInv, TypeOK
<1>4. CASE MakeDrop
  <2>1. PICK d \in Drop, kind \in Kind :
          /\ d \notin Made /\ Made' = Made \cup {d}
          /\ made'[d] = kind /\ \A x \in Made : made'[x] = made[x]
          /\ onMap' = onMap \cup {d}
          /\ \/ pending' = pending
             \/ kind.randDrop /\ pending' = [pending EXCEPT ![MapOfDrop(d)] = @ - 1]
          /\ UNCHANGED <<stage, at, strayed>>
    BY <1>4, SpawnEffect DEF TruthInv, threadVars, historyVars
  <2>2. Kept(m)
    BY <1>2, <2>1
  <2>3. CASE Lies(m)
    BY <2>1, <2>3 DEF Kept, Lies, MapOfDrop
  <2>4. CASE \E t \in Thread : AboutToAsk(t, m)
    BY <2>1, <2>4 DEF Kept, AboutToAsk, MapOfDrop
  <2>5. CASE pending[m] > 0
    <3>1. CASE pending'[m] = pending[m]
      BY <2>5, <3>1 DEF Kept
    <3>2. CASE pending'[m] # pending[m]
      <4>1. kind.randDrop /\ MapOfDrop(d) = m
        BY <1>3, <2>1, <3>2
      <4>2. d \in onMap' /\ MapOfDrop(d)' = m /\ made'[d].randDrop
        BY <2>1, <4>1 DEF MapOfDrop
      <4> QED BY <4>2 DEF Kept, Lies, MapOfDrop
    <3> QED BY <3>1, <3>2
  <2> QED BY <2>2, <2>3, <2>4, <2>5 DEF Kept
<1>5. CASE \E c \in Char : Explode(c) /\ ~ IsPickedUp(at[c])
  <2>1. PICK c \in Char : Explode(c) /\ ~ IsPickedUp(at[c])
    BY <1>5
  <2>2. /\ stage[c] = "found" /\ how[c] = "blast"
        /\ stage' = [stage EXCEPT ![c] = "blown"]
        /\ onMap' = onMap \ {at[c]}
        /\ UNCHANGED <<made, pending, at, strayed>>
    BY <2>1 DEF Explode, historyVars
  <2>3. at[c] \in Made /\ ~ made[at[c]].randDrop
    BY <2>2 DEF Blasting, RandDropsAreThings
  <2>4. Lies(m) => Lies(m)'
    BY <2>2, <2>3 DEF Lies, MapOfDrop
  <2>5. \A t \in Thread : AboutToAsk(t, m) => AboutToAsk(t, m)'
    BY <2>2 DEF AboutToAsk, MapOfDrop
  <2> QED BY <1>2, <2>2, <2>4, <2>5 DEF Kept
<1>6. CASE \E t \in Thread : Remove(t)
  <2>1. PICK t \in Thread : Remove(t)
    BY <1>6
  <2>2. /\ stage[t] = "marked"
        /\ onMap' = onMap \ {<<MapHandled(t), at[t][2]>>}
        /\ stage' = [stage EXCEPT ![t] = "removed"]
        /\ UNCHANGED <<made, pending, at, strayed>>
    BY <2>1 DEF Remove, historyVars
  <2>3. onMap' = onMap \ {at[t]}
    BY <2>2, RemovesItsOwn
  <2>4. \A x \in Thread : AboutToAsk(x, m) => AboutToAsk(x, m)'
    BY <2>2 DEF AboutToAsk, MapOfDrop
  <2>5. CASE MapOfDrop(at[t]) = m /\ made[at[t]].randDrop
    <3>1. AboutToAsk(t, m)'
      BY <2>2, <2>5 DEF AboutToAsk, MapOfDrop
    <3> QED BY <3>1 DEF Kept
  <2>6. CASE ~ (MapOfDrop(at[t]) = m /\ made[at[t]].randDrop)
    <3>1. Lies(m) => Lies(m)'
      BY <2>2, <2>3, <2>6 DEF Lies, MapOfDrop
    <3> QED BY <1>2, <2>2, <2>4, <3>1 DEF Kept
  <2> QED BY <2>5, <2>6
<1>7. CASE \E t \in Thread : Refill(t)
  <2>1. PICK t \in Thread : Refill(t)
    BY <1>7
  <2>2. /\ stage[t] = "removed"
        /\ pending' = [pending EXCEPT ![MapHandled(t)] = @ + IF Asks(t) THEN 1 ELSE 0]
        /\ stage' = [stage EXCEPT ![t] = "idle"] /\ at' = [at EXCEPT ![t] = NoDrop]
        /\ UNCHANGED <<made, onMap, strayed>>
    BY <2>1 DEF Refill, Leave, dropVars, historyVars
  <2>3. Lies(m)' = Lies(m)
    BY <2>2 DEF Lies, MapOfDrop
  <2>4. pending'[m] >= pending[m]
    BY <1>3, <2>2
  <2>5. \A x \in Thread \ {t} : AboutToAsk(x, m) => AboutToAsk(x, m)'
    BY <2>2 DEF AboutToAsk, MapOfDrop
  <2>6. AboutToAsk(t, m) => Lies(m) \/ pending'[m] > 0
    <3> SUFFICES ASSUME AboutToAsk(t, m), ~ Lies(m)
                 PROVE  pending'[m] > 0
      OBVIOUS
    <3>1. MapHandled(t) = m
      BY <2>2, RemovesItsOwn DEF AboutToAsk
    <3>2. Asks(t)
      BY <3>1 DEF Asks, NeedsRandDrop, Lies, AboutToAsk
    <3>3. pending'[m] = pending[m] + 1
      BY <1>3, <2>2, <3>1, <3>2
    <3> QED BY <1>3, <3>3
  <2>7. Kept(m)
    BY <1>2, <2>2
  <2>8. pending[m] > 0 => pending'[m] > 0
    BY <1>3, <2>4
  <2> QED BY <2>3, <2>5, <2>6, <2>7, <2>8 DEF Kept
<1>8. CASE /\ ~ MakeDrop
           /\ ~ \E c \in Char : Explode(c) /\ ~ IsPickedUp(at[c])
           /\ ~ \E t \in Thread : Remove(t) \/ Refill(t)
  <2>1. /\ UNCHANGED <<made, onMap, pending>>
        /\ \A t \in Thread : stage[t] = "removed" => stage'[t] = "removed" /\ at'[t] = at[t]
        /\ strayed => strayed'
    BY <1>8, OthersKeepRand
  <2>2. Lies(m) => Lies(m)'
    BY <2>1 DEF Lies, MapOfDrop
  <2>3. \A t \in Thread : AboutToAsk(t, m) => AboutToAsk(t, m)'
    BY <2>1 DEF AboutToAsk, MapOfDrop
  <2> QED BY <1>2, <2>1, <2>2, <2>3 DEF Kept
<1> QED BY <1>4, <1>5, <1>6, <1>7, <1>8

\* Whether it is picked up, expires or is cleared away, and whatever comes in
\* between, the market does not stay without its random drop.
THEOREM MarketIsServed == Spec => []RandDropKept
<1> USE MapItemAssumption
<1>1. Init => RandInv
  <2> SUFFICES ASSUME Init PROVE RandInv
    OBVIOUS
  <2>1. \A m \in Market : pending[m] > 0
    BY DEF Init, MapItemAssumption
  <2> QED BY <2>1, TruthStart DEF RandInv, RandDropKept
<1>2. RandInv /\ [Next]_vars => RandInv'
  BY RandStep
<1>3. RandInv => RandDropKept
  BY DEF RandInv
<1> QED BY <1>1, <1>2, <1>3, PTL DEF Spec
=============================================================================
