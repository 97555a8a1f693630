-------------------------- MODULE ExpeditionProofs --------------------------
(* What is proved of the expedition's lists, for any number of players,     *)
(* squads and battles: types, the removal of squads, who is on the list of  *)
(* a battle and who is in its arena.                                        *)
EXTENDS Expedition, SequenceTheorems, TLAPS

-----------------------------------------------------------------------------
(* Members and queues: sequences without a name twice.                      *)

LEMMA RemoveAtElements ==
    ASSUME NEW S, NEW s \in Seq(S), NEW i \in 1 .. Len(s)
    PROVE  /\ RemoveAt(s, i) \in Seq(S)
           /\ Len(RemoveAt(s, i)) = Len(s) - 1
           /\ \A j \in 1 .. Len(s) - 1 : RemoveAt(s, i)[j] = IF j < i THEN s[j] ELSE s[j + 1]
<1> DEFINE a == SubSeq(s, 1, i - 1)
           b == SubSeq(s, i + 1, Len(s))
<1>0. Len(s) \in Nat /\ \A j \in 1 .. Len(s) : s[j] \in S
    BY LenProperties, ElementOfSeq
<1>1. /\ a \in Seq(S) /\ Len(a) = i - 1
      /\ \A j \in 1 .. i - 1 : a[j] = s[j]
  <2>1. /\ a \in Seq(S) /\ Len(a) = (IF 1 <= i - 1 THEN i - 1 - 1 + 1 ELSE 0)
        /\ \A j \in 1 .. i - 1 - 1 + 1 : a[j] = s[1 + j - 1]
    <3>1. 1 \in Int /\ i - 1 \in Int /\ \A j \in 1 .. i - 1 : s[j] \in S
        BY <1>0
    <3> HIDE DEF a
    <3> QED BY <3>1, SubSeqProperties DEF a
  <2> QED BY <1>0, <2>1
<1>2. /\ b \in Seq(S) /\ Len(b) = Len(s) - i
      /\ \A j \in 1 .. Len(s) - i : b[j] = s[i + j]
  <2>1. /\ b \in Seq(S) /\ Len(b) = (IF i + 1 <= Len(s) THEN Len(s) - (i + 1) + 1 ELSE 0)
        /\ \A j \in 1 .. Len(s) - (i + 1) + 1 : b[j] = s[i + 1 + j - 1]
    <3>1. i + 1 \in Int /\ Len(s) \in Int /\ \A j \in i + 1 .. Len(s) : s[j] \in S
        BY <1>0
    <3> QED BY <3>1, SubSeqProperties
  <2> QED BY <1>0, <2>1
<1>3. /\ a \o b \in Seq(S) /\ Len(a \o b) = Len(a) + Len(b)
      /\ \A j \in 1 .. Len(a) + Len(b) : (a \o b)[j] = IF j <= Len(a) THEN a[j] ELSE b[j - Len(a)]
    BY <1>1, <1>2, ConcatProperties
<1>4. RemoveAt(s, i) = a \o b
    BY DEF RemoveAt
<1> HIDE DEF a, b
<1>5. ASSUME NEW j \in 1 .. Len(s) - 1
      PROVE  (a \o b)[j] = IF j < i THEN s[j] ELSE s[j + 1]
  <2>1. CASE j < i
      BY <1>0, <1>1, <1>2, <1>3, <2>1
  <2>2. CASE ~ j < i
    <3>1. j - (i - 1) \in 1 .. Len(s) - i /\ i + (j - (i - 1)) = j + 1
        BY <1>0, <2>2
    <3>2. (a \o b)[j] = b[j - (i - 1)]
        BY <1>0, <1>1, <1>2, <1>3, <2>2
    <3> QED BY <1>2, <3>1, <3>2, <2>2
  <2> QED BY <2>1, <2>2
<1> QED BY <1>0, <1>1, <1>2, <1>3, <1>4, <1>5

\* Nobody is there twice.
OnceIn(s) == IsInjective(s)

LEMMA OnceInMeans ==
    ASSUME NEW s \in Seq(Player)
    PROVE  OnceIn(s) <=> \A i, j \in 1 .. Len(s) : s[i] = s[j] => i = j
<1>1. DOMAIN s = 1 .. Len(s)
    BY LenProperties
<1> QED BY <1>1 DEF OnceIn, IsInjective

LEMMA WithoutKeeps ==
    ASSUME NEW s \in Seq(Player), OnceIn(s), NEW p
    PROVE  /\ Without(s, p) \in Seq(Player) /\ OnceIn(Without(s, p))
           /\ ~ Contains(Without(s, p), p)
           /\ s # << >> /\ Head(s) # p => Without(s, p) # << >> /\ Head(Without(s, p)) = Head(s)
<1>0. Len(s) \in Nat
    BY LenProperties
<1>4. Head(s) = s[1]
    OBVIOUS
<1>1. CASE Contains(s, p)
  <2> DEFINE i == CHOOSE k \in 1 .. Len(s) : s[k] = p
             w == RemoveAt(s, i)
  <2>1. i \in 1 .. Len(s) /\ s[i] = p
      BY <1>1 DEF Contains
  <2>2. Without(s, p) = w
      BY <1>1 DEF Without
  <2> HIDE DEF i
  <2>3. /\ w \in Seq(Player) /\ Len(w) = Len(s) - 1
        /\ \A j \in 1 .. Len(s) - 1 : w[j] = IF j < i THEN s[j] ELSE s[j + 1]
      BY <2>1, RemoveAtElements
  <2> HIDE DEF w
  <2>4. \A k, j \in 1 .. Len(s) : s[k] = s[j] => k = j
      BY OnceInMeans
  <2>5. OnceIn(w)
    <3>1. SUFFICES ASSUME NEW k \in 1 .. Len(w), NEW j \in 1 .. Len(w), w[k] = w[j] PROVE k = j
        BY <2>3, OnceInMeans
    <3>2. k + 1 \in 1 .. Len(s) /\ j + 1 \in 1 .. Len(s) /\ k \in 1 .. Len(s) /\ j \in 1 .. Len(s)
        BY <1>0, <2>3
    <3>3. w[k] = (IF k < i THEN s[k] ELSE s[k + 1]) /\ w[j] = (IF j < i THEN s[j] ELSE s[j + 1])
        BY <2>3
    <3>4. CASE k < i /\ j < i
        BY <2>4, <3>1, <3>2, <3>3, <3>4
    <3>5. CASE ~ (k < i) /\ ~ (j < i)
      <4>1. k + 1 = j + 1
          BY <2>4, <3>1, <3>2, <3>3, <3>5
      <4> QED BY <4>1
    <3>6. CASE k < i /\ ~ (j < i)
      <4>1. k = j + 1
          BY <2>4, <3>1, <3>2, <3>3, <3>6
      <4> QED BY <2>1, <3>6, <4>1
    <3>7. CASE ~ (k < i) /\ j < i
      <4>1. k + 1 = j
          BY <2>4, <3>1, <3>2, <3>3, <3>7
      <4> QED BY <2>1, <3>7, <4>1
    <3> QED BY <3>4, <3>5, <3>6, <3>7
  <2>6. ~ Contains(w, p)
    <3>1. SUFFICES ASSUME NEW j \in 1 .. Len(w), w[j] = p PROVE FALSE
        BY DEF Contains
    <3>2. j \in 1 .. Len(s) /\ j + 1 \in 1 .. Len(s) /\ w[j] = IF j < i THEN s[j] ELSE s[j + 1]
        BY <1>0, <2>3
    <3> QED BY <1>0, <2>1, <2>4, <3>1, <3>2
  <2>7. s # << >> /\ Head(s) # p => w # << >> /\ Head(w) = Head(s)
    <3>1. SUFFICES ASSUME s # << >>, Head(s) # p PROVE w # << >> /\ Head(w) = Head(s)
        OBVIOUS
    <3>2. Head(s) = s[1]
        BY <1>4
    <3>5. i # 1
        BY <2>1, <3>1, <3>2
    <3>3. Len(w) >= 1 /\ w[1] = s[1]
        BY <1>0, <2>1, <2>3, <3>2, <3>5
    <3>4. w # << >>
        BY <2>3, <3>3
    <3> QED BY <2>3, <3>2, <3>3, <3>4
  <2> QED BY <2>2, <2>3, <2>5, <2>6, <2>7
<1>2. CASE ~ Contains(s, p)
    BY <1>2 DEF Without
<1> QED BY <1>1, <1>2

LEMMA WithoutIn ==
    ASSUME NEW s \in Seq(Player), NEW p PROVE Without(s, p) \in Seq(Player)
<1>1. CASE Contains(s, p)
  <2> DEFINE i == CHOOSE k \in 1 .. Len(s) : s[k] = p
  <2>1. i \in 1 .. Len(s)
      BY <1>1 DEF Contains
  <2>2. Without(s, p) = RemoveAt(s, i)
      BY <1>1 DEF Without
  <2> HIDE DEF i
  <2> QED BY <2>1, <2>2, RemoveAtElements
<1>2. CASE ~ Contains(s, p)
    BY <1>2 DEF Without
<1> QED BY <1>1, <1>2

LEMMA AppendKeeps ==
    ASSUME NEW s \in Seq(Player), OnceIn(s), NEW p \in Player, ~ Contains(s, p)
    PROVE  /\ Append(s, p) \in Seq(Player) /\ OnceIn(Append(s, p))
           /\ s # << >> => Append(s, p) # << >> /\ Head(Append(s, p)) = Head(s)
<1> DEFINE a == Append(s, p)
<1>0. Len(s) \in Nat
    BY LenProperties
<1>1. /\ a \in Seq(Player) /\ a # << >> /\ Len(a) = Len(s) + 1
      /\ \A i \in 1 .. Len(s) : a[i] = s[i]
      /\ a[Len(s) + 1] = p
    BY AppendProperties
<1>2. s # << >> => Head(a) = Head(s)
    BY HeadTailAppend
<1> HIDE DEF a
<1>3. OnceIn(a)
  <2>1. SUFFICES ASSUME NEW i \in 1 .. Len(a), NEW j \in 1 .. Len(a), a[i] = a[j] PROVE i = j
      BY <1>1, OnceInMeans
  <2>2. \A k, l \in 1 .. Len(s) : s[k] = s[l] => k = l
      BY OnceInMeans
  <2>3. \A k \in 1 .. Len(s) : s[k] # p
      BY DEF Contains
  <2> QED BY <1>0, <1>1, <2>1, <2>2, <2>3
<1> QED BY <1>1, <1>2, <1>3 DEF a

LEMMA WithKeeps ==
    ASSUME NEW s \in Seq(Player), OnceIn(s), NEW p \in Player
    PROVE  /\ With(s, p) \in Seq(Player) /\ OnceIn(With(s, p))
           /\ s # << >> => With(s, p) # << >> /\ Head(With(s, p)) = Head(s)
    BY AppendKeeps DEF With

LEMMA OneMember ==
    ASSUME NEW p \in Player
    PROVE  << p >> \in Seq(Player) /\ OnceIn(<< p >>) /\ << p >> # << >> /\ Head(<< p >>) = p
<1>1. << p >> \in Seq(Player) /\ Len(<< p >>) = 1
    OBVIOUS
<1>2. OnceIn(<< p >>)
  <2> DEFINE s == << p >>
  <2>1. s \in Seq(Player) /\ \A i, j \in 1 .. Len(s) : s[i] = s[j] => i = j
      BY <1>1
  <2> HIDE DEF s
  <2>2. OnceIn(s)
      BY <2>1, OnceInMeans
  <2> QED BY <2>2 DEF s
<1> QED BY <1>1, <1>2

LEMMA NoMember == << >> \in Seq(Player) /\ OnceIn(<< >>) /\ \A m : ~ Contains(<< >>, m)
<1>1. << >> \in Seq(Player) /\ Len(<< >>) = 0
    OBVIOUS
<1>2. \A m : ~ Contains(<< >>, m)
    BY <1>1 DEF Contains
<1> DEFINE s == << >>
<1>3. s \in Seq(Player) /\ \A i, j \in 1 .. Len(s) : s[i] = s[j] => i = j
    BY <1>1
<1> HIDE DEF s
<1>4. OnceIn(s)
    BY <1>3, OnceInMeans
<1> QED BY <1>1, <1>2, <1>4 DEF s

LEMMA HeadAndTail ==
    ASSUME NEW s \in Seq(Player), OnceIn(s), s # << >>
    PROVE  /\ Head(s) \in Player /\ Contains(s, Head(s))
           /\ Tail(s) \in Seq(Player) /\ OnceIn(Tail(s))
           /\ \A m : Contains(Tail(s), m) <=> Contains(s, m) /\ m # Head(s)
<1> DEFINE t == Tail(s)
<1>0. Len(s) \in Nat \ {0} /\ Head(s) = s[1]
    BY LenProperties, EmptySeq
<1>1. /\ t \in Seq(Player) /\ Len(t) = Len(s) - 1 /\ Head(s) \in Player
      /\ \A i \in 1 .. Len(t) : t[i] = s[i + 1]
    BY HeadTailProperties
<1> HIDE DEF t
<1>2. \A k, l \in 1 .. Len(s) : s[k] = s[l] => k = l
    BY OnceInMeans
<1>3. OnceIn(t)
  <2>1. SUFFICES ASSUME NEW i \in 1 .. Len(t), NEW j \in 1 .. Len(t), t[i] = t[j] PROVE i = j
      BY <1>1, OnceInMeans
  <2> QED BY <1>0, <1>1, <1>2, <2>1
<1>4. ASSUME NEW m PROVE Contains(t, m) <=> Contains(s, m) /\ m # Head(s)
  <2>1. ASSUME Contains(t, m) PROVE Contains(s, m) /\ m # Head(s)
    <3>1. PICK i \in 1 .. Len(t) : t[i] = m
        BY <2>1 DEF Contains
    <3>2. i + 1 \in 1 .. Len(s) /\ 1 \in 1 .. Len(s) /\ s[i + 1] = m /\ i + 1 # 1
        BY <1>0, <1>1, <3>1
    <3> QED BY <1>0, <1>2, <3>2 DEF Contains
  <2>2. ASSUME Contains(s, m), m # Head(s) PROVE Contains(t, m)
    <3>1. PICK i \in 1 .. Len(s) : s[i] = m
        BY <2>2 DEF Contains
    <3>2. i - 1 \in 1 .. Len(t) /\ t[i - 1] = m
        BY <1>0, <1>1, <2>2, <3>1
    <3> QED BY <3>2 DEF Contains
  <2> QED BY <2>1, <2>2
<1>5. Contains(s, Head(s))
    BY <1>0 DEF Contains
<1> QED BY <1>1, <1>3, <1>4, <1>5 DEF t

-----------------------------------------------------------------------------
(* Types, and what goes with them.                                          *)

Stages == {"idle"} \cup Dialogs \cup Working
JobRec == [at : Stages, squad : SquadId \cup {None}, battle : BattleId \cup {None},
           todo : Seq(Player)]
SquadRec == [status : 0 .. 2, leader : Player \cup {Nobody}, members : Seq(Player),
             banned : SUBSET Player, timer : BOOLEAN]
BattleRec == [live : BOOLEAN, chars : SUBSET Player, dced : SUBSET Player,
              timer : {"off", "armed", "due", "evict", "reset"}]

\* A LinkedHashMap holds a name once.
SquadsSound ==
    /\ squadOn \in SquadId \cup {None}
    /\ squad \in [SquadId -> SquadRec]
    /\ queue \in Seq(Player)
    /\ \A s \in SquadId : OnceIn(squad[s].members)
    /\ Waiting

\* dispose_NoLock clears the lists.
BattlesSound ==
    /\ state \in {"0", "1"}
    /\ named \in BattleId \cup {None}
    /\ battle \in [BattleId -> BattleRec]
    /\ \A b \in BattleId : ~ battle[b].live => battle[b].chars = {} /\ battle[b].dced = {}

PeopleSound ==
    /\ where \in [Player -> {"shrine", "arena", "away", "gone"}]
    /\ inst \in [Player -> BattleId \cup {None}]
    /\ tried \in [Player -> BOOLEAN]

\* A thread that works with a battle holds one, and registers nobody twice.
JobSound(j) ==
    /\ OnceIn(j.todo)
    /\ j.at \in {"starting", "entering", "reentering", "leaving", "checking"} => j.battle \in BattleId
    /\ j.at \in {"starting", "entering"} => j.squad \in SquadId
    /\ j.at \in {"entering", "reentering"} => j.todo # << >>
JobsSound == job \in [Player -> JobRec] /\ \A p \in Player : JobSound(job[p])

Sound == SquadsSound /\ BattlesSound /\ PeopleSound /\ JobsSound

LEMMA SoundTypes == Sound /\ lapses \subseteq Lapse => TypeOK /\ Waiting
    BY DEF Sound, SquadsSound, BattlesSound, PeopleSound, JobsSound, TypeOK, JobRec, SquadRec,
           BattleRec, Stages

-----------------------------------------------------------------------------
(* Squads.                                                                  *)

LEMMA FreshRecords ==
    /\ NoSquad \in SquadRec /\ OnceIn(NoSquad.members) /\ NoSquad.status = 0
    /\ \A p \in Player : /\ NewSquad(p) \in SquadRec /\ OnceIn(NewSquad(p).members)
                         /\ NewSquad(p).timer
<1>1. NoSquad \in SquadRec
    BY NoMember DEF NoSquad, SquadRec
<1>2. OnceIn(NoSquad.members) /\ NoSquad.status = 0
    BY NoMember DEF NoSquad
<1>3. ASSUME NEW p \in Player
      PROVE  NewSquad(p) \in SquadRec /\ OnceIn(NewSquad(p).members) /\ NewSquad(p).timer
  <2>1. << p >> \in Seq(Player) /\ OnceIn(<< p >>)
      BY OneMember
  <2>2. NewSquad(p).members = << p >> /\ NewSquad(p).timer
      BY DEF NewSquad
  <2>3. NewSquad(p) \in SquadRec
      BY <2>1 DEF NewSquad, SquadRec
  <2> QED BY <2>1, <2>2, <2>3
<1> QED BY <1>1, <1>2, <1>3

LEMMA ClearSquadSound ==
    ASSUME SquadsSound, NEW s \in SquadId, ClearSquad(s), queue' \in Seq(Player)
    PROVE  SquadsSound'
<1>1. squad' = [squad EXCEPT ![s] = NoSquad] /\ squadOn' = None
    BY DEF ClearSquad
<1>2. squad' \in [SquadId -> SquadRec] /\ \A t \in SquadId : OnceIn(squad'[t].members)
    BY <1>1, FreshRecords DEF SquadsSound
<1> QED BY <1>1, <1>2, SquadAssumption DEF SquadsSound, Waiting

LEMMA ClearAndCopySound ==
    ASSUME SquadsSound, NEW s \in SquadId, ClearAndCopy(s)
    PROVE  SquadsSound'
<1>1. CASE Turns = {} /\ ClearSquad(s) /\ queue' = << >>
  <2>1. queue' \in Seq(Player)
      BY <1>1, NoMember
  <2> QED BY <1>1, <2>1, ClearSquadSound
<1>2. CASE \E i \in Turns, n \in FreeAfter(s) :
              /\ \A j \in Turns : i <= j
              /\ n = CHOOSE f \in FreeAfter(s) : TRUE
              /\ squad' = [squad EXCEPT ![s] = NoSquad, ![n] = NewSquad(queue[i])]
              /\ squadOn' = n
              /\ queue' = SubSeq(queue, i + 1, Len(queue))
  <2>1. PICK i \in Turns, n \in FreeAfter(s) :
              /\ squad' = [squad EXCEPT ![s] = NoSquad, ![n] = NewSquad(queue[i])]
              /\ squadOn' = n
              /\ queue' = SubSeq(queue, i + 1, Len(queue))
      BY <1>2
  <2>2. i \in 1 .. Len(queue) /\ n \in SquadId /\ queue[i] \in Player /\ Len(queue) \in Nat
      BY LenProperties, ElementOfSeq DEF Turns, FreeAfter, SquadsSound
  <2>3. queue' \in Seq(Player)
    <3>1. i + 1 \in Int /\ Len(queue) \in Int /\ \A j \in i + 1 .. Len(queue) : queue[j] \in Player
        BY <2>2, ElementOfSeq DEF SquadsSound
    <3> QED BY <2>1, <3>1, SubSeqProperties
  <2> DEFINE new == NewSquad(queue[i])
  <2>4. new \in SquadRec /\ OnceIn(new.members) /\ new.timer
      BY <2>2, FreshRecords
  <2>5. squad' = [squad EXCEPT ![s] = NoSquad, ![n] = new] /\ squadOn' = n
      BY <2>1
  <2> HIDE DEF new
  <2> QED BY <2>2, <2>3, <2>4, <2>5, FreshRecords DEF SquadsSound, Waiting
<1> QED BY <1>1, <1>2 DEF ClearAndCopy

\* A new list of members; the rest of the squad is as it was, but for the ban.
LEMMA MembersSound ==
    ASSUME SquadsSound, NEW s \in SquadId, NEW m \in Seq(Player), OnceIn(m),
           UNCHANGED << squadOn, queue >>,
           \/ squad' = [squad EXCEPT ![s].members = m]
           \/ \E x \in SUBSET Player : squad' = [squad EXCEPT ![s].members = m, ![s].banned = x]
    PROVE  SquadsSound'
<1> DEFINE Renewed == /\ squad' \in [SquadId -> SquadRec]
                      /\ squad'[s].members = m /\ squad'[s].status = squad[s].status
                      /\ squad'[s].timer = squad[s].timer
                      /\ \A t \in SquadId \ {s} : squad'[t] = squad[t]
<1>0. squad \in [SquadId -> SquadRec] /\ squad[s] \in SquadRec
    BY DEF SquadsSound
<1>1. ASSUME squad' = [squad EXCEPT ![s].members = m] PROVE Renewed
  <2>1. [squad[s] EXCEPT !.members = m] \in SquadRec
      BY <1>0 DEF SquadRec
  <2> QED BY <1>0, <1>1, <2>1 DEF SquadRec
<1>2. ASSUME NEW x \in SUBSET Player, squad' = [squad EXCEPT ![s].members = m, ![s].banned = x]
      PROVE  Renewed
  <2>1. [squad[s] EXCEPT !.members = m, !.banned = x] \in SquadRec
      BY <1>0 DEF SquadRec
  <2> QED BY <1>0, <1>2, <2>1 DEF SquadRec
<1>3. Renewed
    BY <1>1, <1>2
<1> QED BY <1>3 DEF SquadsSound, Waiting

LEMMA GoesAwaySound ==
    ASSUME SquadsSound, NEW p \in Player, NEW to, GoesAway(p, to)
    PROVE  SquadsSound'
<1>1. CASE UNCHANGED squadVars
    BY <1>1 DEF SquadsSound, squadVars, Waiting
<1>2. CASE CheckStates(p)
  <2> DEFINE fighting == squadOn # None /\ squad[squadOn].status = 2
  <2>1. CASE fighting /\ Fighters \ {p} = {}
    <3>1. squadOn \in SquadId /\ ClearAndCopy(squadOn)
        BY <1>2, <2>1 DEF CheckStates, SquadsSound
    <3> QED BY <3>1, ClearAndCopySound
  <2>2. CASE fighting /\ Fighters \ {p} # {}
    <3>1. /\ squadOn \in SquadId /\ UNCHANGED << squadOn, queue >>
          /\ squad' = [squad EXCEPT ![squadOn].members = Without(@, p)]
        BY <1>2, <2>2 DEF CheckStates, SquadsSound
    <3> DEFINE m == Without(squad[squadOn].members, p)
    <3>2. m \in Seq(Player) /\ OnceIn(m)
        BY <3>1, WithoutKeeps DEF SquadsSound, SquadRec
    <3>3. squad' = [squad EXCEPT ![squadOn].members = m]
        BY <3>1
    <3> HIDE DEF m
    <3> QED BY <3>1, <3>2, <3>3, MembersSound
  <2>3. CASE ~ fighting
      BY <1>2, <2>3 DEF CheckStates, SquadsSound, Waiting
  <2> QED BY <2>1, <2>2, <2>3
<1> QED BY <1>1, <1>2 DEF GoesAway, squadVars

-----------------------------------------------------------------------------
(* Threads.                                                                 *)

LEMMA JobKept ==
    ASSUME JobsSound, NEW p \in Player, NEW j \in JobRec, JobSound(j), job' = [job EXCEPT ![p] = j]
    PROVE  JobsSound'
    BY DEF JobsSound

LEMMA IdleSound == Idle \in JobRec /\ JobSound(Idle)
<1>1. Idle \in JobRec
    BY NoMember DEF Idle, Doing, JobRec, Stages
<1>2. Idle.todo = << >> /\ Idle.at = "idle"
    BY DEF Idle, Doing
<1> QED BY <1>1, <1>2, NoMember DEF JobSound

LEMMA FinishesSound ==
    ASSUME JobsSound, NEW p \in Player, Finishes(p)
    PROVE  JobsSound'
    BY IdleSound, JobKept DEF Finishes

Plain == Stages \ {"starting", "entering", "reentering", "leaving", "checking"}

LEMMA GoesSound ==
    ASSUME JobsSound, NEW p \in Player, NEW at \in Stages, Goes(p, at),
           \/ at \in Plain
           \/ at \in {"leaving", "checking"} /\ job[p].battle \in BattleId
    PROVE  JobsSound'
<1> DEFINE j == [job[p] EXCEPT !.at = at]
<1>1. job[p] \in JobRec /\ OnceIn(job[p].todo)
    BY DEF JobsSound, JobSound
<1>2. j \in JobRec /\ j.at = at /\ j.todo = job[p].todo /\ j.battle = job[p].battle
    BY <1>1 DEF JobRec
<1>3. job' = [job EXCEPT ![p] = j]
    BY DEF Goes
<1> HIDE DEF j
<1>4. JobSound(j)
    BY <1>1, <1>2 DEF JobSound, Plain
<1> QED BY <1>2, <1>3, <1>4, JobKept

LEMMA PlainStages ==
    {"idle", "asked", "leading", "joining", "rejoining", "reserving", "adding", "resetting",
     "departing", "quitting"} \subseteq Plain /\ Plain \subseteq Stages
    BY DEF Plain, Stages, Dialogs, Working, Leaving

\* A player opens its eyes on something new: the thread goes from Idle.
LEMMA DoingFields ==
    \A at, s, b, todo : LET j == Doing(at, s, b, todo)
                        IN  j.at = at /\ j.squad = s /\ j.battle = b /\ j.todo = todo
    BY DEF Doing

LEMMA StageSound ==
    ASSUME JobsSound, NEW p \in Player, NEW at \in Plain, NEW b \in BattleId \cup {None},
           NEW s \in SquadId \cup {None},
           job' = [job EXCEPT ![p] = Doing(at, s, b, << >>)]
    PROVE  JobsSound'
<1> DEFINE j == Doing(at, s, b, << >>)
<1>1. j \in JobRec /\ j.todo = << >> /\ j.at = at
    BY PlainStages, NoMember DEF JobRec, Doing
<1> HIDE DEF j
<1>2. JobSound(j)
    BY <1>1, NoMember DEF JobSound, Plain
<1>3. job' = [job EXCEPT ![p] = j]
    BY DEF j
<1> QED BY <1>1, <1>2, <1>3, JobKept

LEMMA BattlesKept ==
    ASSUME Sound, UNCHANGED battleVars PROVE BattlesSound'
    BY DEF Sound, BattlesSound, battleVars
LEMMA SquadsKept ==
    ASSUME Sound, UNCHANGED squadVars PROVE SquadsSound'
    BY DEF Sound, SquadsSound, squadVars, Waiting
LEMMA PeopleKept ==
    ASSUME Sound, UNCHANGED charVars PROVE PeopleSound'
    BY DEF Sound, PeopleSound, charVars
LEMMA JobsAsTheyWere ==
    ASSUME Sound, UNCHANGED job PROVE JobsSound'
    BY DEF Sound, JobsSound

LEMMA ChatsSound ==
    ASSUME Sound, NEW p \in Player, Chats(p)
    PROVE  Sound'
<1>0. SquadsSound /\ BattlesSound /\ PeopleSound /\ JobsSound
    BY DEF Sound
<1>1. CASE AskToLead(p)
  <2>1. Goes(p, "asked") /\ UNCHANGED battleVars /\ UNCHANGED squadVars /\ UNCHANGED charVars
      BY <1>1 DEF AskToLead
  <2>2. JobsSound'
      BY <1>0, <2>1, GoesSound, PlainStages
  <2> QED BY <1>0, <2>1, <2>2, BattlesKept, SquadsKept, PeopleKept DEF Sound
<1>2. CASE OpenMenu(p)
  <2>1. UNCHANGED battleVars /\ UNCHANGED squadVars /\ UNCHANGED charVars
      BY <1>2 DEF OpenMenu
  <2>2. JobsSound'
    <3>1. CASE job' = [job EXCEPT ![p] = Doing("leading", squadOn, None, << >>)]
      <4>2. squadOn \in SquadId \cup {None} /\ None \in BattleId \cup {None} /\ "leading" \in Plain
          BY <1>0, PlainStages DEF SquadsSound
      <4> QED BY <1>0, <3>1, <4>2, StageSound
    <3>2. CASE Goes(p, "joining")
        BY <1>0, <3>2, GoesSound, PlainStages
    <3> QED BY <1>2, <3>1, <3>2 DEF OpenMenu
  <2> QED BY <1>0, <2>1, <2>2, BattlesKept, SquadsKept, PeopleKept DEF Sound
<1>3. CASE OfferReturn(p)
  <2>1. Goes(p, "rejoining") /\ UNCHANGED battleVars /\ UNCHANGED squadVars /\ UNCHANGED charVars
      BY <1>3 DEF OfferReturn
  <2>2. JobsSound'
      BY <1>0, <2>1, GoesSound, PlainStages
  <2> QED BY <1>0, <2>1, <2>2, BattlesKept, SquadsKept, PeopleKept DEF Sound
<1>4. CASE OfferReservation(p)
  <2>1. Goes(p, "reserving") /\ UNCHANGED battleVars /\ UNCHANGED squadVars /\ UNCHANGED charVars
      BY <1>4 DEF OfferReservation
  <2>2. JobsSound'
      BY <1>0, <2>1, GoesSound, PlainStages
  <2> QED BY <1>0, <2>1, <2>2, BattlesKept, SquadsKept, PeopleKept DEF Sound
<1>5. CASE Close(p)
  <2>1. Finishes(p) /\ UNCHANGED battleVars /\ UNCHANGED squadVars /\ UNCHANGED charVars
      BY <1>5 DEF Close
  <2> QED BY <1>0, <2>1, FinishesSound, BattlesKept, SquadsKept, PeopleKept DEF Sound
<1>6. CASE Register(p)
  <2>1. Goes(p, "adding") /\ UNCHANGED battleVars /\ UNCHANGED squadVars /\ UNCHANGED charVars
      BY <1>6 DEF Register
  <2>2. JobsSound'
      BY <1>0, <2>1, GoesSound, PlainStages
  <2> QED BY <1>0, <2>1, <2>2, BattlesKept, SquadsKept, PeopleKept DEF Sound
<1>7. CASE LoseLeader(p)
  <2>1. Finishes(p) /\ UNCHANGED battleVars /\ UNCHANGED charVars
        /\ squadOn # None /\ ClearSquad(squadOn) /\ UNCHANGED queue
      BY <1>7 DEF LoseLeader
  <2>2. SquadsSound'
      BY <1>0, <2>1, ClearSquadSound DEF SquadsSound
  <2> QED BY <1>0, <2>1, <2>2, FinishesSound, BattlesKept, PeopleKept DEF Sound
<1>8. CASE Join(p) \/ Withdraw(p) \/ Ban(p) \/ Accept(p)
  <2>1. /\ Finishes(p) /\ UNCHANGED battleVars /\ UNCHANGED charVars
        /\ squadOn # None /\ UNCHANGED << squadOn, queue >>
      BY <1>8 DEF Join, Withdraw, Ban, Accept, Answers
  <2>2. squadOn \in SquadId /\ squad[squadOn].members \in Seq(Player)
        /\ OnceIn(squad[squadOn].members) /\ squad[squadOn].banned \in SUBSET Player
      BY <1>0, <2>1 DEF SquadsSound, SquadRec
  <2> DEFINE members == squad[squadOn].members
             New(m) == m \in Seq(Player) /\ OnceIn(m) /\ UNCHANGED << squadOn, queue >>
                       /\ \/ squad' = [squad EXCEPT ![squadOn].members = m]
                          \/ \E x \in SUBSET Player :
                                squad' = [squad EXCEPT ![squadOn].members = m, ![squadOn].banned = x]
  <2>3. \E m \in Seq(Player) : New(m)
    <3>1. CASE Join(p)
      <4>1. squad' = [squad EXCEPT ![squadOn].members = With(members, p)]
          BY <3>1 DEF Join
      <4>2. With(members, p) \in Seq(Player) /\ OnceIn(With(members, p))
          BY <2>2, WithKeeps
      <4> QED BY <2>1, <4>1, <4>2
    <3>2. CASE Withdraw(p)
      <4>1. squad' = [squad EXCEPT ![squadOn].members = Without(members, p)]
          BY <3>2 DEF Withdraw
      <4>2. Without(members, p) \in Seq(Player) /\ OnceIn(Without(members, p))
          BY <2>2, WithoutKeeps
      <4> QED BY <2>1, <4>1, <4>2
    <3>3. CASE Ban(p)
      <4>1. PICK i \in 2 .. Len(members) :
                squad' = [squad EXCEPT ![squadOn].members = Without(members, members[i]),
                                       ![squadOn].banned = @ \cup {members[i]}]
          BY <3>3 DEF Ban
      <4>2. members[i] \in Player
          BY <2>2, ElementOfSeq
      <4>3. Without(members, members[i]) \in Seq(Player) /\ OnceIn(Without(members, members[i]))
          BY <2>2, WithoutKeeps
      <4>4. squad[squadOn].banned \cup {members[i]} \in SUBSET Player
          BY <2>2, <4>2
      <4> QED BY <2>1, <4>1, <4>3, <4>4
    <3>4. CASE Accept(p)
      <4>1. PICK q \in squad[squadOn].banned :
                squad' = [squad EXCEPT ![squadOn].members = With(members, q),
                                       ![squadOn].banned = @ \ {q}]
          BY <3>4 DEF Accept
      <4>2. q \in Player /\ With(members, q) \in Seq(Player) /\ OnceIn(With(members, q))
          BY <2>2, WithKeeps
      <4>3. squad[squadOn].banned \ {q} \in SUBSET Player
          BY <2>2
      <4> QED BY <2>1, <4>1, <4>2, <4>3
    <3> QED BY <1>8, <3>1, <3>2, <3>3, <3>4
  <2>4. SquadsSound'
      BY <1>0, <2>2, <2>3, MembersSound
  <2> QED BY <1>0, <2>1, <2>4, FinishesSound, BattlesKept, PeopleKept DEF Sound
<1>9. CASE Reserve(p)
  <2>1. Finishes(p) /\ UNCHANGED battleVars /\ UNCHANGED charVars
        /\ UNCHANGED squadOn /\ UNCHANGED squad
        /\ queue' = IF Contains(queue, p) THEN Without(queue, p) ELSE Append(queue, p)
      BY <1>9 DEF Reserve, Answers
  <2>2. queue' \in Seq(Player)
    <3>1. queue \in Seq(Player) /\ Without(queue, p) \in Seq(Player)
        BY <1>0, WithoutIn DEF SquadsSound
    <3>2. Append(queue, p) \in Seq(Player)
        BY <3>1, AppendProperties
    <3> QED BY <2>1, <3>1, <3>2
  <2>3. SquadsSound'
      BY <1>0, <2>1, <2>2 DEF SquadsSound, Waiting
  <2> QED BY <1>0, <2>1, <2>3, FinishesSound, BattlesKept, PeopleKept DEF Sound
<1>10. CASE Start(p)
  <2>1. PICK b \in BattleId : /\ battle' = [battle EXCEPT ![b] = NewBattle] /\ named' = b
                             /\ job' = [job EXCEPT ![p] = Doing("starting", squadOn, b, squad[squadOn].members)]
      BY <1>10 DEF Start
  <2>2. /\ squadOn # None /\ state' = "1" /\ UNCHANGED squadVars /\ UNCHANGED charVars
      BY <1>10 DEF Start
  <2>3. squadOn \in SquadId /\ squad[squadOn].members \in Seq(Player) /\ OnceIn(squad[squadOn].members)
      BY <1>0, <2>2 DEF SquadsSound, SquadRec
  <2> DEFINE j == Doing("starting", squadOn, b, squad[squadOn].members)
  <2>4. j \in JobRec /\ JobSound(j)
      BY <2>3 DEF JobRec, JobSound, Doing, Stages, Working
  <2> HIDE DEF j
  <2>5. job' = [job EXCEPT ![p] = j]
      BY <2>1 DEF j
  <2>6. JobsSound'
      BY <1>0, <2>4, <2>5, JobKept
  <2>7. NewBattle \in BattleRec /\ NewBattle.live
      BY DEF NewBattle, BattleRec
  <2>8. BattlesSound'
      BY <1>0, <2>1, <2>2, <2>7 DEF BattlesSound
  <2> QED BY <1>0, <2>2, <2>6, <2>8, SquadsKept, PeopleKept DEF Sound
<1>11. CASE Rejoin(p)
  <2>1. /\ squadOn # None /\ MayReturn(p)
        /\ squad' = [squad EXCEPT ![squadOn].members = Append(Without(@, p), p)]
        /\ battle' = [battle EXCEPT ![named].chars = @ \cup {p}]
        /\ job' = [job EXCEPT ![p] = Doing("reentering", None, named, << p >>)]
        /\ UNCHANGED << state, named, squadOn, queue >> /\ UNCHANGED charVars
      BY <1>11 DEF Rejoin
  <2>2. named \in BattleId /\ battle[named].live
      BY <1>0, <2>1 DEF MayReturn, BattlesSound
  <2> DEFINE j == Doing("reentering", None, named, << p >>)
             w == Without(squad[squadOn].members, p)
             m == Append(w, p)
  <2>3. j \in JobRec /\ JobSound(j)
    <3>1. << p >> \in Seq(Player) /\ OnceIn(<< p >>) /\ << p >> # << >>
        BY OneMember
    <3> QED BY <2>2, <3>1 DEF JobRec, JobSound, Doing, Stages, Working
  <2>4. w \in Seq(Player) /\ OnceIn(w) /\ ~ Contains(w, p)
      BY <1>0, <2>1, WithoutKeeps DEF SquadsSound, SquadRec
  <2> HIDE DEF w
  <2>5. m \in Seq(Player) /\ OnceIn(m)
      BY <2>4, AppendKeeps
  <2>6. squad' = [squad EXCEPT ![squadOn].members = m]
      BY <2>1 DEF w
  <2> HIDE DEF j, m
  <2>7. job' = [job EXCEPT ![p] = j]
      BY <2>1 DEF j
  <2>8. JobsSound'
      BY <1>0, <2>3, <2>7, JobKept
  <2>9. SquadsSound'
    <3>1. squadOn \in SquadId
        BY <1>0, <2>1 DEF SquadsSound
    <3> QED BY <1>0, <2>1, <2>5, <2>6, <3>1, MembersSound
  <2>10. BattlesSound'
      BY <1>0, <2>1, <2>2 DEF BattlesSound, BattleRec
  <2> QED BY <1>0, <2>1, <2>8, <2>9, <2>10, PeopleKept DEF Sound
<1> QED BY <1>1, <1>2, <1>3, <1>4, <1>5, <1>6, <1>7, <1>8, <1>9, <1>10, <1>11 DEF Chats

-----------------------------------------------------------------------------
(* Handlers, moves and timers keep what is sound.                          *)

LEMMA AddSquadSound ==
    ASSUME Sound, NEW p \in Player, AddSquad(p)
    PROVE  Sound'
<1>0. SquadsSound /\ BattlesSound /\ PeopleSound /\ JobsSound
    BY DEF Sound
<1>1. Finishes(p) /\ UNCHANGED battleVars /\ UNCHANGED charVars
      /\ UNCHANGED queue
    BY DEF AddSquad
<1>2. SquadsSound'
  <2>1. CASE squadOn = None /\ \E s \in SquadId :
                 /\ s = CHOOSE n \in SquadId : UnusedSquad(n)
                 /\ squad' = [squad EXCEPT ![s] = NewSquad(p)]
                 /\ squadOn' = s
    <3>1. PICK s \in SquadId : squad' = [squad EXCEPT ![s] = NewSquad(p)] /\ squadOn' = s
        BY <2>1
    <3> DEFINE new == NewSquad(p)
    <3>2. new \in SquadRec /\ OnceIn(new.members) /\ new.timer
        BY FreshRecords
    <3>3. squad' = [squad EXCEPT ![s] = new] /\ squadOn' = s
        BY <3>1
    <3> HIDE DEF new
    <3> QED BY <1>0, <1>1, <3>2, <3>3 DEF SquadsSound, Waiting
  <2>2. CASE squadOn' = None /\ UNCHANGED squad
      BY <1>0, <1>1, <2>2, SquadAssumption DEF SquadsSound, Waiting
  <2> QED BY <2>1, <2>2 DEF AddSquad
<1> QED BY <1>0, <1>1, <1>2, FinishesSound, BattlesKept, PeopleKept DEF Sound

LEMMA RegisterMemberSound ==
    ASSUME Sound, NEW p \in Player, RegisterMember(p)
    PROVE  Sound'
<1>0. SquadsSound /\ BattlesSound /\ PeopleSound /\ JobsSound
    BY DEF Sound
<1> DEFINE m == Head(job[p].todo)
           b == job[p].battle
           adds == where[m] = "shrine" /\ battle[b].live
<1>1. /\ At(p, "starting") /\ job[p].todo # << >>
      /\ tried' = [tried EXCEPT ![m] = @ \/ where[m] = "shrine"]
      /\ battle' = IF adds THEN [battle EXCEPT ![b].chars = @ \cup {m}] ELSE battle
      /\ job' = IF adds THEN [job EXCEPT ![p].at = "entering"] ELSE [job EXCEPT ![p].todo = Tail(@)]
      /\ UNCHANGED << state, named >> /\ UNCHANGED squadVars /\ UNCHANGED << where, inst >>
    BY DEF RegisterMember
<1>2. /\ job[p] \in JobRec /\ OnceIn(job[p].todo) /\ job[p].todo \in Seq(Player)
      /\ b \in BattleId /\ job[p].squad \in SquadId
    BY <1>0, <1>1 DEF JobsSound, JobSound, At, JobRec
<1>3. /\ m \in Player /\ Tail(job[p].todo) \in Seq(Player) /\ OnceIn(Tail(job[p].todo))
    BY <1>1, <1>2, HeadAndTail
<1>4. JobsSound'
  <2>1. CASE adds
    <3> DEFINE j == [job[p] EXCEPT !.at = "entering"]
    <3>1. job' = [job EXCEPT ![p] = j]
        BY <1>1, <2>1
    <3>2. j \in JobRec /\ JobSound(j)
        BY <1>1, <1>2 DEF JobRec, JobSound, Stages, Working
    <3> HIDE DEF j
    <3> QED BY <1>0, <3>1, <3>2, JobKept
  <2>2. CASE ~ adds
    <3> DEFINE t == Tail(job[p].todo)
               j == [job[p] EXCEPT !.todo = t]
    <3>1. job' = [job EXCEPT ![p] = j]
        BY <1>1, <2>2
    <3> HIDE DEF t
    <3>2. t \in Seq(Player) /\ OnceIn(t)
        BY <1>3 DEF t
    <3>3. j \in JobRec /\ JobSound(j)
        BY <1>1, <1>2, <3>2 DEF JobRec, JobSound, At
    <3> HIDE DEF j
    <3> QED BY <1>0, <3>1, <3>3, JobKept
  <2> QED BY <2>1, <2>2
<1>5. BattlesSound'
  <2>1. CASE adds
    <3>1. PICK c \in BattleId, n \in Player : c = b /\ n = m
        BY <1>2, <1>3
    <3>2. battle' = [battle EXCEPT ![c].chars = @ \cup {n}] /\ battle[c].live /\ battle[c] \in BattleRec
        BY <1>0, <1>1, <2>1, <3>1 DEF BattlesSound
    <3>3. /\ battle'[c].live /\ battle'[c] \in BattleRec
          /\ \A d \in BattleId \ {c} : battle'[d] = battle[d]
        BY <1>0, <3>2 DEF BattlesSound, BattleRec
    <3>4. battle' \in [BattleId -> BattleRec]
        BY <1>0, <3>2, <3>3 DEF BattlesSound
    <3> QED BY <1>0, <1>1, <3>3, <3>4 DEF BattlesSound
  <2>2. CASE ~ adds
      BY <1>0, <1>1, <2>2 DEF BattlesSound
  <2> QED BY <2>1, <2>2
<1>6. PeopleSound'
    BY <1>0, <1>1, <1>3 DEF PeopleSound
<1> QED BY <1>0, <1>1, <1>4, <1>5, <1>6, SquadsKept DEF Sound

\* What becomes of the threads when a player is warped in.
Warped(p) ==
    LET m == Head(job[p].todo)
    IN  [q \in Player |->
            CASE q = p /\ job[q].at = "entering" ->
                     [job[q] EXCEPT !.at = "starting", !.todo = Tail(@)]
              [] q = p /\ job[q].at = "reentering" -> Idle
              [] q = m /\ q # p /\ job[q].at \in Dialogs -> Idle
              [] OTHER -> job[q]]

LEMMA EnterMeans ==
    ASSUME NEW p \in Player, Enter(p)
    PROVE  /\ job[p].at \in {"entering", "reentering"}
           /\ inst' = [inst EXCEPT ![Head(job[p].todo)] = job[p].battle]
           /\ \/ where' = [where EXCEPT ![Head(job[p].todo)] = "arena"]
              \/ "refused" \in lapses' /\ UNCHANGED where
           /\ job' = Warped(p)
           /\ UNCHANGED battleVars /\ UNCHANGED squadVars /\ UNCHANGED tried
    BY DEF Enter, Warped

LEMMA WarpedJobs ==
    ASSUME JobsSound, NEW p \in Player, job[p].at \in {"entering", "reentering"}
    PROVE  /\ \A q \in Player \ {p} :
                Warped(p)[q] = IF q = Head(job[p].todo) /\ job[q].at \in Dialogs THEN Idle ELSE job[q]
           /\ job[p].at = "entering" =>
                Warped(p)[p] = [job[p] EXCEPT !.at = "starting", !.todo = Tail(@)]
           /\ job[p].at = "reentering" => Warped(p)[p] = Idle
           /\ Warped(p) = [q \in Player |-> Warped(p)[q]]
    BY DEF Warped

LEMMA EnterSound ==
    ASSUME Sound, NEW p \in Player, Enter(p)
    PROVE  Sound'
<1>0. SquadsSound /\ BattlesSound /\ PeopleSound /\ JobsSound
    BY DEF Sound
<1> DEFINE m == Head(job[p].todo)
<1>1. /\ job[p].at \in {"entering", "reentering"}
      /\ inst' = [inst EXCEPT ![m] = job[p].battle]
      /\ \/ where' = [where EXCEPT ![m] = "arena"]
         \/ UNCHANGED where
      /\ job' = Warped(p)
      /\ UNCHANGED battleVars /\ UNCHANGED squadVars /\ UNCHANGED tried
    BY EnterMeans
<1>2. /\ job[p] \in JobRec /\ OnceIn(job[p].todo) /\ job[p].todo \in Seq(Player) /\ job[p].todo # << >>
      /\ job[p].battle \in BattleId /\ (job[p].at = "entering" => job[p].squad \in SquadId)
    BY <1>0, <1>1 DEF JobsSound, JobSound, JobRec
<1>3. /\ m \in Player /\ Tail(job[p].todo) \in Seq(Player) /\ OnceIn(Tail(job[p].todo))
    BY <1>2, HeadAndTail
<1>4. ASSUME NEW q \in Player PROVE job'[q] \in JobRec /\ JobSound(job'[q])
  <2>1. CASE q # p
      BY <1>0, <1>1, <2>1, WarpedJobs, IdleSound DEF JobsSound
  <2>2. CASE q = p /\ job[p].at = "reentering"
      BY <1>0, <1>1, <2>2, WarpedJobs, IdleSound
  <2>3. CASE q = p /\ job[p].at = "entering"
    <3> DEFINE t == Tail(job[p].todo)
               j == [job[p] EXCEPT !.at = "starting", !.todo = t]
    <3>1. job'[q] = j
        BY <1>0, <1>1, <2>3, WarpedJobs
    <3> HIDE DEF t
    <3>2. t \in Seq(Player) /\ OnceIn(t)
        BY <1>3 DEF t
    <3>3. j \in JobRec /\ j.at = "starting" /\ j.todo = t /\ j.squad = job[p].squad
          /\ j.battle = job[p].battle
        BY <1>2, <2>3, <3>2 DEF JobRec, Stages, Working
    <3>4. JobSound(j)
        BY <1>2, <2>3, <3>2, <3>3 DEF JobSound
    <3> HIDE DEF j
    <3> QED BY <3>1, <3>3, <3>4
  <2> QED BY <1>1, <2>1, <2>2, <2>3
<1>5. JobsSound'
  <2>1. job' = [q \in Player |-> job'[q]]
      BY <1>0, <1>1, WarpedJobs
  <2> QED BY <1>4, <2>1 DEF JobsSound
<1>6. PeopleSound'
  <2> DEFINE b == job[p].battle
  <2>1. b \in BattleId /\ inst' = [inst EXCEPT ![m] = b]
      BY <1>1, <1>2
  <2> HIDE DEF b, m
  <2>2. inst' \in [Player -> BattleId \cup {None}]
      BY <1>0, <1>3, <2>1 DEF PeopleSound
  <2>3. where' \in [Player -> {"shrine", "arena", "away", "gone"}]
      BY <1>0, <1>1, <1>3 DEF PeopleSound
  <2>4. tried' \in [Player -> BOOLEAN]
      BY <1>0, <1>1 DEF PeopleSound
  <2> QED BY <2>2, <2>3, <2>4 DEF PeopleSound
<1> QED BY <1>0, <1>1, <1>5, <1>6, SquadsKept, BattlesKept DEF Sound

LEMMA SetStatusSound ==
    ASSUME Sound, NEW p \in Player, SetStatus(p)
    PROVE  Sound'
<1>0. SquadsSound /\ BattlesSound /\ PeopleSound /\ JobsSound
    BY DEF Sound
<1> DEFINE s == job[p].squad
<1>1. /\ Finishes(p) /\ UNCHANGED battleVars /\ UNCHANGED charVars
      /\ At(p, "starting") /\ UNCHANGED << squadOn, queue >>
      /\ squad' = [squad EXCEPT ![s].status = 2, ![s].timer = FALSE]
    BY DEF SetStatus
<1>2. s \in SquadId /\ squad[s] \in SquadRec
    BY <1>0, <1>1 DEF At, JobsSound, JobSound, SquadsSound
<1> DEFINE r == [squad[s] EXCEPT !.status = 2, !.timer = FALSE]
<1>3. r \in SquadRec /\ r.members = squad[s].members /\ r.status = 2
  <2>1. 2 \in 0 .. 2 /\ FALSE \in BOOLEAN
      OBVIOUS
  <2>2. r.status = 2 /\ r.members = squad[s].members
      BY <1>2 DEF SquadRec
  <2> QED BY <1>2, <2>1, <2>2 DEF SquadRec
<1>4. squad' = [squad EXCEPT ![s] = r]
    BY <1>1
<1> HIDE DEF r, s
<1>6. squad' \in [SquadId -> SquadRec] /\ \A t \in SquadId : OnceIn(squad'[t].members)
    BY <1>0, <1>2, <1>3, <1>4 DEF SquadsSound
<1>7. Waiting'
    BY <1>0, <1>1, <1>2, <1>3, <1>4 DEF SquadsSound, Waiting
<1>5. SquadsSound'
    BY <1>0, <1>1, <1>6, <1>7 DEF SquadsSound
<1> QED BY <1>0, <1>1, <1>5, FinishesSound, BattlesKept, PeopleKept DEF Sound

\* dispose_NoLock leaves a disposed instance.
LEMMA DisposeSound ==
    ASSUME BattlesSound, NEW b \in BattleId, Dispose(b)
    PROVE  BattlesSound'
<1>1. battle' = [battle EXCEPT ![b].live = FALSE, ![b].chars = {}, ![b].dced = {}] /\ battle[b] \in BattleRec
    BY DEF BattlesSound, Dispose
<1>2. /\ battle'[b].live = FALSE /\ battle'[b].chars = {} /\ battle'[b].dced = {}
      /\ battle'[b] \in BattleRec /\ \A c \in BattleId \ {b} : battle'[c] = battle[c]
    BY <1>1 DEF BattlesSound, BattleRec
<1>3. battle' \in [BattleId -> BattleRec]
    BY <1>1, <1>2 DEF BattlesSound
<1> QED BY <1>2, <1>3 DEF BattlesSound, Dispose

LEMMA UnregisterSound ==
    ASSUME Sound, NEW p \in Player, Unregister(p)
    PROVE  Sound'
<1>0. SquadsSound /\ BattlesSound /\ PeopleSound /\ JobsSound
    BY DEF Sound
<1> DEFINE b == job[p].battle
<1>1. /\ At(p, "leaving") /\ battle' = [battle EXCEPT ![b].chars = @ \ {p}]
      /\ inst' = [inst EXCEPT ![p] = None] /\ Goes(p, "checking")
      /\ UNCHANGED << state, named >> /\ UNCHANGED squadVars /\ UNCHANGED << where, tried >>
    BY DEF Unregister
<1>2. b \in BattleId
    BY <1>0, <1>1 DEF At, JobsSound, JobSound
<1>3. BattlesSound'
    BY <1>0, <1>1, <1>2 DEF BattlesSound, BattleRec
<1>4. PeopleSound'
    BY <1>0, <1>1 DEF PeopleSound
<1>5. JobsSound'
    BY <1>0, <1>1, <1>2, GoesSound DEF Stages, Working, Leaving
<1> QED BY <1>0, <1>1, <1>3, <1>4, <1>5, SquadsKept DEF Sound

LEMMA DisposeIfEmptySound ==
    ASSUME Sound, NEW p \in Player, DisposeIfEmpty(p)
    PROVE  Sound'
<1>0. SquadsSound /\ BattlesSound /\ PeopleSound /\ JobsSound
    BY DEF Sound
<1> DEFINE b == job[p].battle
<1>1. /\ At(p, "checking") /\ UNCHANGED squadVars /\ UNCHANGED charVars
      /\ Goes(p, "resetting") \/ Goes(p, "departing")
      /\ UNCHANGED battleVars \/ Dispose(b)
    BY DEF DisposeIfEmpty
<1>2. b \in BattleId
    BY <1>0, <1>1 DEF At, JobsSound, JobSound
<1>3. JobsSound'
    BY <1>0, <1>1, GoesSound, PlainStages
<1>4. BattlesSound'
    BY <1>0, <1>1, <1>2, DisposeSound, BattlesKept
<1> QED BY <1>0, <1>1, <1>3, <1>4, SquadsKept, PeopleKept DEF Sound

LEMMA DepartSound ==
    ASSUME Sound, NEW p \in Player, Depart(p) \/ Quit(p)
    PROVE  Sound'
<1>0. SquadsSound /\ BattlesSound /\ PeopleSound /\ JobsSound
    BY DEF Sound
<1>1. /\ Finishes(p) /\ UNCHANGED << named, battle, tried >>
      /\ inst' = inst \/ inst' = [inst EXCEPT ![p] = None]
      /\ \/ GoesAway(p, "away") \/ GoesAway(p, "gone")
         \/ UNCHANGED << where, state >> /\ UNCHANGED squadVars
    BY DEF Depart, Quit
<1>2. SquadsSound'
    BY <1>0, <1>1, GoesAwaySound, SquadsKept
<1>3. state' \in {"0", "1"} /\ where' \in [Player -> {"shrine", "arena", "away", "gone"}]
    BY <1>0, <1>1 DEF GoesAway, CheckStates, BattlesSound, PeopleSound
<1>4. BattlesSound' /\ PeopleSound'
    BY <1>0, <1>1, <1>3 DEF BattlesSound, PeopleSound
<1> QED BY <1>0, <1>1, <1>2, <1>4, FinishesSound DEF Sound

LEMMA WorksSound ==
    ASSUME Sound, NEW p \in Player, Works(p)
    PROVE  Sound'
<1>1. CASE Reset(p)
  <2>1. /\ state' = "0" /\ Goes(p, "departing") /\ UNCHANGED << named, battle >>
        /\ UNCHANGED squadVars /\ UNCHANGED charVars
      BY <1>1 DEF Reset
  <2>2. BattlesSound' /\ JobsSound'
    <3>1. BattlesSound'
        BY <2>1 DEF Sound, BattlesSound
    <3> QED BY <2>1, <3>1, GoesSound, PlainStages DEF Sound
  <2> QED BY <2>1, <2>2, SquadsKept, PeopleKept DEF Sound
<1> QED BY <1>1, AddSquadSound, RegisterMemberSound, EnterSound, SetStatusSound, UnregisterSound,
           DisposeIfEmptySound, DepartSound DEF Works

LEMMA MovesSound ==
    ASSUME Sound, NEW p \in Player, Moves(p)
    PROVE  Sound'
<1>0. SquadsSound /\ BattlesSound /\ PeopleSound /\ JobsSound
    BY DEF Sound
<1>1. CASE Leave(p)
  <2>1. /\ UNCHANGED battleVars /\ UNCHANGED squadVars /\ UNCHANGED charVars
      BY <1>1 DEF Leave
  <2>2. JobsSound'
    <3>1. CASE Alive(inst[p]) /\ job' = [job EXCEPT ![p] = Doing("leaving", None, inst[p], << >>)]
      <4> DEFINE j == Doing("leaving", None, inst[p], << >>)
      <4>1. inst[p] \in BattleId
          BY <3>1 DEF Alive
      <4>2. j \in JobRec /\ JobSound(j)
          BY <4>1, NoMember DEF JobRec, JobSound, Doing, Stages, Working, Leaving
      <4> HIDE DEF j
      <4>3. job' = [job EXCEPT ![p] = j]
          BY <3>1 DEF j
      <4> QED BY <1>0, <4>2, <4>3, JobKept
    <3>2. CASE job' = [job EXCEPT ![p] = Doing("departing", None, None, << >>)]
        BY <1>0, <3>2, StageSound, PlainStages
    <3> QED BY <1>1, <3>1, <3>2 DEF Leave
  <2> QED BY <1>0, <2>1, <2>2, BattlesKept, SquadsKept, PeopleKept DEF Sound
<1>2. CASE Walk(p)
  <2>1. /\ Finishes(p) /\ UNCHANGED battleVars /\ UNCHANGED squadVars
        /\ UNCHANGED << inst, tried >>
        /\ where' = [where EXCEPT ![p] = "away"] \/ where' = [where EXCEPT ![p] = "shrine"]
      BY <1>2 DEF Walk
  <2>2. PeopleSound'
      BY <1>0, <2>1 DEF PeopleSound
  <2> QED BY <1>0, <2>1, <2>2, FinishesSound, BattlesKept, SquadsKept DEF Sound
<1>3. CASE LogOut(p)
  <2> DEFINE b == inst[p]
  <2>1. /\ UNCHANGED squadVars /\ UNCHANGED << where, tried >>
        /\ job' = [job EXCEPT ![p] = Doing("quitting", None, None, << >>)]
      BY <1>3 DEF LogOut
  <2>2. JobsSound'
      BY <1>0, <2>1, StageSound, PlainStages
  <2>3. BattlesSound' /\ PeopleSound'
    <3>1. CASE UNCHANGED << battleVars, inst >>
        BY <1>0, <2>1, <3>1, BattlesKept DEF PeopleSound
    <3>2. CASE Alive(b) /\ inst' = [inst EXCEPT ![p] = None]
               /\ IF battle[b].chars \subseteq {p} THEN Dispose(b)
                  ELSE /\ \E alive \in BOOLEAN :
                             battle' = [battle EXCEPT
                                          ![b].chars = @ \ {p},
                                          ![b].dced = IF alive THEN @ \cup {p} ELSE @]
                       /\ UNCHANGED << state, named >>
      <4>1. b \in BattleId /\ battle[b].live
          BY <3>2 DEF Alive
      <4>2. PeopleSound'
          BY <1>0, <2>1, <3>2 DEF PeopleSound
      <4>3. CASE battle[b].chars \subseteq {p}
          BY <1>0, <3>2, <4>1, <4>2, <4>3, DisposeSound
      <4>4. CASE ~ (battle[b].chars \subseteq {p})
        <5>1. PICK alive \in BOOLEAN :
                  battle' = [battle EXCEPT ![b].chars = @ \ {p},
                                           ![b].dced = IF alive THEN @ \cup {p} ELSE @]
            BY <3>2, <4>4
        <5>2. UNCHANGED << state, named >>
            BY <3>2, <4>4
        <5>3. BattlesSound'
            BY <1>0, <4>1, <5>1, <5>2 DEF BattlesSound, BattleRec
        <5> QED BY <4>2, <5>3
      <4> QED BY <4>3, <4>4
    <3> QED BY <1>3, <3>1, <3>2 DEF LogOut
  <2> QED BY <1>0, <2>1, <2>2, <2>3, SquadsKept DEF Sound
<1>4. CASE LogIn(p)
  <2>1. /\ UNCHANGED battleVars /\ UNCHANGED squadVars /\ UNCHANGED job
        /\ UNCHANGED << inst, tried >> /\ where' = [where EXCEPT ![p] = "away"]
      BY <1>4 DEF LogIn
  <2>2. PeopleSound'
      BY <1>0, <2>1 DEF PeopleSound
  <2> QED BY <1>0, <2>1, <2>2, JobsAsTheyWere, BattlesKept, SquadsKept DEF Sound
<1> QED BY <1>1, <1>2, <1>3, <1>4 DEF Moves

LEMMA TimersSound ==
    ASSUME Sound, NEW b \in BattleId, BattleTimer(b)
    PROVE  Sound'
<1>0. SquadsSound /\ BattlesSound /\ PeopleSound /\ JobsSound
    BY DEF Sound
<1>1. CASE TimeUp(b) \/ TakeLock(b) \/ CloseBattle(b) \/ ResetState(b)
  <2>1. /\ UNCHANGED squadVars /\ UNCHANGED charVars /\ UNCHANGED job
      BY <1>1 DEF TimeUp, TakeLock, CloseBattle, ResetState
  <2>2. BattlesSound'
    <3>1. CASE TimeUp(b) \/ TakeLock(b) \/ ResetState(b)
      <4>1. /\ \E x \in {"due", "off", "evict", "reset"} : battle' = [battle EXCEPT ![b].timer = x]
            /\ state' \in {"0", state} /\ UNCHANGED named
          BY <3>1 DEF TimeUp, TakeLock, ResetState
      <4> QED BY <1>0, <4>1 DEF BattlesSound, BattleRec
    <3>2. CASE CloseBattle(b)
      <4>1. battle' = [battle EXCEPT ![b] = [Disposed EXCEPT !.timer = "reset"]]
            /\ named' = None /\ state' = "0"
          BY <3>2 DEF CloseBattle
      <4> DEFINE r == [Disposed EXCEPT !.timer = "reset"]
      <4>2. r \in BattleRec /\ ~ r.live /\ r.chars = {} /\ r.dced = {}
          BY DEF Disposed, BattleRec
      <4>3. battle' = [battle EXCEPT ![b] = r]
          BY <4>1
      <4> HIDE DEF r
      <4> QED BY <1>0, <4>1, <4>2, <4>3 DEF BattlesSound
    <3> QED BY <1>1, <3>1, <3>2
  <2> QED BY <1>0, <2>1, <2>2, SquadsKept, PeopleKept, JobsAsTheyWere DEF Sound
<1>2. ASSUME NEW p \in Player, Evict(b, p) PROVE Sound'
  <2>1. /\ battle' = [battle EXCEPT ![b].chars = @ \ {p}] /\ inst' = [inst EXCEPT ![p] = None]
        /\ UNCHANGED << named, tried >>
        /\ \/ GoesAway(p, "away") /\ job' = [job EXCEPT ![p] = IF @.at \in Dialogs THEN Idle ELSE @]
           \/ UNCHANGED << where, state >> /\ UNCHANGED squadVars /\ UNCHANGED job
      BY <1>2 DEF Evict
  <2>2. SquadsSound'
      BY <1>0, <2>1, GoesAwaySound, SquadsKept
  <2>3. state' \in {"0", "1"} /\ where' \in [Player -> {"shrine", "arena", "away", "gone"}]
      BY <1>0, <2>1 DEF GoesAway, CheckStates, BattlesSound, PeopleSound
  <2>4. BattlesSound'
      BY <1>0, <2>1, <2>3 DEF BattlesSound, BattleRec
  <2>5. PeopleSound'
      BY <1>0, <2>1, <2>3 DEF PeopleSound
  <2>6. JobsSound'
    <3>1. CASE job' = [job EXCEPT ![p] = IF @.at \in Dialogs THEN Idle ELSE @]
        BY <1>0, <3>1, IdleSound DEF JobsSound
    <3> QED BY <1>0, <2>1, <3>1, JobsAsTheyWere
  <2> QED BY <1>0, <2>1, <2>2, <2>4, <2>5, <2>6 DEF Sound
<1> QED BY <1>1, <1>2 DEF BattleTimer

LEMMA SoundInit == Init => Sound
<1> SUFFICES ASSUME Init PROVE Sound
    OBVIOUS
<1>1. SquadsSound
    BY FreshRecords, NoMember, SquadAssumption DEF Init, SquadsSound, Waiting
<1>2. BattlesSound
    BY DEF Init, BattlesSound, Disposed, BattleRec
<1>3. PeopleSound
    BY DEF Init, PeopleSound
<1>4. JobsSound
    BY IdleSound DEF Init, JobsSound
<1> QED BY <1>1, <1>2, <1>3, <1>4 DEF Init, Sound

LEMMA SoundKept == Sound /\ [Next]_vars => Sound'
<1> SUFFICES ASSUME Sound, [Next]_vars PROVE Sound'
    OBVIOUS
<1>1. CASE UNCHANGED vars
  <2>1. UNCHANGED squadVars /\ UNCHANGED battleVars /\ UNCHANGED charVars /\ UNCHANGED job
      BY <1>1 DEF vars
  <2> QED BY <2>1, SquadsKept, BattlesKept, PeopleKept, JobsAsTheyWere DEF Sound
<1>2. ASSUME NEW s \in SquadId, Expire(s) PROVE Sound'
  <2>1. ClearAndCopy(s) /\ UNCHANGED battleVars /\ UNCHANGED charVars /\ UNCHANGED job
      BY <1>2 DEF Expire
  <2> QED BY <2>1, ClearAndCopySound, BattlesKept, PeopleKept, JobsAsTheyWere DEF Sound
<1> QED BY <1>1, <1>2, ChatsSound, WorksSound, MovesSound, TimersSound DEF Next

LEMMA AlwaysSound == Spec => []Sound
<1> QED BY SoundInit, SoundKept, PTL DEF Spec

\* What went wrong once is remembered.
LEMMA LapsesGrow ==
    ASSUME [Next]_vars
    PROVE  /\ lapses \subseteq lapses'
           /\ lapses \subseteq Lapse => lapses' \subseteq Lapse
<1>1. CASE UNCHANGED lapses
    BY <1>1
<1>2. ASSUME NEW p \in Player, Chats(p), ~ UNCHANGED lapses
      PROVE  lapses \subseteq lapses' /\ (lapses \subseteq Lapse => lapses' \subseteq Lapse)
    BY <1>2 DEF Chats, AskToLead, OpenMenu, OfferReturn, OfferReservation, Close, Register, LoseLeader,
       Join, Withdraw, Ban, Accept, Reserve, Start, Rejoin, Answers, Lapse
<1>3. ASSUME NEW p \in Player, Works(p), ~ UNCHANGED lapses
      PROVE  lapses \subseteq lapses' /\ (lapses \subseteq Lapse => lapses' \subseteq Lapse)
    BY <1>3 DEF Works, AddSquad, RegisterMember, Enter, SetStatus, Unregister, DisposeIfEmpty, Reset,
       Depart, Quit, Lapse
<1>4. ASSUME NEW p \in Player, Moves(p) PROVE UNCHANGED lapses
    BY <1>4 DEF Moves, Leave, Walk, LogOut, LogIn
<1>5. ASSUME NEW b \in BattleId, BattleTimer(b), ~ UNCHANGED lapses
      PROVE  lapses \subseteq lapses' /\ (lapses \subseteq Lapse => lapses' \subseteq Lapse)
    BY <1>5 DEF BattleTimer, TimeUp, TakeLock, CloseBattle, ResetState, Evict, Lapse
<1>6. ASSUME NEW s \in SquadId, Expire(s) PROVE UNCHANGED lapses
    BY <1>6 DEF Expire
<1>7. CASE UNCHANGED vars
    BY <1>7 DEF vars
<1> QED BY <1>1, <1>2, <1>3, <1>4, <1>5, <1>6, <1>7 DEF Next

LEMMA LapsesKnown == Spec => [](lapses \subseteq Lapse)
<1>1. Init => lapses \subseteq Lapse
    BY DEF Init
<1>2. lapses \subseteq Lapse /\ [Next]_vars => (lapses \subseteq Lapse)'
    BY LapsesGrow
<1> QED BY <1>1, <1>2, PTL DEF Spec

-----------------------------------------------------------------------------
(* What the actions touch.                                                  *)

LEMMA StageNames ==
    /\ Leaving \cap ({"idle", "adding", "starting", "entering", "reentering"} \cup Dialogs) = {}
    /\ {"idle", "adding", "starting", "entering", "reentering"} \cap Dialogs = {}
    BY DEF Leaving, Dialogs

LEMMA ChatFrame ==
    ASSUME NEW p \in Player, Chats(p)
    PROVE  /\ UNCHANGED charVars
           /\ job[p].at \in {"idle"} \cup Dialogs
           /\ \E j : job' = [job EXCEPT ![p] = j]
    BY DEF Chats, AskToLead, OpenMenu, OfferReturn, OfferReservation, Close, Register, LoseLeader,
           Join, Withdraw, Ban, Accept, Reserve, Start, Rejoin, AtNpc, At, Goes, Finishes, Answers,
           Dialogs

LEMMA CheckStatesFrame ==
    ASSUME NEW p \in Player, NEW to, GoesAway(p, to)
    PROVE  where' = [where EXCEPT ![p] = to]
    BY DEF GoesAway

-----------------------------------------------------------------------------
(* Nobody is left behind in the arena.                                      *)

Belong == \A p \in Player : where[p] = "arena" => inst[p] # None \/ job[p].at \in Leaving

LEMMA LeaversLeave ==
    ASSUME Belong, UNCHANGED << where, inst >>,
           \A q \in Player : job[q].at \in Leaving => job'[q].at \in Leaving
    PROVE  Belong'
    BY DEF Belong

LEMMA InBattleWorks ==
    ASSUME Sound, Belong, "refused" \notin lapses', NEW p \in Player, Works(p)
    PROVE  Belong'
<1>0. job \in [Player -> JobRec] /\ PeopleSound /\ JobsSound
    BY DEF Sound, JobsSound
<1>1. CASE AddSquad(p)
    BY <1>0, <1>1, LeaversLeave, StageNames DEF AddSquad, Finishes, At, charVars
<1>2. CASE RegisterMember(p)
  <2>1. UNCHANGED << where, inst >> /\ job[p].at = "starting" /\ \A q \in Player \ {p} : job'[q] = job[q]
      BY <1>0, <1>2 DEF RegisterMember, At
  <2> QED BY <2>1, LeaversLeave, StageNames
<1>3. CASE Enter(p)
  <2> DEFINE m == Head(job[p].todo)
  <2>1. /\ job[p].at \in {"entering", "reentering"} /\ job' = Warped(p)
        /\ inst' = [inst EXCEPT ![m] = job[p].battle]
        /\ where' = [where EXCEPT ![m] = "arena"]
      BY <1>3, EnterMeans
  <2>2. job[p].todo \in Seq(Player) /\ job[p].todo # << >> /\ job[p].battle \in BattleId
        /\ OnceIn(job[p].todo)
      BY <1>0, <2>1 DEF JobsSound, JobSound, JobRec
  <2>3. m \in Player /\ job[p].battle # None
      BY <2>2, HeadAndTail, SquadAssumption
  <2>4. ASSUME NEW q \in Player, job[q].at \in Leaving PROVE job'[q].at \in Leaving
      BY <1>0, <2>1, <2>4, StageNames, WarpedJobs
  <2> QED BY <1>0, <2>1, <2>3, <2>4 DEF Belong, PeopleSound
<1>4. CASE SetStatus(p)
    BY <1>0, <1>4, LeaversLeave, StageNames DEF SetStatus, Finishes, At, charVars
<1>5. CASE Unregister(p)
  <2>1. /\ inst' = [inst EXCEPT ![p] = None] /\ Goes(p, "checking") /\ UNCHANGED where
      BY <1>5 DEF Unregister
  <2>2. job'[p].at = "checking" /\ \A q \in Player \ {p} : job'[q] = job[q]
      BY <1>0, <2>1 DEF Goes, JobRec
  <2> QED BY <1>0, <2>1, <2>2 DEF Belong, PeopleSound, Leaving
<1>6. CASE DisposeIfEmpty(p) \/ Reset(p)
  <2>1. UNCHANGED << where, inst >> /\ (Goes(p, "resetting") \/ Goes(p, "departing"))
      BY <1>6 DEF DisposeIfEmpty, Reset, charVars
  <2>2. job'[p].at \in Leaving /\ \A q \in Player \ {p} : job'[q] = job[q]
      BY <1>0, <2>1 DEF Goes, JobRec, Leaving
  <2> QED BY <2>1, <2>2, LeaversLeave
<1>7. CASE Depart(p) \/ Quit(p)
  <2>1. /\ where'[p] # "arena" /\ \A q \in Player \ {p} : where'[q] = where[q] /\ inst'[q] = inst[q]
      BY <1>0, <1>7 DEF Depart, Quit, GoesAway, PeopleSound
  <2>2. \A q \in Player \ {p} : job'[q] = job[q]
      BY <1>0, <1>7 DEF Depart, Quit, Finishes
  <2> QED BY <2>1, <2>2 DEF Belong
<1> QED BY <1>1, <1>2, <1>3, <1>4, <1>5, <1>6, <1>7 DEF Works

LEMMA BelongKept ==
    ASSUME Sound, Belong, "refused" \notin lapses', [Next]_vars PROVE Belong'
<1>0. job \in [Player -> JobRec] /\ PeopleSound /\ JobsSound
    BY DEF Sound, JobsSound
<1>1. CASE UNCHANGED << where, inst, job >>
    BY <1>1, LeaversLeave
<1>2. ASSUME NEW p \in Player, Chats(p) PROVE Belong'
  <2>1. UNCHANGED << where, inst >>
      BY <1>2, ChatFrame DEF charVars
  <2>2. \A q \in Player : job[q].at \in Leaving => job'[q].at \in Leaving
      BY <1>0, <1>2, ChatFrame, StageNames
  <2> QED BY <2>1, <2>2, LeaversLeave
<1>3. ASSUME NEW p \in Player, Moves(p) PROVE Belong'
  <2>1. CASE Leave(p)
    <3>1. /\ UNCHANGED << where, inst >>
          /\ \/ job' = [job EXCEPT ![p] = Doing("leaving", None, inst[p], << >>)]
             \/ job' = [job EXCEPT ![p] = Doing("departing", None, None, << >>)]
        BY <2>1 DEF Leave, charVars
    <3>2. job'[p].at \in Leaving /\ \A q \in Player \ {p} : job'[q] = job[q]
        BY <1>0, <3>1, DoingFields DEF Leaving
    <3> QED BY <3>1, <3>2, LeaversLeave
  <2>2. CASE Walk(p)
    <3>1. where'[p] # "arena" /\ \A q \in Player \ {p} : where'[q] = where[q] /\ job'[q] = job[q]
        BY <1>0, <2>2 DEF Walk, Finishes, PeopleSound
    <3> QED BY <2>2, <3>1 DEF Belong, Walk
  <2>3. CASE LogOut(p)
    <3>1. /\ UNCHANGED where /\ \A q \in Player \ {p} : inst'[q] = inst[q]
          /\ job' = [job EXCEPT ![p] = Doing("quitting", None, None, << >>)]
        BY <1>0, <2>3 DEF LogOut, PeopleSound
    <3>2. job'[p].at \in Leaving /\ \A q \in Player \ {p} : job'[q] = job[q]
        BY <1>0, <3>1, DoingFields DEF Leaving
    <3> QED BY <3>1, <3>2 DEF Belong
  <2>4. CASE LogIn(p)
    <3>1. where'[p] # "arena" /\ \A q \in Player \ {p} : where'[q] = where[q]
        BY <1>0, <2>4 DEF LogIn, PeopleSound
    <3> QED BY <2>4, <3>1 DEF Belong, LogIn
  <2> QED BY <1>3, <2>1, <2>2, <2>3, <2>4 DEF Moves
<1>4. ASSUME NEW b \in BattleId, NEW p \in Player, Evict(b, p) PROVE Belong'
  <2>1. /\ inst' = [inst EXCEPT ![p] = None] /\ GoesAway(p, "away")
        /\ job' = [job EXCEPT ![p] = IF @.at \in Dialogs THEN Idle ELSE @]
      BY <1>4 DEF Evict
  <2>2. where'[p] # "arena" /\ \A q \in Player \ {p} : where'[q] = where[q] /\ inst'[q] = inst[q]
                                                  /\ job'[q] = job[q]
      BY <1>0, <2>1 DEF GoesAway, PeopleSound
  <2> QED BY <2>2 DEF Belong
<1>5. ASSUME NEW b \in BattleId, TimeUp(b) \/ TakeLock(b) \/ CloseBattle(b) \/ ResetState(b) PROVE Belong'
    BY <1>1, <1>5 DEF TimeUp, TakeLock, CloseBattle, ResetState, charVars
<1>6. ASSUME NEW s \in SquadId, Expire(s) PROVE Belong'
    BY <1>1, <1>6 DEF Expire, charVars
<1>7. CASE UNCHANGED vars
    BY <1>1, <1>7 DEF vars, charVars
<1> QED BY <1>2, <1>3, <1>4, <1>5, <1>6, <1>7, InBattleWorks DEF Next, BattleTimer

LEMMA InBattleKept == Sound /\ InBattle /\ [Next]_vars => InBattle'
    BY BelongKept, LapsesGrow DEF InBattle, Belong

LEMMA InBattleInit == Init => InBattle
    BY DEF Init, InBattle

-----------------------------------------------------------------------------
(* The battle's lists.                                                      *)

Starts(q, b) == job[q].at \in {"starting", "entering"} /\ job[q].battle = b
ToCome(q, m) == Contains(job[q].todo, m)

\* One thread registers the members of a battle, and who is to come has had
\* nothing to do with it.
Expected ==
    \A b \in BattleId, q \in Player : Starts(q, b) =>
        /\ \A r \in Player : Starts(r, b) => r = q
        /\ \A m \in Player : ToCome(q, m) =>
              inst[m] # b /\ m \notin battle[b].dced /\ (m # q => job[m].battle # b)

\* Who is being warped in is on the list.
Registered ==
    \A q \in Player :
        /\ job[q].at \in {"entering", "reentering"} =>
             LET b == job[q].battle
             IN  battle[b].live /\ Unlocked(b) => Head(job[q].todo) \in battle[b].chars
        /\ job[q].at = "reentering" => job[q].todo = << q >>

Rolls == Expected /\ Registered /\ Enrolled

LEMMA HeadToCome ==
    ASSUME JobsSound, NEW q \in Player, job[q].todo # << >>
    PROVE  Head(job[q].todo) \in Player /\ ToCome(q, Head(job[q].todo))
    BY HeadAndTail DEF JobsSound, JobSound, JobRec, ToCome

\* A step that lets go of things and registers nobody.
Softens ==
    /\ \A b \in BattleId :
          /\ battle'[b].live /\ battle'[b].timer # "evict" =>
                battle[b].live /\ battle[b].timer # "evict" /\ battle'[b].chars = battle[b].chars
          /\ battle'[b].dced \subseteq battle[b].dced
    /\ \A q \in Player :
          /\ inst'[q] \in {inst[q], None}
          /\ \/ job'[q] = job[q]
             \/ /\ job'[q].at \notin {"starting", "entering", "reentering"}
                /\ job'[q].battle \in {None, job[q].battle, inst[q]}

LEMMA RollsSoftened ==
    ASSUME Sound, Rolls, Softens PROVE Rolls'
<1>0. /\ None \notin BattleId /\ JobsSound
      /\ \A q \in Player : /\ inst'[q] \in {inst[q], None}
                           /\ \/ job'[q] = job[q]
                              \/ /\ job'[q].at \notin {"starting", "entering", "reentering"}
                                 /\ job'[q].battle \in {None, job[q].battle, inst[q]}
    BY SquadAssumption DEF Sound, Softens
<1>1. Expected'
  <2>1. SUFFICES ASSUME NEW b \in BattleId, NEW q \in Player, Starts(q, b)'
                 PROVE  /\ \A r \in Player : Starts(r, b)' => r = q
                        /\ \A m \in Player : ToCome(q, m)' =>
                              inst'[m] # b /\ m \notin battle'[b].dced /\ (m # q => job'[m].battle # b)
      BY DEF Expected
  <2>2. job'[q] = job[q] /\ Starts(q, b)
      BY <1>0, <2>1 DEF Starts
  <2>3. ASSUME NEW r \in Player, Starts(r, b)' PROVE r = q
    <3>1. Starts(r, b)
        BY <1>0, <2>3 DEF Starts
    <3> QED BY <2>2, <3>1 DEF Rolls, Expected
  <2>4. ASSUME NEW m \in Player, ToCome(q, m)'
        PROVE  inst'[m] # b /\ m \notin battle'[b].dced /\ (m # q => job'[m].battle # b)
    <3>1. inst[m] # b /\ m \notin battle[b].dced /\ (m # q => job[m].battle # b)
        BY <2>2, <2>4 DEF Rolls, Expected, ToCome
    <3>2. battle'[b].dced \subseteq battle[b].dced
        BY DEF Softens
    <3> QED BY <1>0, <3>1, <3>2
  <2> QED BY <2>3, <2>4
<1>2. Registered'
  <2>1. SUFFICES ASSUME NEW q \in Player, job'[q].at \in {"entering", "reentering"}
                 PROVE  /\ battle'[job'[q].battle].live /\ battle'[job'[q].battle].timer # "evict" =>
                              Head(job'[q].todo) \in battle'[job'[q].battle].chars
                        /\ job'[q].at = "reentering" => job'[q].todo = << q >>
      BY DEF Registered, Unlocked
  <2>2. job'[q] = job[q]
      BY <1>0, <2>1
  <2>3. job[q].battle \in BattleId
      BY <1>0, <2>1, <2>2 DEF JobsSound, JobSound
  <2> QED BY <2>1, <2>2, <2>3 DEF Rolls, Registered, Softens, Unlocked
<1>3. Enrolled'
    BY <1>0 DEF Rolls, Enrolled, Softens, Unlocked
<1> QED BY <1>1, <1>2, <1>3 DEF Rolls

\* Nothing happens to the battles.
LEMMA SameBattles ==
    ASSUME Sound, UNCHANGED << battle, inst >>,
           \A q \in Player :
               \/ job'[q] = job[q]
               \/ /\ job'[q].at \notin {"starting", "entering", "reentering"}
                  /\ job'[q].battle \in {None, job[q].battle, inst[q]}
    PROVE  Softens
    BY DEF Softens

LEMMA JobAt ==
    ASSUME JobsSound, NEW p \in Player, NEW j, job' = [job EXCEPT ![p] = j]
    PROVE  job'[p] = j /\ \A q \in Player \ {p} : job'[q] = job[q]
    BY DEF JobsSound

LEMMA GoesAt ==
    ASSUME JobsSound, NEW p \in Player, NEW at, Goes(p, at)
    PROVE  /\ job'[p].at = at /\ job'[p].battle = job[p].battle /\ job'[p].todo = job[p].todo
           /\ job'[p].squad = job[p].squad
           /\ \A q \in Player \ {p} : job'[q] = job[q]
    BY DEF JobsSound, JobRec, Goes

LEMMA FinishesAt ==
    ASSUME JobsSound, NEW p \in Player, Finishes(p)
    PROVE  /\ job'[p] = Idle /\ job'[p].at = "idle" /\ job'[p].battle = None /\ job'[p].todo = << >>
           /\ \A q \in Player \ {p} : job'[q] = job[q]
    BY DoingFields DEF JobsSound, Finishes, Idle

LEMMA RollsChats ==
    ASSUME Sound, Rolls, NEW p \in Player, Chats(p), ~ Start(p), ~ Rejoin(p) PROVE Rolls'
<1>0. JobsSound
    BY DEF Sound
<1>1. UNCHANGED << battle, inst >>
    BY DEF Chats, AskToLead, OpenMenu, OfferReturn, OfferReservation, Close, Register, LoseLeader,
           Join, Withdraw, Ban, Accept, Reserve, battleVars, charVars
<1>2. \/ Finishes(p) \/ \E at \in {"asked", "joining", "rejoining", "reserving", "adding"} : Goes(p, at)
      \/ job' = [job EXCEPT ![p] = Doing("leading", squadOn, None, << >>)]
    BY DEF Chats, AskToLead, OpenMenu, OfferReturn, OfferReservation, Close, Register, LoseLeader,
           Join, Withdraw, Ban, Accept, Reserve, Answers
<1>3. Softens
  <2>1. CASE Finishes(p)
      BY <1>0, <1>1, <2>1, FinishesAt, SameBattles
  <2>2. ASSUME NEW at \in {"asked", "joining", "rejoining", "reserving", "adding"}, Goes(p, at)
        PROVE  Softens
      BY <1>0, <1>1, <2>2, GoesAt, SameBattles
  <2>3. CASE job' = [job EXCEPT ![p] = Doing("leading", squadOn, None, << >>)]
    <3>1. job'[p].at = "leading" /\ job'[p].battle = None /\ \A q \in Player \ {p} : job'[q] = job[q]
        BY <1>0, <2>3 DEF JobsSound, Doing
    <3> QED BY <1>1, <3>1, SameBattles
  <2> QED BY <1>2, <2>1, <2>2, <2>3
<1> QED BY <1>3, RollsSoftened

LEMMA RollsStart ==
    ASSUME Sound, Rolls, NEW p \in Player, Start(p) PROVE Rolls'
<1>0. JobsSound /\ BattlesSound
    BY DEF Sound
<1>1. PICK b \in BattleId : /\ UnusedBattle(b) /\ battle' = [battle EXCEPT ![b] = NewBattle]
                           /\ job' = [job EXCEPT ![p] = Doing("starting", squadOn, b, squad[squadOn].members)]
    BY DEF Start
<1>2. /\ inst' = inst /\ ~ battle[b].live /\ \A q \in Player : job[q].battle # b /\ inst[q] # b
    BY <1>1 DEF Start, UnusedBattle, charVars
<1>3. /\ job'[p].at = "starting" /\ job'[p].battle = b /\ \A q \in Player \ {p} : job'[q] = job[q]
    BY <1>0, <1>1 DEF JobsSound, Doing
<1>4. /\ battle'[b].dced = {} /\ battle'[b].chars = {} /\ \A c \in BattleId \ {b} : battle'[c] = battle[c]
    BY <1>0, <1>1 DEF BattlesSound, NewBattle
<1>5. Expected'
    BY <1>2, <1>3, <1>4 DEF Rolls, Expected, Starts, ToCome
<1>6. Registered'
  <2>1. \A q \in Player : job'[q].at \in {"entering", "reentering"} =>
            q # p /\ job'[q] = job[q] /\ job[q].battle \in BattleId \ {b}
      BY <1>0, <1>2, <1>3 DEF JobsSound, JobSound
  <2> QED BY <1>4, <2>1 DEF Rolls, Registered, Unlocked
<1>7. Enrolled'
    BY <1>2, <1>4 DEF Rolls, Enrolled, Unlocked
<1> QED BY <1>5, <1>6, <1>7 DEF Rolls

LEMMA RollsRejoin ==
    ASSUME Sound, Rolls, NEW p \in Player, Rejoin(p) PROVE Rolls'
<1>0. JobsSound /\ BattlesSound
    BY DEF Sound
<1> DEFINE b == named
<1>1. /\ inst' = inst /\ b \in BattleId /\ battle[b].live /\ p \in battle[b].dced
      /\ battle' = [battle EXCEPT ![b].chars = @ \cup {p}]
      /\ job' = [job EXCEPT ![p] = Doing("reentering", None, b, << p >>)]
    BY <1>0 DEF Rejoin, MayReturn, charVars, BattlesSound
<1> HIDE DEF b
<1>3. /\ job'[p].at = "reentering" /\ job'[p].battle = b /\ job'[p].todo = << p >>
      /\ \A q \in Player \ {p} : job'[q] = job[q]
    BY <1>0, <1>1 DEF JobsSound, Doing
<1>4. /\ battle'[b].dced = battle[b].dced /\ battle'[b].chars = battle[b].chars \cup {p}
      /\ battle'[b].live = battle[b].live /\ battle'[b].timer = battle[b].timer
      /\ \A c \in BattleId \ {b} : battle'[c] = battle[c]
    BY <1>0, <1>1 DEF BattlesSound, BattleRec
<1>5. Expected'
  <2>1. SUFFICES ASSUME NEW c \in BattleId, NEW q \in Player, Starts(q, c)'
                 PROVE  /\ \A r \in Player : Starts(r, c)' => r = q
                        /\ \A m \in Player : ToCome(q, m)' =>
                              inst'[m] # c /\ m \notin battle'[c].dced /\ (m # q => job'[m].battle # c)
      BY DEF Expected
  <2>2. q # p /\ Starts(q, c) /\ job'[q] = job[q] /\ battle'[c].dced = battle[c].dced
      BY <1>3, <1>4, <2>1 DEF Starts
  <2>3. \A r \in Player : Starts(r, c)' => Starts(r, c)
      BY <1>3 DEF Starts
  <2>4. ASSUME NEW m \in Player, ToCome(q, m)'
        PROVE  inst'[m] # c /\ m \notin battle'[c].dced /\ (m # q => job'[m].battle # c)
    <3>1. inst[m] # c /\ m \notin battle[c].dced /\ (m # q => job[m].battle # c)
        BY <2>2, <2>4 DEF Rolls, Expected, ToCome
    <3>2. m = p => c # b
        BY <1>1, <3>1
    <3> QED BY <1>1, <1>3, <2>2, <3>1, <3>2
  <2> QED BY <2>2, <2>3, <2>4 DEF Rolls, Expected
<1>6. Registered'
  <2>1. Head(<< p >>) = p
      OBVIOUS
  <2>2. ASSUME NEW q \in Player, q # p, job'[q].at \in {"entering", "reentering"}
        PROVE  /\ battle'[job'[q].battle].live /\ battle'[job'[q].battle].timer # "evict" =>
                              Head(job'[q].todo) \in battle'[job'[q].battle].chars
               /\ job'[q].at = "reentering" => job'[q].todo = << q >>
    <3>1. job'[q] = job[q] /\ job[q].battle \in BattleId
        BY <1>0, <1>3, <2>2 DEF JobsSound, JobSound
    <3> QED BY <1>4, <2>2, <3>1 DEF Rolls, Registered, Unlocked
  <2>3. p \in battle'[b].chars
      BY <1>4
  <2> QED BY <1>3, <2>1, <2>2, <2>3 DEF Registered, Unlocked
<1>7. Enrolled'
    BY <1>1, <1>4 DEF Rolls, Enrolled, Unlocked
<1> QED BY <1>5, <1>6, <1>7 DEF Rolls

\* What a round of registerSquad does.
LEMMA RegisterMemberMeans ==
    ASSUME Sound, NEW p \in Player, RegisterMember(p)
    PROVE  LET m == Head(job[p].todo)
               b == job[p].battle
           IN  /\ job[p].at = "starting" /\ b \in BattleId /\ job[p].todo # << >> /\ m \in Player
               /\ ToCome(p, m) /\ job'[p].battle = b /\ job'[p].squad = job[p].squad
               /\ \A q \in Player \ {p} : job'[q] = job[q]
               /\ \/ /\ where[m] = "shrine" /\ battle[b].live /\ battle[b].timer # "evict"
                     /\ battle'[b].chars = battle[b].chars \cup {m}
                     /\ job'[p].at = "entering" /\ job'[p].todo = job[p].todo
                  \/ /\ ~ (where[m] = "shrine" /\ battle[b].live)
                     /\ battle'[b].chars = battle[b].chars
                     /\ job'[p].at = "starting" /\ job'[p].todo = Tail(job[p].todo)
               /\ battle'[b].live = battle[b].live /\ battle'[b].timer = battle[b].timer
               /\ battle'[b].dced = battle[b].dced
               /\ \A c \in BattleId \ {b} : battle'[c] = battle[c]
               /\ UNCHANGED << state, named >> /\ UNCHANGED squadVars /\ UNCHANGED << where, inst >>
<1>0. JobsSound /\ BattlesSound
    BY DEF Sound
<1> DEFINE m == Head(job[p].todo)
           b == job[p].battle
           adds == where[m] = "shrine" /\ battle[b].live
<1>1. /\ job[p].at = "starting" /\ job[p].todo # << >>
      /\ adds => Unlocked(b)
      /\ battle' = IF adds THEN [battle EXCEPT ![b].chars = @ \cup {m}] ELSE battle
      /\ job' = IF adds THEN [job EXCEPT ![p].at = "entering"] ELSE [job EXCEPT ![p].todo = Tail(@)]
      /\ UNCHANGED << state, named >> /\ UNCHANGED squadVars /\ UNCHANGED << where, inst >>
    BY DEF RegisterMember, At
<1>2. b \in BattleId /\ m \in Player /\ ToCome(p, m)
    BY <1>0, <1>1, HeadToCome DEF JobsSound, JobSound
<1>3. CASE adds
  <2>1. /\ battle' = [battle EXCEPT ![b].chars = @ \cup {m}] /\ job' = [job EXCEPT ![p].at = "entering"]
        /\ battle[b].timer # "evict"
      BY <1>1, <1>3 DEF Unlocked
  <2>2. /\ job'[p].at = "entering" /\ job'[p].todo = job[p].todo /\ job'[p].battle = b
        /\ job'[p].squad = job[p].squad /\ \A q \in Player \ {p} : job'[q] = job[q]
      BY <1>0, <2>1 DEF JobsSound, JobRec
  <2>3. /\ battle'[b].chars = battle[b].chars \cup {m}
        /\ battle'[b].live = battle[b].live /\ battle'[b].timer = battle[b].timer
        /\ battle'[b].dced = battle[b].dced
        /\ \A c \in BattleId \ {b} : battle'[c] = battle[c]
      BY <1>0, <1>2, <2>1 DEF BattlesSound, BattleRec
  <2> HIDE DEF m, b
  <2> QED BY <1>1, <1>2, <1>3, <2>1, <2>2, <2>3 DEF m, b
<1>4. CASE ~ adds
  <2>1. battle' = battle /\ job' = [job EXCEPT ![p].todo = Tail(@)]
      BY <1>1, <1>4
  <2>2. /\ job'[p].at = "starting" /\ job'[p].todo = Tail(job[p].todo) /\ job'[p].battle = b
        /\ job'[p].squad = job[p].squad /\ \A q \in Player \ {p} : job'[q] = job[q]
      BY <1>0, <1>1, <2>1 DEF JobsSound, JobRec
  <2> QED BY <1>1, <1>2, <1>4, <2>1, <2>2
<1> QED BY <1>3, <1>4

LEMMA RollsRegisterMember ==
    ASSUME Sound, Rolls, NEW p \in Player, RegisterMember(p) PROVE Rolls'
<1>0. JobsSound
    BY DEF Sound
<1> DEFINE m == Head(job[p].todo)
           b == job[p].battle
           adds == where[m] = "shrine" /\ battle[b].live
<1>1. /\ job[p].at = "starting" /\ b \in BattleId /\ job[p].todo # << >> /\ m \in Player
      /\ ToCome(p, m) /\ job'[p].battle = b
      /\ job'[p].at \in {"starting", "entering"}
      /\ \A q \in Player \ {p} : job'[q] = job[q]
      /\ UNCHANGED inst
    BY RegisterMemberMeans
<1>2. /\ adds => /\ battle[b].live /\ battle[b].timer # "evict"
                 /\ battle'[b].chars = battle[b].chars \cup {m}
                 /\ job'[p].at = "entering" /\ job'[p].todo = job[p].todo
      /\ ~ adds => /\ battle'[b].chars = battle[b].chars
                   /\ job'[p].at = "starting" /\ job'[p].todo = Tail(job[p].todo)
    BY RegisterMemberMeans
<1>3. /\ battle'[b].live = battle[b].live /\ battle'[b].timer = battle[b].timer
      /\ battle'[b].dced = battle[b].dced
      /\ \A c \in BattleId \ {b} : battle'[c] = battle[c]
    BY RegisterMemberMeans
<1>4. \A q, x \in Player : ToCome(q, x)' => ToCome(q, x)
  <2>1. job[p].todo \in Seq(Player) /\ OnceIn(job[p].todo)
      BY <1>0 DEF JobsSound, JobSound, JobRec
  <2>2. \A x : Contains(Tail(job[p].todo), x) => Contains(job[p].todo, x)
      BY <1>1, <2>1, HeadAndTail
  <2> QED BY <1>1, <1>2, <2>2 DEF ToCome
<1> HIDE DEF m, b, adds
<1>5. Expected'
  <2>1. SUFFICES ASSUME NEW c \in BattleId, NEW q \in Player, Starts(q, c)'
                 PROVE  /\ \A r \in Player : Starts(r, c)' => r = q
                        /\ \A x \in Player : ToCome(q, x)' =>
                              inst'[x] # c /\ x \notin battle'[c].dced /\ (x # q => job'[x].battle # c)
      BY DEF Expected
  <2>2. \A r \in Player : Starts(r, c)' => Starts(r, c)
      BY <1>1 DEF Starts, b
  <2>3. battle'[c].dced = battle[c].dced /\ \A x \in Player : job'[x].battle = job[x].battle
      BY <1>1, <1>3 DEF b
  <2> QED BY <1>1, <1>4, <2>1, <2>2, <2>3 DEF Rolls, Expected
<1>6. Registered'
  <2>1. ASSUME NEW q \in Player, q # p, job'[q].at \in {"entering", "reentering"}
        PROVE  /\ battle'[job'[q].battle].live /\ battle'[job'[q].battle].timer # "evict" =>
                              Head(job'[q].todo) \in battle'[job'[q].battle].chars
               /\ job'[q].at = "reentering" => job'[q].todo = << q >>
    <3>1. job'[q] = job[q] /\ job[q].battle \in BattleId
        BY <1>0, <1>1, <2>1 DEF JobsSound, JobSound
    <3>2. battle[job[q].battle].chars \subseteq battle'[job[q].battle].chars
        BY <1>2, <1>3, <3>1
    <3>3. battle'[job[q].battle].live = battle[job[q].battle].live
          /\ battle'[job[q].battle].timer = battle[job[q].battle].timer
        BY <1>3, <3>1
    <3> QED BY <2>1, <3>1, <3>2, <3>3 DEF Rolls, Registered, Unlocked
  <2>2. job'[p].at # "reentering"
      BY <1>1
  <2>3. job'[p].at = "entering" => Head(job'[p].todo) \in battle'[b].chars
      BY <1>2 DEF m
  <2> QED BY <1>1, <2>1, <2>2, <2>3 DEF Registered, Unlocked
<1>7. Enrolled'
    BY <1>1, <1>2, <1>3 DEF Rolls, Enrolled, Unlocked
<1> QED BY <1>5, <1>6, <1>7 DEF Rolls

LEMMA RollsEnter ==
    ASSUME Sound, Rolls, NEW p \in Player, Enter(p) PROVE Rolls'
<1>0. JobsSound /\ PeopleSound /\ None \notin BattleId
    BY SquadAssumption DEF Sound
<1> DEFINE m == Head(job[p].todo)
           b == job[p].battle
<1>1. /\ job[p].at \in {"entering", "reentering"} /\ job' = Warped(p)
      /\ inst' = [inst EXCEPT ![m] = b] /\ UNCHANGED battle
    BY EnterMeans DEF battleVars
<1>2. job[p] \in JobRec /\ job[p].todo # << >> /\ b \in BattleId /\ OnceIn(job[p].todo)
      /\ job[p].todo \in Seq(Player)
    BY <1>0, <1>1 DEF JobsSound, JobSound, JobRec
<1>3. m \in Player /\ ToCome(p, m) /\ \A x : Contains(Tail(job[p].todo), x) => Contains(job[p].todo, x) /\ x # m
    BY <1>0, <1>2, HeadToCome, HeadAndTail
<1>4. /\ \A q \in Player \ {p} : \/ job'[q] = job[q]
                                 \/ job'[q] = Idle /\ job[q].at \in Dialogs
      /\ job[p].at = "reentering" => job'[p] = Idle
      /\ job[p].at = "entering" => /\ job'[p].at = "starting" /\ job'[p].battle = b
                                   /\ job'[p].todo = Tail(job[p].todo)
  <2>1. \A q \in Player \ {p} : \/ job'[q] = job[q]
                                \/ job'[q] = Idle /\ job[q].at \in Dialogs
      BY <1>0, <1>1, WarpedJobs
  <2>2. job[p].at = "reentering" => job'[p] = Idle
      BY <1>0, <1>1, WarpedJobs
  <2>3. job[p].at = "entering" => job'[p] = [job[p] EXCEPT !.at = "starting", !.todo = Tail(@)]
      BY <1>0, <1>1, WarpedJobs
  <2>4. job[p].at = "entering" => /\ job'[p].at = "starting" /\ job'[p].battle = b
                                  /\ job'[p].todo = Tail(job[p].todo)
      BY <1>2, <2>3 DEF JobRec
  <2> QED BY <2>1, <2>2, <2>4
<1>5. Idle.at = "idle" /\ Idle.battle = None /\ Idle.todo = << >>
    BY DEF Idle, Doing
<1>6. \A x \in Player : inst'[x] = IF x = m THEN b ELSE inst[x]
    BY <1>0, <1>1, <1>3 DEF PeopleSound
<1>7. job[p].at = "reentering" => m = p
  <2>1. Head(<< p >>) = p
      OBVIOUS
  <2> QED BY <2>1 DEF Rolls, Registered
<1>15. job[p].at = "entering" => Starts(p, b)
    BY DEF Starts
<1>8. battle[b].live /\ Unlocked(b) => m \in battle[b].chars
    BY <1>1 DEF Rolls, Registered
<1> HIDE DEF m, b
<1>9. Expected'
  <2>1. SUFFICES ASSUME NEW c \in BattleId, NEW q \in Player, Starts(q, c)'
                 PROVE  /\ \A r \in Player : Starts(r, c)' => r = q
                        /\ \A x \in Player : ToCome(q, x)' =>
                              inst'[x] # c /\ x \notin battle'[c].dced /\ (x # q => job'[x].battle # c)
      BY DEF Expected
  <2>2. \A r \in Player : Starts(r, c)' => Starts(r, c)
      BY <1>1, <1>4, <1>5 DEF Starts, b
  <2>3. ASSUME NEW x \in Player, ToCome(q, x)'
        PROVE  inst'[x] # c /\ x \notin battle'[c].dced /\ (x # q => job'[x].battle # c)
    <3>1. ToCome(q, x) /\ (q = p => x # m)
        BY <1>1, <1>3, <1>4, <1>5, <2>1, <2>3 DEF ToCome, Starts
    <3>2. inst[x] # c /\ x \notin battle[c].dced /\ (x # q => job[x].battle # c)
        BY <2>1, <2>2, <3>1 DEF Rolls, Expected
    <3>3. x # q => job'[x].battle # c
        BY <1>0, <1>1, <1>4, <1>5, <3>2 DEF b
    <3>4. inst'[x] # c
      <4>1. SUFFICES ASSUME x = m, c = b PROVE FALSE
          BY <1>6, <3>2
      <4>2. q # p /\ Starts(q, b)
          BY <2>1, <2>2, <3>1, <4>1
      <4>3. CASE job[p].at = "entering"
          BY <1>15, <1>2, <4>2, <4>3 DEF Rolls, Expected
      <4>4. CASE job[p].at = "reentering"
        <5>1. x = p /\ job[x].battle = b
            BY <1>7, <4>1, <4>4 DEF b
        <5> QED BY <3>2, <4>1, <4>2, <5>1
      <4> QED BY <1>1, <4>3, <4>4
    <3> QED BY <1>1, <3>2, <3>3, <3>4
  <2> QED BY <2>1, <2>2, <2>3 DEF Rolls, Expected
<1>10. Registered'
  <2>1. SUFFICES ASSUME NEW q \in Player, job'[q].at \in {"entering", "reentering"}
                 PROVE  /\ battle'[job'[q].battle].live /\ battle'[job'[q].battle].timer # "evict" =>
                              Head(job'[q].todo) \in battle'[job'[q].battle].chars
                        /\ job'[q].at = "reentering" => job'[q].todo = << q >>
      BY DEF Registered, Unlocked
  <2>2. job'[q] = job[q]
      BY <1>1, <1>4, <1>5, <2>1
  <2> QED BY <1>1, <2>1, <2>2 DEF Rolls, Registered, Unlocked
<1>11. Enrolled'
    BY <1>1, <1>6, <1>8 DEF Rolls, Enrolled, Unlocked
<1> QED BY <1>9, <1>10, <1>11 DEF Rolls

\* Who leaves is not being warped in.
LEMMA RollsLeaver ==
    ASSUME Sound, Rolls, NEW p \in Player, NEW b \in BattleId,
           \A q \in Player : job[q].at \in {"starting", "entering"} /\ job[q].battle = b => ~ ToCome(q, p),
           job[p].at # "reentering",
           battle'[b].chars = battle[b].chars \ {p},
           battle'[b].dced \subseteq battle[b].dced \cup {p},
           battle'[b].live = battle[b].live, battle'[b].timer = battle[b].timer,
           \A c \in BattleId \ {b} : battle'[c] = battle[c],
           inst' = [inst EXCEPT ![p] = None],
           job'[p].at \notin {"starting", "entering", "reentering"},
           job'[p].battle \in {None, job[p].battle},
           \A q \in Player \ {p} : job'[q] = job[q]
    PROVE  Rolls'
<1>0. JobsSound /\ PeopleSound /\ None \notin BattleId
    BY SquadAssumption DEF Sound
<1>1. inst'[p] = None /\ \A x \in Player \ {p} : inst'[x] = inst[x]
    BY <1>0 DEF PeopleSound
<1>2. Expected'
  <2>1. SUFFICES ASSUME NEW c \in BattleId, NEW q \in Player, Starts(q, c)'
                 PROVE  /\ \A r \in Player : Starts(r, c)' => r = q
                        /\ \A x \in Player : ToCome(q, x)' =>
                              inst'[x] # c /\ x \notin battle'[c].dced /\ (x # q => job'[x].battle # c)
      BY DEF Expected
  <2>2. \A r \in Player : Starts(r, c)' => Starts(r, c)
      BY DEF Starts
  <2>3. q # p
      BY <2>1 DEF Starts
  <2>4. ASSUME NEW x \in Player, ToCome(q, x)'
        PROVE  inst'[x] # c /\ x \notin battle'[c].dced /\ (x # q => job'[x].battle # c)
    <3>1. ToCome(q, x) /\ Starts(q, c)
        BY <2>1, <2>2, <2>3, <2>4 DEF ToCome
    <3>2. inst[x] # c /\ x \notin battle[c].dced /\ (x # q => job[x].battle # c)
        BY <3>1 DEF Rolls, Expected
    <3>3. x # p \/ c # b
        BY <3>1 DEF Starts
    <3> QED BY <1>0, <1>1, <3>2, <3>3
  <2> QED BY <2>1, <2>2, <2>4 DEF Rolls, Expected
<1>3. Registered'
  <2>1. SUFFICES ASSUME NEW q \in Player, job'[q].at \in {"entering", "reentering"}
                 PROVE  /\ battle'[job'[q].battle].live /\ battle'[job'[q].battle].timer # "evict" =>
                              Head(job'[q].todo) \in battle'[job'[q].battle].chars
                        /\ job'[q].at = "reentering" => job'[q].todo = << q >>
      BY DEF Registered, Unlocked
  <2>2. q # p /\ job'[q] = job[q]
      BY <2>1
  <2>3. job[q].battle \in BattleId /\ job[q].todo # << >>
      BY <1>0, <2>1, <2>2 DEF JobsSound, JobSound
  <2>4. job[q].battle = b => Head(job[q].todo) # p
    <3>1. CASE job[q].at = "entering"
        BY <1>0, <2>3, <3>1, HeadToCome
    <3>2. CASE job[q].at = "reentering"
      <4>1. Head(<< q >>) = q
          OBVIOUS
      <4> QED BY <2>2, <3>2, <4>1 DEF Rolls, Registered
    <3> QED BY <2>1, <2>2, <3>1, <3>2
  <2>5. CASE job[q].battle = b
      BY <2>1, <2>2, <2>4, <2>5 DEF Rolls, Registered, Unlocked
  <2>6. CASE job[q].battle # b
    <3>1. battle'[job[q].battle] = battle[job[q].battle]
        BY <2>3, <2>6
    <3> QED BY <2>1, <2>2, <3>1 DEF Rolls, Registered, Unlocked
  <2> QED BY <2>5, <2>6
<1>4. Enrolled'
    BY <1>0, <1>1 DEF Rolls, Enrolled, Unlocked
<1> QED BY <1>2, <1>3, <1>4 DEF Rolls

LEMMA RollsWorks ==
    ASSUME Sound, Rolls, NEW p \in Player, Works(p) PROVE Rolls'
<1>0. JobsSound /\ BattlesSound /\ PeopleSound
    BY DEF Sound
<1>1. CASE AddSquad(p) \/ SetStatus(p)
  <2>1. Finishes(p) /\ UNCHANGED << battle, inst >>
      BY <1>1 DEF AddSquad, SetStatus, battleVars, charVars
  <2>2. Softens
      BY <1>0, <2>1, FinishesAt, SameBattles
  <2> QED BY <2>2, RollsSoftened
<1>2. CASE Unregister(p)
  <2> DEFINE b == job[p].battle
  <2>1. /\ job[p].at = "leaving" /\ battle' = [battle EXCEPT ![b].chars = @ \ {p}]
        /\ inst' = [inst EXCEPT ![p] = None] /\ Goes(p, "checking")
      BY <1>2 DEF Unregister, At
  <2>2. b \in BattleId
      BY <1>0, <2>1 DEF JobsSound, JobSound
  <2>3. /\ battle'[b].chars = battle[b].chars \ {p} /\ battle'[b].dced = battle[b].dced
        /\ battle'[b].live = battle[b].live /\ battle'[b].timer = battle[b].timer
        /\ \A c \in BattleId \ {b} : battle'[c] = battle[c]
      BY <1>0, <2>1, <2>2 DEF BattlesSound, BattleRec
  <2>4. /\ job'[p].at = "checking" /\ job'[p].battle = b /\ \A q \in Player \ {p} : job'[q] = job[q]
      BY <1>0, <2>1, GoesAt
  <2>5. \A q \in Player : job[q].at \in {"starting", "entering"} /\ job[q].battle = b => ~ ToCome(q, p)
      BY <2>1, <2>2 DEF Rolls, Expected, Starts
  <2> HIDE DEF b
  <2> QED BY <2>1, <2>2, <2>3, <2>4, <2>5, RollsLeaver DEF b
<1>3. CASE DisposeIfEmpty(p)
  <2> DEFINE b == job[p].battle
  <2>1. /\ Goes(p, "resetting") \/ Goes(p, "departing")
        /\ battle' = battle \/ battle' = [battle EXCEPT ![b].live = FALSE, ![b].chars = {}, ![b].dced = {}]
        /\ UNCHANGED inst /\ job[p].at = "checking"
      BY <1>3 DEF DisposeIfEmpty, battleVars, charVars, Dispose, At
  <2>2. b \in BattleId
      BY <1>0, <2>1 DEF JobsSound, JobSound
  <2>3. /\ job'[p].at \in {"resetting", "departing"} /\ job'[p].battle = job[p].battle
        /\ \A q \in Player \ {p} : job'[q] = job[q]
      BY <1>0, <2>1, GoesAt
  <2>4. \A c \in BattleId : /\ battle'[c].live => battle'[c] = battle[c]
                            /\ battle'[c].dced \subseteq battle[c].dced
    <3>1. CASE battle' = battle
        BY <3>1
    <3>2. CASE battle' = [battle EXCEPT ![b].live = FALSE, ![b].chars = {}, ![b].dced = {}]
        BY <1>0, <2>2, <3>2 DEF BattlesSound, BattleRec
    <3> QED BY <2>1, <3>1, <3>2
  <2>5. Softens
      BY <2>1, <2>3, <2>4 DEF Softens
  <2> QED BY <2>5, RollsSoftened
<1>4. CASE Reset(p)
  <2>1. Goes(p, "departing") /\ UNCHANGED << battle, inst >>
      BY <1>4 DEF Reset, charVars
  <2>2. Softens
      BY <1>0, <2>1, GoesAt, SameBattles
  <2> QED BY <2>2, RollsSoftened
<1>5. CASE Depart(p) \/ Quit(p)
  <2>1. Finishes(p) /\ UNCHANGED battle /\ \A q \in Player : inst'[q] \in {inst[q], None}
      BY <1>0, <1>5 DEF Depart, Quit, PeopleSound
  <2>2. Softens
      BY <1>0, <2>1, FinishesAt DEF Softens
  <2> QED BY <2>2, RollsSoftened
<1> QED BY <1>1, <1>2, <1>3, <1>4, <1>5, RollsRegisterMember, RollsEnter DEF Works

LEMMA RollsMoves ==
    ASSUME Sound, Rolls, NEW p \in Player, Moves(p) PROVE Rolls'
<1>0. JobsSound /\ BattlesSound /\ PeopleSound
    BY DEF Sound
<1>1. CASE Leave(p)
  <2>1. /\ UNCHANGED << battle, inst >>
        /\ \/ job' = [job EXCEPT ![p] = Doing("leaving", None, inst[p], << >>)]
           \/ job' = [job EXCEPT ![p] = Doing("departing", None, None, << >>)]
      BY <1>1 DEF Leave, battleVars, charVars
  <2>2. /\ job'[p].at \in {"leaving", "departing"} /\ job'[p].battle \in {None, inst[p]}
        /\ \A q \in Player \ {p} : job'[q] = job[q]
      BY <1>0, <2>1 DEF JobsSound, Doing
  <2>3. Softens
      BY <2>1, <2>2, SameBattles
  <2> QED BY <2>3, RollsSoftened
<1>2. CASE Walk(p)
  <2>1. Finishes(p) /\ UNCHANGED << battle, inst >>
      BY <1>2 DEF Walk, battleVars
  <2>2. Softens
      BY <1>0, <2>1, FinishesAt, SameBattles
  <2> QED BY <2>2, RollsSoftened
<1>3. CASE LogIn(p)
  <2>1. UNCHANGED << battle, inst, job >>
      BY <1>3 DEF LogIn, battleVars
  <2>2. Softens
      BY <2>1, SameBattles
  <2> QED BY <2>2, RollsSoftened
<1>4. CASE LogOut(p)
  <2> DEFINE b == inst[p]
  <2>1. /\ job[p].at \in {"idle"} \cup Dialogs /\ ~ BeingRegistered(p)
        /\ job' = [job EXCEPT ![p] = Doing("quitting", None, None, << >>)]
      BY <1>4 DEF LogOut
  <2>2. /\ job'[p].at = "quitting" /\ job'[p].battle = None /\ \A q \in Player \ {p} : job'[q] = job[q]
      BY <1>0, <2>1 DEF JobsSound, Doing
  <2>3. CASE ~ Alive(b) /\ UNCHANGED << battleVars, inst >>
    <3>1. Softens
        BY <2>2, <2>3, SameBattles DEF battleVars
    <3> QED BY <3>1, RollsSoftened
  <2>4. CASE /\ Alive(b) /\ Unlocked(b)
             /\ inst' = [inst EXCEPT ![p] = None]
             /\ IF battle[b].chars \subseteq {p} THEN Dispose(b)
                ELSE /\ \E alive \in BOOLEAN :
                           battle' = [battle EXCEPT
                                        ![b].chars = @ \ {p},
                                        ![b].dced = IF alive THEN @ \cup {p} ELSE @]
                     /\ UNCHANGED << state, named >>
    <3>1. b \in BattleId
        BY <2>4 DEF Alive
    <3>2. CASE Dispose(b)
      <4>1. battle' = [battle EXCEPT ![b].live = FALSE, ![b].chars = {}, ![b].dced = {}]
          BY <3>2 DEF Dispose
      <4>2. \A c \in BattleId : /\ battle'[c].live => battle'[c] = battle[c]
                                /\ battle'[c].dced \subseteq battle[c].dced
          BY <1>0, <3>1, <4>1 DEF BattlesSound, BattleRec
      <4>3. \A q \in Player : inst'[q] \in {inst[q], None}
          BY <1>0, <2>4 DEF PeopleSound
      <4>4. Softens
          BY <2>2, <4>2, <4>3 DEF Softens
      <4> QED BY <4>4, RollsSoftened
    <3>3. CASE ~ (battle[b].chars \subseteq {p})
      <4>1. PICK alive \in BOOLEAN :
                battle' = [battle EXCEPT ![b].chars = @ \ {p},
                                         ![b].dced = IF alive THEN @ \cup {p} ELSE @]
          BY <2>4, <3>3
      <4>2. /\ battle'[b].chars = battle[b].chars \ {p} /\ battle'[b].dced \subseteq battle[b].dced \cup {p}
            /\ battle'[b].live = battle[b].live /\ battle'[b].timer = battle[b].timer
            /\ \A c \in BattleId \ {b} : battle'[c] = battle[c]
          BY <1>0, <3>1, <4>1 DEF BattlesSound, BattleRec
      <4>3. \A q \in Player : ~ ToCome(q, p)
          BY <2>1 DEF BeingRegistered, ToCome
      <4>4. job[p].at # "reentering" /\ inst' = [inst EXCEPT ![p] = None]
          BY <2>1, <2>4, StageNames
      <4> HIDE DEF b
      <4> QED BY <2>2, <3>1, <4>2, <4>3, <4>4, RollsLeaver
    <3> QED BY <2>4, <3>2, <3>3
  <2> QED BY <1>4, <2>3, <2>4 DEF LogOut
<1> QED BY <1>1, <1>2, <1>3, <1>4 DEF Moves

LEMMA RollsTimers ==
    ASSUME Sound, Rolls, NEW b \in BattleId, BattleTimer(b) PROVE Rolls'
<1>0. JobsSound /\ BattlesSound /\ PeopleSound
    BY DEF Sound
<1>1. CASE TimeUp(b) \/ TakeLock(b) \/ ResetState(b)
  <2>1. /\ \E x \in {"due", "off", "evict", "reset"} : battle' = [battle EXCEPT ![b].timer = x]
        /\ battle[b].timer # "evict" /\ UNCHANGED << inst, job >>
      BY <1>1 DEF TimeUp, TakeLock, ResetState, charVars
  <2>2. \A c \in BattleId :
          /\ battle'[c].live = battle[c].live /\ battle'[c].chars = battle[c].chars
          /\ battle'[c].dced = battle[c].dced /\ (battle'[c].timer # "evict" => battle[c].timer # "evict")
      BY <1>0, <2>1 DEF BattlesSound, BattleRec
  <2>3. Softens
      BY <2>1, <2>2 DEF Softens
  <2> QED BY <2>3, RollsSoftened
<1>2. CASE CloseBattle(b)
  <2>1. battle' = [battle EXCEPT ![b] = [Disposed EXCEPT !.timer = "reset"]] /\ UNCHANGED << inst, job >>
      BY <1>2 DEF CloseBattle, charVars
  <2>2. \A c \in BattleId : /\ battle'[c].live => battle'[c] = battle[c]
                            /\ battle'[c].dced \subseteq battle[c].dced
      BY <1>0, <2>1 DEF BattlesSound, BattleRec, Disposed
  <2>3. Softens
      BY <2>1, <2>2 DEF Softens
  <2> QED BY <2>3, RollsSoftened
<1>3. ASSUME NEW p \in Player, Evict(b, p) PROVE Rolls'
  <2>1. /\ battle' = [battle EXCEPT ![b].chars = @ \ {p}] /\ inst' = [inst EXCEPT ![p] = None]
        /\ battle[b].timer = "evict"
        /\ \/ job' = [job EXCEPT ![p] = IF @.at \in Dialogs THEN Idle ELSE @]
           \/ UNCHANGED job
      BY <1>3 DEF Evict
  <2>2. \A c \in BattleId :
          /\ battle'[c].timer # "evict" => c # b
          /\ battle'[c].dced = battle[c].dced
          /\ c # b => battle'[c] = battle[c]
      BY <1>0, <2>1 DEF BattlesSound, BattleRec
  <2>3. \A q \in Player : inst'[q] \in {inst[q], None}
      BY <1>0, <2>1 DEF PeopleSound
  <2>4. \A q \in Player : job'[q] = job[q] \/ job'[q] = Idle
      BY <1>0, <2>1 DEF JobsSound
  <2>5. Idle.at = "idle" /\ Idle.battle = None
      BY DEF Idle, Doing
  <2>6. Softens
      BY <2>2, <2>3, <2>4, <2>5 DEF Softens
  <2> QED BY <2>6, RollsSoftened
<1> QED BY <1>1, <1>2, <1>3 DEF BattleTimer

LEMMA RollsKept == Sound /\ Rolls /\ [Next]_vars => Rolls'
<1> SUFFICES ASSUME Sound, Rolls, [Next]_vars PROVE Rolls'
    OBVIOUS
<1>1. CASE UNCHANGED << battle, inst, job >>
  <2>1. Softens
      BY <1>1, SameBattles
  <2> QED BY <2>1, RollsSoftened
<1>2. ASSUME NEW s \in SquadId, Expire(s) PROVE Rolls'
    BY <1>1, <1>2 DEF Expire, battleVars, charVars
<1>3. CASE UNCHANGED vars
    BY <1>1, <1>3 DEF vars, battleVars, charVars
<1> QED BY <1>2, <1>3, RollsChats, RollsStart, RollsRejoin, RollsWorks, RollsMoves, RollsTimers DEF Next

LEMMA RollsInit == Init => Rolls
<1> SUFFICES ASSUME Init PROVE Rolls
    OBVIOUS
<1>1. \A q \in Player : job[q].at = "idle"
    BY DEF Init, Idle, Doing
<1>2. \A q \in Player, b \in BattleId : inst[q] # b
    BY SquadAssumption DEF Init
<1> QED BY <1>1, <1>2 DEF Rolls, Expected, Registered, Enrolled, Starts

\* Every variable keeps its type: no registration, withdrawal, ban or copy makes
\* of a list of members something else (MapleSquad, EventInstanceManager).
THEOREM ExpeditionTyped == Spec => []TypeOK
<1> QED BY AlwaysSound, LapsesKnown, SoundTypes, PTL

\* A squad that forms has its removal scheduled: what adds a squad, copy
\* included, starts the timer, and only a squad that fights goes without
\* (MapleSquad.scheduleRemoval, setStatus, copy).
THEOREM SquadsAreRemoved == Spec => []Waiting
<1> QED BY AlwaysSound, LapsesKnown, SoundTypes, PTL

\* A live instance counts everybody who believes to be in it, whatever handlers
\* and timers run between registerPlayer's addition to the list and its
\* setEventInstance (EventInstanceManager.registerPlayer, unregisterPlayer).
THEOREM EverybodyEnrolled == Spec => []Enrolled
<1>1. Rolls => Enrolled
    BY DEF Rolls
<1> QED BY <1>1, AlwaysSound, RollsInit, RollsKept, PTL DEF Spec

\* A player in the arena belongs to a battle, or its own thread is taking it out,
\* until the first warp is refused: every way out of the instance's list takes
\* the player off the map, too (EventInstanceManager.unregisterPlayer,
\* disposeIfPlayerBelow, MapleMap).
THEOREM FightersBelong == Spec => []InBattle
<1> QED BY AlwaysSound, InBattleInit, InBattleKept, PTL DEF Spec
=============================================================================
