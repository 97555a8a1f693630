----------------------- MODULE ExpeditionBattleProofs -----------------------
(* One battle at a time, behind a shut door, until the first lapse.  Fray   *)
(* describes a battle from its start to its end, MenuLeads who may start    *)
(* the next one.                                                            *)
EXTENDS ExpeditionProofs, FiniteSetTheorems

-----------------------------------------------------------------------------
(* One battle, behind a shut door.                                          *)

AtWork == {"starting", "entering", "reentering", "leaving", "checking", "resetting", "departing"}
Outbound == {"leaving", "checking", "resetting", "departing"}

\* A question is asked at the shrine; the thread that takes a player out finds
\* it in the arena or beyond.
Places ==
    \A p \in Player :
        /\ job[p].at \in Dialogs => where[p] = "shrine"
        /\ job[p].at \in Outbound => where[p] \in {"arena", "away"}
        /\ job[p].at \in {"checking", "resetting", "departing", "quitting"} => inst[p] = None
        /\ job[p].at # "reentering"

\* Who believes to be in a battle fights in the arena and is on the list.
Fighting ==
    \A p \in Player, b \in BattleId : inst[p] = b =>
        battle[b].live /\ p \in battle[b].chars /\ where[p] = "arena"

\* Who is on the list fights, or is being warped in.
WarpsIn(q, b, p) == job[q].at = "entering" /\ job[q].battle = b /\ Head(job[q].todo) = p
Listed ==
    \A p \in Player, b \in BattleId : p \in battle[b].chars =>
        inst[p] = b \/ \E q \in Player : WarpsIn(q, b, p)

\* Nobody to come is on its way out.
Incoming ==
    \A q \in Player : job[q].at \in {"starting", "entering"} =>
        /\ \A m \in Player : ToCome(q, m) => job[m].at # "quitting"
        /\ job[q].at = "entering" =>
              LET m == Head(job[q].todo)
              IN  /\ where[m] \in {"shrine", "away"} /\ job[m].at \notin Outbound
                  /\ m \in battle[job[q].battle].chars

\* The leader enters first, and stays as long as the others are registered.
BeforeEntry(q, b) ==
    /\ Head(job[q].todo) = q /\ where[q] = "shrine"
    /\ battle[b].chars = IF job[q].at = "entering" THEN {q} ELSE {}
    /\ \A r \in Player : inst[r] = None /\ where[r] # "arena" /\ (r # q => job[r].at \notin AtWork)
Leads ==
    \A q \in Player, b \in BattleId : Starts(q, b) =>
        /\ battle[b].live /\ battle[b].timer = "armed"
        /\ ToCome(q, q) => BeforeEntry(q, b)
        /\ ~ ToCome(q, q) => inst[q] = b

\* One battle; the threads that work do so for it, and nothing is left to do of
\* the others.
Alone ==
    \A b \in BattleId : battle[b].live =>
        /\ battle[b].timer \in {"armed", "due", "evict"}
        /\ \A c \in BattleId \ {b} : ~ battle[c].live /\ battle[c].timer \in {"off", "armed"}
        /\ \A q \in Player :
              /\ job[q].at \in {"starting", "entering", "leaving", "checking"} => job[q].battle = b
              /\ job[q].at # "resetting"

\* As long as the battle is fought somebody is in the arena whom it has not let
\* go of, or the leader is about to enter.
Holds(w, b) ==
    where[w] = "arena" /\ (w \in battle[b].chars \/ (job[w].at = "checking" /\ job[w].battle = b))
Held(b) ==
    \/ \E q \in Player : Starts(q, b) /\ ToCome(q, q)
    \/ \E w \in Player : Holds(w, b)
Fought == \A b \in BattleId : battle[b].live /\ battle[b].timer # "evict" => state = "1" /\ Held(b)

Fray == Places /\ Fighting /\ Listed /\ Incoming /\ Leads /\ Alone /\ Fought

\* Nobody fights, and nothing is left to do of the battles there were.
Quiet ==
    /\ \A b \in BattleId : ~ battle[b].live /\ battle[b].timer \in {"off", "armed"}
    /\ \A q \in Player : inst[q] = None /\ where[q] # "arena" /\ job[q].at \notin AtWork

LEMMA StageFacts ==
    /\ Dialogs \cap (AtWork \cup {"idle", "adding", "quitting"}) = {}
    /\ AtWork \cap {"idle", "adding", "quitting"} = {}
    /\ Outbound \subseteq AtWork
    BY DEF Dialogs, AtWork, Outbound

\* Who is to come keeps coming, when the threads that register go on as they were.
LEMMA IncomingKept ==
    ASSUME JobsSound, Incoming,
           \A q \in Player : job'[q].at \in {"starting", "entering"} => job'[q] = job[q],
           \A q, m \in Player : ToCome(q, m) /\ job'[m].at = "quitting" => job[m].at = "quitting",
           \A m \in Player, b \in BattleId :
               /\ where[m] \in {"shrine", "away"} /\ job[m].at \notin Outbound \cup {"quitting"}
               /\ m \in battle[b].chars
               => /\ where'[m] \in {"shrine", "away"} /\ job'[m].at \notin Outbound
                  /\ m \in battle'[b].chars
    PROVE  Incoming'
<1>1. ASSUME NEW q \in Player, job'[q].at \in {"starting", "entering"}
      PROVE  \A m \in Player : ToCome(q, m)' => job'[m].at # "quitting"
    BY <1>1 DEF Incoming, ToCome
<1>2. ASSUME NEW q \in Player, job'[q].at = "entering"
      PROVE  /\ where'[Head(job'[q].todo)] \in {"shrine", "away"}
             /\ job'[Head(job'[q].todo)].at \notin Outbound
             /\ Head(job'[q].todo) \in battle'[job'[q].battle].chars
  <2>1. job'[q] = job[q]
      BY <1>2
  <2>2. PICK m \in Player, b \in BattleId : m = Head(job[q].todo) /\ b = job[q].battle /\ ToCome(q, m)
      BY <1>2, <2>1, HeadToCome DEF JobsSound, JobSound
  <2>3. /\ where[m] \in {"shrine", "away"} /\ job[m].at \notin Outbound \cup {"quitting"}
        /\ m \in battle[b].chars
      BY <1>2, <2>1, <2>2 DEF Incoming
  <2> QED BY <2>1, <2>2, <2>3
<1> QED BY <1>1, <1>2 DEF Incoming

\* A player does something the battle has no part in.
LEMMA FrayAside ==
    ASSUME Sound, Fray, NEW p \in Player, UNCHANGED << battle, inst, state >>,
           job[p].at \notin AtWork, job'[p].at \notin AtWork \cup {"quitting"},
           job'[p].at \in Dialogs => where'[p] = "shrine",
           (where'[p] = "arena") <=> (where[p] = "arena"),
           where[p] \in {"shrine", "away"} => where'[p] \in {"shrine", "away"},
           \A q \in Player \ {p} : job'[q] = job[q] /\ where'[q] = where[q]
    PROVE  Fray'
<1>a. \A q \in Player : (where'[q] = "arena") <=> (where[q] = "arena")
    OBVIOUS
<1>b. \A q \in Player : job'[q].at \in AtWork => job'[q] = job[q]
    OBVIOUS
<1>1. Places'
    BY DEF Fray, Places, AtWork, Outbound
<1>2. Fighting'
    BY <1>a DEF Fray, Fighting
<1>3. Listed'
    BY DEF Fray, Listed, WarpsIn, AtWork
<1>4. Incoming'
  <2>1. \A q \in Player : job'[q].at \in {"starting", "entering"} => job'[q] = job[q]
      BY <1>b DEF AtWork
  <2> QED BY <2>1, StageFacts, IncomingKept DEF Fray, Sound
<1>5. Leads'
  <2>1. SUFFICES ASSUME NEW q \in Player, NEW b \in BattleId, Starts(q, b)'
                 PROVE  /\ battle[b].live /\ battle[b].timer = "armed"
                        /\ ToCome(q, q)' => BeforeEntry(q, b)'
                        /\ ~ ToCome(q, q)' => inst[q] = b
      BY DEF Leads
  <2>2. q # p /\ job'[q] = job[q] /\ where'[q] = where[q] /\ Starts(q, b)
      BY <1>b, <2>1 DEF Starts, AtWork
  <2>3. ToCome(q, q)' <=> ToCome(q, q)
      BY <2>2 DEF ToCome
  <2>4. BeforeEntry(q, b) => BeforeEntry(q, b)'
      BY <1>a, <2>2 DEF BeforeEntry
  <2> QED BY <2>2, <2>3, <2>4 DEF Fray, Leads
<1>6. Alone'
    BY DEF Fray, Alone, AtWork
<1>7. Fought'
  <2>1. \A b \in BattleId : Held(b) => Held(b)'
    <3>1. \A b \in BattleId, q \in Player : Starts(q, b) /\ ToCome(q, q) => (Starts(q, b) /\ ToCome(q, q))'
        BY DEF Starts, ToCome, AtWork
    <3>2. \A b \in BattleId, w \in Player : Holds(w, b) => Holds(w, b)'
        BY <1>a DEF Holds, AtWork
    <3> QED BY <3>1, <3>2 DEF Held
  <2> QED BY <2>1 DEF Fray, Fought
<1> QED BY <1>1, <1>2, <1>3, <1>4, <1>5, <1>6, <1>7 DEF Fray

\* Who starts a battle: one thread, for the one battle.
LEMMA OneStarter ==
    ASSUME Sound, Rolls, Fray, NEW q \in Player, job[q].at \in {"starting", "entering"}
    PROVE  /\ job[q].battle \in BattleId /\ Starts(q, job[q].battle)
           /\ battle[job[q].battle].live /\ battle[job[q].battle].timer = "armed"
           /\ \A c \in BattleId : battle[c].live => c = job[q].battle
           /\ \A r \in Player : job[r].at \in {"starting", "entering"} => r = q
<1>1. job[q].battle \in BattleId /\ Starts(q, job[q].battle)
    BY DEF Sound, JobsSound, JobSound, Starts
<1>2. battle[job[q].battle].live /\ battle[job[q].battle].timer = "armed"
    BY <1>1 DEF Fray, Leads
<1>3. \A c \in BattleId : battle[c].live => c = job[q].battle
    BY <1>1, <1>2 DEF Fray, Alone
<1>4. \A r \in Player : job[r].at \in {"starting", "entering"} => r = q
    BY <1>1, <1>2 DEF Fray, Alone, Rolls, Expected, Starts
<1> QED BY <1>1, <1>2, <1>3, <1>4

LEMMA FrayStart ==
    ASSUME Sound, Rolls, Fray, Quiet, NEW p \in Player, Start(p), squad[squadOn].members # << >>,
           Head(squad[squadOn].members) = p
    PROVE  Fray'
<1>0. JobsSound /\ BattlesSound /\ SquadsSound /\ PeopleSound /\ None \notin BattleId
    BY SquadAssumption DEF Sound
<1>1. PICK b \in BattleId : /\ UnusedBattle(b) /\ battle' = [battle EXCEPT ![b] = NewBattle]
                           /\ job' = [job EXCEPT ![p] = Doing("starting", squadOn, b, squad[squadOn].members)]
    BY DEF Start
<1>2. /\ UNCHANGED << where, inst >> /\ state' = "1" /\ job[p].at = "leading"
      /\ \A m \in Player : Contains(squad[squadOn].members, m) => job[m].at # "quitting"
      /\ squadOn \in SquadId
    BY <1>0 DEF Start, charVars, At, SquadsSound
<1>3. /\ job'[p].at = "starting" /\ job'[p].battle = b /\ job'[p].todo = squad[squadOn].members
      /\ \A q \in Player \ {p} : job'[q] = job[q]
    BY <1>0, <1>1 DEF JobsSound, Doing
<1>4. /\ battle'[b].live /\ battle'[b].timer = "armed" /\ battle'[b].chars = {}
      /\ \A c \in BattleId \ {b} : battle'[c] = battle[c] /\ battle[c].chars = {}
    BY <1>0, <1>1 DEF BattlesSound, NewBattle, Quiet
<1>5. ToCome(p, p)'
  <2>1. squad[squadOn].members \in Seq(Player) /\ OnceIn(squad[squadOn].members)
      BY <1>0, <1>2 DEF SquadsSound, SquadRec
  <2>2. Contains(squad[squadOn].members, p)
      BY <2>1, HeadAndTail
  <2> QED BY <1>3, <2>2 DEF ToCome
<1>6. where[p] = "shrine"
    BY <1>2 DEF Fray, Places, Dialogs
<1>7. \A q \in Player \ {p} : job[q].at \notin AtWork
    BY DEF Quiet
<1>8. Places'
    BY <1>2, <1>3, <1>6 DEF Fray, Places, Dialogs, Outbound
<1>9. Fighting'
    BY <1>0, <1>2 DEF Quiet, Fighting
<1>10. Listed'
    BY <1>4 DEF Listed
<1>11. Incoming'
    BY <1>2, <1>3, <1>7 DEF Incoming, AtWork, ToCome
<1>12. Leads'
  <2>1. BeforeEntry(p, b)'
      BY <1>2, <1>3, <1>4, <1>6, <1>7 DEF BeforeEntry, Quiet
  <2> QED BY <1>3, <1>4, <1>5, <1>7, <2>1 DEF Leads, Starts, AtWork
<1>13. Alone'
    BY <1>3, <1>4, <1>7 DEF Alone, Quiet, AtWork
<1>14. Fought'
    BY <1>2, <1>3, <1>4, <1>5 DEF Fought, Held, Starts, Quiet
<1> QED BY <1>8, <1>9, <1>10, <1>11, <1>12, <1>13, <1>14 DEF Fray

LEMMA FrayRegisterMember ==
    ASSUME Sound, Rolls, Fray, NEW p \in Player, RegisterMember(p) PROVE Fray'
<1>0. JobsSound /\ BattlesSound /\ PeopleSound /\ None \notin BattleId
    BY SquadAssumption DEF Sound
<1>a. PICK b \in BattleId, m \in Player : b = job[p].battle /\ m = Head(job[p].todo)
    BY RegisterMemberMeans
<1> DEFINE adds == where[m] = "shrine"
<1>1. /\ job[p].at = "starting" /\ job[p].battle = b /\ job[p].todo # << >> /\ Head(job[p].todo) = m
      /\ ToCome(p, m) /\ job'[p].battle = b
      /\ \A q \in Player \ {p} : job'[q] = job[q]
      /\ UNCHANGED << inst, where, state >>
    BY <1>a, RegisterMemberMeans
<1>2. /\ Starts(p, b) /\ battle[b].live /\ battle[b].timer = "armed"
      /\ \A c \in BattleId : battle[c].live => c = b
      /\ \A r \in Player : job[r].at \in {"starting", "entering"} => r = p
    BY <1>1, OneStarter
<1>3. /\ adds => /\ battle'[b].chars = battle[b].chars \cup {m}
                 /\ job'[p].at = "entering" /\ job'[p].todo = job[p].todo
      /\ ~ adds => /\ battle'[b].chars = battle[b].chars
                   /\ job'[p].at = "starting" /\ job'[p].todo = Tail(job[p].todo)
    BY <1>1, <1>2, RegisterMemberMeans
<1>4. /\ battle'[b].live = battle[b].live /\ battle'[b].timer = battle[b].timer
      /\ \A c \in BattleId \ {b} : battle'[c] = battle[c]
    BY <1>a, RegisterMemberMeans
<1>5. /\ \A x \in Player : ToCome(p, x)' => ToCome(p, x)
      /\ \A x \in Player : ToCome(p, x) => ToCome(p, x)' \/ x = m
      /\ adds => \A x \in Player : ToCome(p, x) => ToCome(p, x)'
  <2>1. job[p].todo \in Seq(Player) /\ OnceIn(job[p].todo)
      BY <1>0 DEF JobsSound, JobSound, JobRec
  <2>2. \A x : Contains(Tail(job[p].todo), x) <=> Contains(job[p].todo, x) /\ x # m
      BY <1>1, <2>1, HeadAndTail
  <2> QED BY <1>1, <1>3, <2>2 DEF ToCome
<1>6. ToCome(p, p) => m = p /\ adds
  <2>1. ASSUME ToCome(p, p) PROVE BeforeEntry(p, b)
      BY <1>2, <2>1 DEF Fray, Leads
  <2> QED BY <1>1, <2>1 DEF BeforeEntry
<1>7. adds => job'[p].at = "entering" /\ Head(job'[p].todo) = m
    BY <1>1, <1>3
<1> HIDE DEF adds
<1>8. Places'
    BY <1>1, <1>3 DEF Fray, Places, Outbound, Dialogs
<1>9. Fighting'
    BY <1>1, <1>3, <1>4 DEF Fray, Fighting
<1>10. Listed'
    BY <1>1, <1>2, <1>3, <1>4, <1>7 DEF Fray, Listed, WarpsIn
<1>11. Incoming'
  <2>1. \A r \in Player : job'[r].at \in {"starting", "entering"} => r = p
      BY <1>1, <1>2
  <2>2. \A x \in Player : ToCome(p, x)' => job'[x].at # "quitting"
      BY <1>1, <1>3, <1>5 DEF Fray, Incoming
  <2>3. job'[p].at = "entering" => adds
      BY <1>3
  <2>4. adds => /\ where'[m] \in {"shrine", "away"} /\ job'[m].at \notin Outbound
                /\ m \in battle'[b].chars
      BY <1>1, <1>3 DEF Fray, Places, adds, Outbound
  <2> QED BY <1>1, <1>7, <2>1, <2>2, <2>3, <2>4 DEF Incoming
<1>12. Leads'
  <2>1. SUFFICES ASSUME NEW q \in Player, NEW c \in BattleId, Starts(q, c)'
                 PROVE  /\ battle'[c].live /\ battle'[c].timer = "armed"
                        /\ ToCome(q, q)' => BeforeEntry(q, c)'
                        /\ ~ ToCome(q, q)' => inst'[q] = c
      BY DEF Leads
  <2>2. q = p /\ c = b
      BY <1>1, <1>2, <2>1 DEF Starts
  <2>3. ASSUME ToCome(p, p)' PROVE BeforeEntry(p, b)'
    <3>1. ToCome(p, p) /\ m = p /\ adds /\ BeforeEntry(p, b)
        BY <1>2, <1>5, <1>6, <2>3 DEF Fray, Leads
    <3>2. battle'[b].chars = {p}
        BY <1>1, <1>3, <3>1 DEF BeforeEntry
    <3>3. \A r \in Player : r # p => job'[r].at \notin AtWork
        BY <1>1, <3>1 DEF BeforeEntry
    <3> QED BY <1>1, <1>3, <1>7, <3>1, <3>2, <3>3 DEF BeforeEntry
  <2>4. ASSUME ~ ToCome(p, p)' PROVE inst'[p] = b
      BY <1>1, <1>2, <1>5, <1>6, <2>4 DEF Fray, Leads
  <2> QED BY <1>2, <1>4, <2>2, <2>3, <2>4
<1>13. Alone'
    BY <1>1, <1>3, <1>4 DEF Fray, Alone
<1>14. Fought'
  <2>1. state' = "1" /\ Held(b)
      BY <1>1, <1>2 DEF Fray, Fought
  <2>2. Held(b)'
    <3>1. CASE \E q \in Player : Starts(q, b) /\ ToCome(q, q)
      <4>1. Starts(p, b) /\ ToCome(p, p) /\ adds
          BY <1>2, <1>6, <3>1 DEF Starts
      <4> QED BY <1>1, <1>3, <1>5, <4>1 DEF Held, Starts
    <3>2. ASSUME NEW w \in Player, Holds(w, b) PROVE Held(b)'
      <4>1. w \in battle'[b].chars \/ (job'[w].at = "checking" /\ job'[w].battle = b)
          BY <1>1, <1>3, <3>2 DEF Holds
      <4> QED BY <1>1, <3>2, <4>1 DEF Held, Holds
    <3> QED BY <2>1, <3>1, <3>2 DEF Held
  <2> QED BY <1>2, <1>4, <2>1, <2>2 DEF Fought
<1> QED BY <1>8, <1>9, <1>10, <1>11, <1>12, <1>13, <1>14 DEF Fray

\* With no battle there is nothing to keep but where people are.
LEMMA FrayOver ==
    ASSUME Places', \A b \in BattleId : ~ battle'[b].live /\ battle'[b].chars = {},
           \A q \in Player : inst'[q] = None /\ job'[q].at \notin {"starting", "entering"}
    PROVE  Fray'
<1>1. None \notin BattleId
    BY SquadAssumption
<1> QED BY <1>1 DEF Fray, Fighting, Listed, Incoming, Leads, Alone, Fought, Starts

\* Without a battle nobody is in one or starts one.
LEMMA NoneStarts ==
    ASSUME Sound, Rolls, Fray, \A b \in BattleId : ~ battle[b].live
    PROVE  \A q \in Player : inst[q] = None /\ job[q].at \notin {"starting", "entering"}
<1>1. \A q \in Player : inst[q] = None
    BY DEF Fray, Fighting, Sound, PeopleSound
<1>2. \A q \in Player : job[q].at \notin {"starting", "entering"}
    BY OneStarter
<1> QED BY <1>1, <1>2

\* The leader has entered when another thread works with the battle.
LEMMA LeaderIn ==
    ASSUME Fray, NEW r \in Player, NEW q \in Player, NEW b \in BattleId, Starts(q, b), r # q,
           job[r].at \in AtWork \/ where[r] = "arena" \/ inst[r] # None
    PROVE  inst[q] = b /\ ~ ToCome(q, q)
    BY DEF Fray, Leads, BeforeEntry

\* Where somebody is on the list and the leader has entered, somebody fights.
LEMMA SomebodyFights ==
    ASSUME Fray, NEW b \in BattleId, NEW c \in battle[b].chars, c \in Player,
           \A q \in Player : Starts(q, b) => inst[q] = b
    PROVE  \E w \in Player : /\ inst[w] = b /\ (w = c \/ Starts(w, b))
                             /\ where[w] = "arena" /\ w \in battle[b].chars
<1>1. \E w \in Player : inst[w] = b /\ (w = c \/ Starts(w, b))
    BY DEF Fray, Listed, WarpsIn, Starts
<1> QED BY <1>1 DEF Fray, Fighting

LEMMA FraySetStatus ==
    ASSUME Sound, Rolls, Fray, NEW p \in Player, SetStatus(p) PROVE Fray'
<1>0. JobsSound
    BY DEF Sound
<1>1. /\ job[p].at = "starting" /\ job[p].todo = << >>
      /\ UNCHANGED << battle, inst, where, state >>
      /\ job'[p].at = "idle" /\ \A q \in Player \ {p} : job'[q] = job[q]
    BY <1>0, FinishesAt DEF SetStatus, At, battleVars, charVars
<1>2. \A r \in Player : job'[r].at \notin {"starting", "entering"}
    BY <1>1, OneStarter
<1>3. \A c \in BattleId : ~ (Starts(p, c) /\ ToCome(p, p))
    BY <1>1, NoMember DEF ToCome
<1>4. Places'
    BY <1>1 DEF Fray, Places, Dialogs, Outbound
<1>5. Fighting' /\ Listed' /\ Incoming' /\ Leads'
  <2>1. Fighting' /\ Incoming' /\ Leads'
      BY <1>1, <1>2 DEF Fray, Fighting, Incoming, Leads, Starts
  <2>2. Listed'
      BY <1>1, <1>2, OneStarter DEF Fray, Listed, WarpsIn
  <2> QED BY <2>1, <2>2
<1>6. Alone'
    BY <1>1 DEF Fray, Alone
<1>7. Fought'
  <2>1. ASSUME NEW b \in BattleId, Held(b) PROVE Held(b)'
    <3>1. \A q \in Player : ~ (Starts(q, b) /\ ToCome(q, q))
        BY <1>1, <1>3, OneStarter DEF Starts
    <3>2. PICK w \in Player : Holds(w, b)
        BY <2>1, <3>1 DEF Held
    <3>3. Holds(w, b)'
        BY <1>1, <3>2 DEF Holds
    <3> QED BY <3>3 DEF Held
  <2> QED BY <1>1, <2>1 DEF Fray, Fought
<1> QED BY <1>4, <1>5, <1>6, <1>7 DEF Fray

LEMMA FrayEnter ==
    ASSUME Sound, Rolls, Fray, "refused" \notin lapses', NEW p \in Player, Enter(p) PROVE Fray'
<1>0. JobsSound /\ BattlesSound /\ PeopleSound /\ None \notin BattleId
    BY SquadAssumption DEF Sound
<1>1. job[p].at = "entering"
    BY EnterMeans DEF Fray, Places
<1>2. PICK b \in BattleId, m \in Player : b = job[p].battle /\ m = Head(job[p].todo)
    BY <1>0, <1>1, HeadToCome DEF JobsSound, JobSound
<1>3. /\ inst' = [inst EXCEPT ![m] = b] /\ where' = [where EXCEPT ![m] = "arena"]
      /\ UNCHANGED << battle, state >> /\ job' = Warped(p)
    BY <1>2, EnterMeans DEF battleVars
<1>4. /\ Starts(p, b) /\ battle[b].live /\ battle[b].timer = "armed"
      /\ \A c \in BattleId : battle[c].live => c = b
      /\ \A r \in Player : job[r].at \in {"starting", "entering"} => r = p
    BY <1>1, <1>2, OneStarter
<1>5. ToCome(p, m) /\ job[m].at # "quitting" /\ job[m].at \notin Outbound /\ m \in battle[b].chars
  <2>1. ToCome(p, m)
      BY <1>0, <1>1, <1>2, HeadToCome DEF JobsSound, JobSound
  <2> QED BY <1>1, <1>2, <2>1 DEF Fray, Incoming
<1>6. job'[p].at = "starting" /\ job'[p].battle = b /\ job'[p].todo = Tail(job[p].todo)
    BY <1>0, <1>1, <1>2, <1>3, WarpedJobs DEF JobsSound, JobRec
<1>7. \A q \in Player \ {p} : job'[q] = IF q = m /\ job[q].at \in Dialogs THEN Idle ELSE job[q]
    BY <1>0, <1>1, <1>2, <1>3, WarpedJobs
<1>8. /\ \A x \in Player : ToCome(p, x)' <=> ToCome(p, x) /\ x # m
      /\ m = p => ~ ToCome(p, p)'
  <2>1. job[p].todo \in Seq(Player) /\ OnceIn(job[p].todo) /\ job[p].todo # << >>
      BY <1>0, <1>1 DEF JobsSound, JobSound, JobRec
  <2> QED BY <1>2, <1>6, <2>1, HeadAndTail DEF ToCome
<1>9. /\ inst'[m] = b /\ where'[m] = "arena"
      /\ \A q \in Player \ {m} : inst'[q] = inst[q] /\ where'[q] = where[q]
    BY <1>0, <1>3 DEF PeopleSound
<1>10. Idle.at = "idle"
    BY DoingFields DEF Idle
<1>11. /\ \A q \in Player \ {p} : job'[q] = job[q] \/ job'[q].at = "idle"
       /\ p # m => job'[m].at \notin Dialogs
    BY <1>7, <1>10 DEF Dialogs
<1>12. Places'
  <2>1. ASSUME NEW q \in Player
        PROVE  /\ job'[q].at \in Dialogs => where'[q] = "shrine"
               /\ job'[q].at \in Outbound => where'[q] \in {"arena", "away"}
               /\ job'[q].at \in {"checking", "resetting", "departing", "quitting"} => inst'[q] = None
               /\ job'[q].at # "reentering"
    <3>1. CASE q = p
        BY <1>6, <3>1 DEF Dialogs, Outbound
    <3>2. CASE q # p /\ q = m
      <4>1. job'[m].at \notin Dialogs /\ job'[m].at \notin Outbound \cup {"quitting", "reentering"}
          BY <1>5, <1>11, <3>2 DEF Fray, Places, Outbound
      <4> QED BY <3>2, <4>1 DEF Outbound
    <3>3. CASE q # p /\ q # m
        BY <1>9, <1>11, <3>3 DEF Fray, Places, Dialogs, Outbound
    <3> QED BY <3>1, <3>2, <3>3
  <2> QED BY <2>1 DEF Places
<1>13. Fighting'
    BY <1>3, <1>4, <1>5, <1>9 DEF Fray, Fighting
<1>14. Listed'
  <2>1. ASSUME NEW x \in Player, NEW c \in BattleId, x \in battle[c].chars, inst'[x] # c PROVE FALSE
    <3>1. c = b
        BY <1>0, <1>4, <2>1 DEF BattlesSound
    <3>2. x # m
        BY <1>9, <2>1, <3>1
    <3>3. PICK q \in Player : WarpsIn(q, c, x)
        BY <1>9, <2>1, <3>2 DEF Fray, Listed
    <3> QED BY <1>2, <1>4, <3>2, <3>3 DEF WarpsIn
  <2> QED BY <1>3, <2>1 DEF Listed
<1>15. \A r \in Player : job'[r].at \in {"starting", "entering"} => r = p
    BY <1>4, <1>11
<1>16. Incoming'
  <2>1. \A x \in Player : ToCome(p, x)' => job'[x].at # "quitting"
      BY <1>1, <1>6, <1>8, <1>11 DEF Fray, Incoming
  <2> QED BY <1>6, <1>15, <2>1 DEF Incoming
<1>17. Leads'
  <2>1. ~ ToCome(p, p)' /\ inst'[p] = b
    <3>1. CASE m = p
        BY <1>8, <1>9, <3>1
    <3>2. CASE m # p
      <4>1. ToCome(p, p) => BeforeEntry(p, b)
          BY <1>4 DEF Fray, Leads
      <4>2. ~ ToCome(p, p)
          BY <1>2, <3>2, <4>1 DEF BeforeEntry
      <4> QED BY <1>4, <1>8, <1>9, <3>2, <4>2 DEF Fray, Leads
    <3> QED BY <3>1, <3>2
  <2> QED BY <1>3, <1>4, <1>6, <1>15, <2>1 DEF Leads, Starts
<1>18. Alone'
    BY <1>3, <1>4, <1>6, <1>11 DEF Fray, Alone
<1>19. Fought'
  <2>1. Held(b)'
      BY <1>3, <1>5, <1>9 DEF Held, Holds
  <2> QED BY <1>3, <1>4, <2>1 DEF Fray, Fought
<1> QED BY <1>12, <1>13, <1>14, <1>16, <1>17, <1>18, <1>19 DEF Fray

-----------------------------------------------------------------------------
(* A player leaves.                                                        *)

\* checkStates opens the door only when nobody else is in the arena.
LEMMA DoorOfGoesAway ==
    ASSUME NEW p \in Player, NEW to, GoesAway(p, to), state' # state
    PROVE  where[p] = "arena" /\ \A w \in Player : where[w] = "arena" => w = p
<1>1. where[p] = "arena" /\ CheckStates(p)
    BY DEF GoesAway
<1>2. Fighters \ {p} = {}
    BY <1>1 DEF CheckStates
<1> QED BY <1>1, <1>2 DEF Fighters

\* A thread whose player the battle has let go of takes it to another map.
LEMMA FrayGoes ==
    ASSUME Sound, Rolls, Fray, NEW p \in Player, NEW to \in {"away", "gone"},
           (job[p].at = "departing" /\ to = "away") \/ job[p].at = "quitting",
           GoesAway(p, to) \/ (where[p] # "arena" /\ UNCHANGED << where, state >>),
           UNCHANGED << battle, inst >>, Finishes(p)
    PROVE  Fray'
<1>0. JobsSound /\ BattlesSound /\ PeopleSound /\ None \notin BattleId
    BY SquadAssumption DEF Sound
<1>1. /\ job'[p].at = "idle" /\ \A q \in Player \ {p} : job'[q] = job[q]
    BY <1>0, FinishesAt
<1>2. /\ where'[p] # "arena" /\ \A q \in Player \ {p} : where'[q] = where[q]
    BY <1>0, CheckStatesFrame DEF PeopleSound
<1>3. inst[p] = None
    BY DEF Fray, Places
<1>4. \A b \in BattleId, q \in Player : ~ WarpsIn(q, b, p)
  <2>1. SUFFICES ASSUME NEW q \in Player, job[q].at = "entering", Head(job[q].todo) = p PROVE FALSE
      BY DEF WarpsIn
  <2>2. ToCome(q, p)
      BY <1>0, <2>1, HeadToCome DEF JobsSound, JobSound
  <2> QED BY <2>1, <2>2 DEF Fray, Incoming, Outbound
<1>5. \A b \in BattleId : p \notin battle[b].chars
    BY <1>0, <1>3, <1>4 DEF Fray, Listed
<1>6. Places'
    BY <1>1, <1>2 DEF Fray, Places, Dialogs, Outbound
<1>7. Fighting'
    BY <1>0, <1>2, <1>3 DEF Fray, Fighting
<1>8. Listed'
    BY <1>1 DEF Fray, Listed, WarpsIn
<1>9. Incoming'
    BY <1>0, <1>1, <1>2, IncomingKept DEF Fray, Outbound
<1>10. Leads'
  <2>1. SUFFICES ASSUME NEW q \in Player, NEW b \in BattleId, Starts(q, b)'
                 PROVE  /\ battle[b].live /\ battle[b].timer = "armed"
                        /\ ToCome(q, q)' => BeforeEntry(q, b)'
                        /\ ~ ToCome(q, q)' => inst[q] = b
      BY DEF Leads
  <2>2. q # p /\ job'[q] = job[q] /\ where'[q] = where[q] /\ Starts(q, b)
      BY <1>1, <1>2, <2>1 DEF Starts
  <2>3. ToCome(q, q)' <=> ToCome(q, q)
      BY <2>2 DEF ToCome
  <2>4. BeforeEntry(q, b) => BeforeEntry(q, b)'
      BY <1>1, <1>2, <2>2 DEF BeforeEntry, AtWork
  <2> QED BY <2>2, <2>3, <2>4 DEF Fray, Leads
<1>11. Alone'
    BY <1>1 DEF Fray, Alone
<1>12. Fought'
  <2>1. SUFFICES ASSUME NEW b \in BattleId, battle[b].live, battle[b].timer # "evict"
                 PROVE  state' = "1" /\ Held(b)'
      BY DEF Fought
  <2>2. state = "1" /\ Held(b)
      BY <2>1 DEF Fray, Fought
  <2>3. CASE \E q \in Player : Starts(q, b) /\ ToCome(q, q)
    <3>1. PICK q \in Player : Starts(q, b) /\ ToCome(q, q)
        BY <2>3
    <3>2. q # p /\ (Starts(q, b) /\ ToCome(q, q))'
        BY <1>1, <3>1 DEF Starts, ToCome
    <3>3. where[p] # "arena"
        BY <3>1, <3>2, LeaderIn
    <3>4. state' = state
        BY <3>3 DEF GoesAway
    <3> QED BY <2>2, <3>2, <3>4 DEF Held
  <2>4. ASSUME NEW w \in Player, Holds(w, b) PROVE state' = "1" /\ Held(b)'
    <3>1. w # p
        BY <1>5, <2>4 DEF Holds
    <3>2. state' = state
        BY <2>4, <3>1, DoorOfGoesAway DEF Holds
    <3>3. Holds(w, b)'
        BY <1>1, <1>2, <2>4, <3>1 DEF Holds
    <3> QED BY <2>2, <3>2, <3>3 DEF Held
  <2> QED BY <2>2, <2>3, <2>4 DEF Held
<1> QED BY <1>6, <1>7, <1>8, <1>9, <1>10, <1>11, <1>12 DEF Fray

LEMMA FrayLeave ==
    ASSUME Sound, Rolls, Fray, Belong, NEW p \in Player, Leave(p) PROVE Fray'
<1>0. JobsSound /\ BattlesSound /\ PeopleSound /\ None \notin BattleId
    BY SquadAssumption DEF Sound
<1>1. /\ job[p].at \in {"idle"} \cup Dialogs /\ (where[p] = "arena" \/ inst[p] # None)
      /\ UNCHANGED << battle, inst, where, state >>
    BY DEF Leave, battleVars, charVars
<1>2. PICK b \in BattleId : /\ inst[p] = b /\ battle[b].live /\ p \in battle[b].chars
                            /\ where[p] = "arena"
  <2>1. inst[p] # None
      BY <1>1, StageNames DEF Belong
  <2> QED BY <1>0, <2>1 DEF PeopleSound, Fray, Fighting
<1>3. job[p].at = "idle"
    BY <1>1, <1>2 DEF Fray, Places
<1>4. /\ job'[p].at = "leaving" /\ job'[p].battle = b
      /\ \A q \in Player \ {p} : job'[q] = job[q]
  <2>1. job' = [job EXCEPT ![p] = Doing("leaving", None, b, << >>)]
      BY <1>2 DEF Leave, Alive
  <2> QED BY <1>0, <2>1 DEF JobsSound, Doing
<1>5. \A c \in BattleId : battle[c].live => c = b
    BY <1>2 DEF Fray, Alone
<1>6. Places'
    BY <1>1, <1>2, <1>4 DEF Fray, Places, Dialogs, Outbound
<1>7. Fighting'
    BY <1>1 DEF Fray, Fighting
<1>8. Listed'
    BY <1>1, <1>3, <1>4 DEF Fray, Listed, WarpsIn
<1>9. Incoming'
    BY <1>0, <1>1, <1>2, <1>4, IncomingKept DEF Fray, Outbound
<1>10. Leads'
  <2>1. SUFFICES ASSUME NEW q \in Player, NEW c \in BattleId, Starts(q, c)'
                 PROVE  /\ battle[c].live /\ battle[c].timer = "armed"
                        /\ inst[q] = c /\ ~ ToCome(q, q)'
      BY <1>1 DEF Leads
  <2>2. q # p /\ job'[q] = job[q] /\ Starts(q, c)
      BY <1>4, <2>1 DEF Starts
  <2>3. inst[q] = c /\ ~ ToCome(q, q)
      BY <1>2, <2>2, LeaderIn
  <2> QED BY <2>2, <2>3 DEF Fray, Leads, ToCome
<1>11. Alone'
    BY <1>1, <1>4, <1>5 DEF Fray, Alone
<1>12. Fought'
  <2>1. Holds(p, b)'
      BY <1>1, <1>2 DEF Holds
  <2> QED BY <1>1, <1>5, <2>1 DEF Fray, Fought, Held
<1> QED BY <1>6, <1>7, <1>8, <1>9, <1>10, <1>11, <1>12 DEF Fray

LEMMA FrayUnregister ==
    ASSUME Sound, Rolls, Fray, NEW p \in Player, Unregister(p) PROVE Fray'
<1>0. JobsSound /\ BattlesSound /\ PeopleSound /\ None \notin BattleId
    BY SquadAssumption DEF Sound
<1>1. PICK b \in BattleId : /\ b = job[p].battle /\ job[p].at = "leaving"
                            /\ battle' = [battle EXCEPT ![b].chars = @ \ {p}]
                            /\ inst' = [inst EXCEPT ![p] = None]
                            /\ UNCHANGED << where, state >> /\ Goes(p, "checking")
    BY <1>0 DEF Unregister, At, JobsSound, JobSound
<1>2. /\ job'[p].at = "checking" /\ job'[p].battle = b
      /\ \A q \in Player \ {p} : job'[q] = job[q]
    BY <1>0, <1>1, GoesAt
<1>3. /\ battle'[b].chars = battle[b].chars \ {p}
      /\ battle'[b].live = battle[b].live /\ battle'[b].timer = battle[b].timer
      /\ \A c \in BattleId \ {b} : battle'[c] = battle[c]
      /\ inst'[p] = None /\ \A q \in Player \ {p} : inst'[q] = inst[q]
    BY <1>0, <1>1 DEF BattlesSound, BattleRec, PeopleSound
<1>4. \A c \in BattleId : battle[c].live => c = b
    BY <1>1 DEF Fray, Alone
<1>5. \A c \in BattleId : p \notin battle'[c].chars
    BY <1>0, <1>3, <1>4 DEF BattlesSound
<1>6. \A q \in Player, c \in BattleId : Starts(q, c) => q # p /\ inst[q] = c /\ ~ ToCome(q, q)
    BY <1>1, LeaderIn DEF Starts, AtWork
<1>7. Places'
    BY <1>1, <1>2, <1>3 DEF Fray, Places, Dialogs, Outbound
<1>8. Fighting'
    BY <1>0, <1>1, <1>3 DEF Fray, Fighting
<1>9. Listed'
  <2>1. ASSUME NEW x \in Player, NEW c \in BattleId, x \in battle'[c].chars
        PROVE  inst'[x] = c \/ \E q \in Player : WarpsIn(q, c, x)'
    <3>1. x # p /\ x \in battle[c].chars
        BY <1>3, <1>5, <2>1
    <3>2. CASE inst[x] = c
        BY <1>3, <3>1, <3>2
    <3>3. ASSUME NEW q \in Player, WarpsIn(q, c, x) PROVE WarpsIn(q, c, x)'
        BY <1>1, <1>2, <3>3 DEF WarpsIn
    <3> QED BY <3>1, <3>2, <3>3 DEF Fray, Listed
  <2> QED BY <2>1 DEF Listed
<1>10. Incoming'
    BY <1>0, <1>1, <1>2, <1>3, IncomingKept DEF Fray, Outbound
<1>11. Leads'
  <2>1. SUFFICES ASSUME NEW q \in Player, NEW c \in BattleId, Starts(q, c)'
                 PROVE  /\ battle'[c].live /\ battle'[c].timer = "armed"
                        /\ inst'[q] = c /\ ~ ToCome(q, q)'
      BY DEF Leads
  <2>2. q # p /\ job'[q] = job[q] /\ Starts(q, c)
      BY <1>2, <2>1 DEF Starts
  <2>3. inst'[q] = c /\ ~ ToCome(q, q)'
      BY <1>3, <1>6, <2>2 DEF ToCome
  <2>4. battle[c].live /\ battle[c].timer = "armed"
      BY <2>2 DEF Fray, Leads
  <2> QED BY <1>3, <2>3, <2>4
<1>12. Alone'
    BY <1>1, <1>2, <1>3 DEF Fray, Alone
<1>13. Fought'
  <2>1. SUFFICES ASSUME battle[b].live, battle[b].timer # "evict" PROVE state' = "1" /\ Held(b)'
      BY <1>3, <1>4 DEF Fought
  <2>2. state = "1" /\ Held(b)
      BY <2>1 DEF Fray, Fought
  <2>3. PICK w \in Player : Holds(w, b)
      BY <1>6, <2>2 DEF Held
  <2>4. Holds(w, b)'
    <3>1. CASE w = p
        BY <1>1, <1>2, <2>3, <3>1 DEF Holds
    <3>2. CASE w # p
        BY <1>1, <1>2, <1>3, <2>3, <3>2 DEF Holds
    <3> QED BY <3>1, <3>2
  <2> QED BY <1>1, <2>2, <2>4 DEF Held
<1> QED BY <1>7, <1>8, <1>9, <1>10, <1>11, <1>12, <1>13 DEF Fray

-----------------------------------------------------------------------------
(* The battle is disposed; the NPC; the squad's timer.                     *)

\* The only battle is disposed when nobody who works with it registers anybody.
LEMMA FrayDispose ==
    ASSUME Sound, Rolls, Fray, NEW b \in BattleId, battle[b].live,
           \A q \in Player : inst[q] = b => inst'[q] = None,
           \A q \in Player : inst'[q] \in {inst[q], None},
           \A q \in Player : Starts(q, b) => inst[q] # b /\ ~ ToCome(q, q),
           ~ battle'[b].live /\ battle'[b].chars = {},
           \A c \in BattleId \ {b} : battle'[c].live = battle[c].live /\ battle'[c].chars = battle[c].chars,
           \A q \in Player : job'[q].at \in {"starting", "entering"} => job'[q] = job[q],
           Places'
    PROVE  Fray'
<1>0. BattlesSound /\ PeopleSound /\ None \notin BattleId
    BY SquadAssumption DEF Sound
<1>1. \A c \in BattleId : battle[c].live => c = b
    BY DEF Fray, Alone
<1>2. \A c \in BattleId : ~ battle'[c].live /\ battle'[c].chars = {}
    BY <1>0, <1>1 DEF BattlesSound
<1>3. \A q \in Player : inst'[q] = None
  <2>1. \A q \in Player : inst[q] \in {b, None}
      BY <1>0, <1>1 DEF PeopleSound, Fray, Fighting
  <2> QED BY <2>1
<1>4. \A q \in Player : job'[q].at \notin {"starting", "entering"}
  <2>1. SUFFICES ASSUME NEW q \in Player, job[q].at \in {"starting", "entering"} PROVE FALSE
      OBVIOUS
  <2>2. Starts(q, b)
      BY <1>1, <2>1, OneStarter
  <2> QED BY <2>2 DEF Fray, Leads
<1> QED BY <1>2, <1>3, <1>4, FrayOver

LEMMA FrayDisposeIfEmpty ==
    ASSUME Sound, Rolls, Fray, NEW p \in Player, DisposeIfEmpty(p) PROVE Fray'
<1>0. JobsSound /\ BattlesSound /\ PeopleSound /\ None \notin BattleId
    BY SquadAssumption DEF Sound
<1>1. PICK b \in BattleId : /\ b = job[p].battle /\ job[p].at = "checking" /\ UNCHANGED << where, inst >>
                            /\ \/ /\ ~ battle[b].live /\ Goes(p, "resetting") /\ UNCHANGED battleVars
                               \/ /\ battle[b].live /\ battle[b].chars = {} /\ Dispose(b)
                                  /\ Goes(p, "resetting")
                               \/ /\ battle[b].live /\ battle[b].chars # {} /\ Goes(p, "departing")
                                  /\ UNCHANGED battleVars
    BY <1>0 DEF DisposeIfEmpty, At, JobsSound, JobSound, charVars
<1>2. /\ job'[p].at \in {"resetting", "departing"} /\ \A q \in Player \ {p} : job'[q] = job[q]
    BY <1>0, <1>1, GoesAt
<1>3. Places'
    BY <1>1, <1>2 DEF Fray, Places, Dialogs, Outbound
<1>4. \A q \in Player : job'[q].at \in {"starting", "entering"} => job'[q] = job[q]
    BY <1>2
<1>5. \A q \in Player, c \in BattleId : Starts(q, c) => inst[q] = c /\ ~ ToCome(q, q)
    BY <1>1, LeaderIn DEF Starts, AtWork
<1>6. CASE ~ battle[b].live /\ UNCHANGED battleVars
  <2>1. \A c \in BattleId : ~ battle[c].live /\ battle'[c] = battle[c]
      BY <1>1, <1>6 DEF Fray, Alone, battleVars
  <2> QED BY <1>0, <1>1, <1>3, <1>4, <2>1, NoneStarts, FrayOver DEF BattlesSound
<1>7. CASE battle[b].live /\ battle[b].chars = {} /\ Dispose(b)
  <2>1. ~ battle'[b].live /\ battle'[b].chars = {} /\ \A c \in BattleId \ {b} : battle'[c] = battle[c]
      BY <1>0, <1>7 DEF Dispose, BattlesSound, BattleRec
  <2>2. \A q \in Player : inst[q] # b
      BY <1>7 DEF Fray, Fighting
  <2> QED BY <1>1, <1>3, <1>4, <1>5, <1>7, <2>1, <2>2, FrayDispose
<1>8. CASE battle[b].live /\ battle[b].chars # {} /\ UNCHANGED battleVars /\ Goes(p, "departing")
  <2>0. UNCHANGED << battle, state >> /\ job'[p].at = "departing"
      BY <1>0, <1>8, GoesAt DEF battleVars
  <2>1. Fighting' /\ Incoming'
    <3>1. Fighting'
        BY <1>1, <2>0 DEF Fray, Fighting
    <3>2. Incoming'
        BY <1>0, <1>1, <1>2, <1>4, <2>0, IncomingKept DEF Fray, Outbound
    <3> QED BY <3>1, <3>2
  <2>2. Listed'
      BY <1>1, <1>2, <2>0 DEF Fray, Listed, WarpsIn
  <2>3. Leads'
    <3>1. SUFFICES ASSUME NEW q \in Player, NEW c \in BattleId, Starts(q, c)'
                   PROVE  battle[c].live /\ battle[c].timer = "armed" /\ inst[q] = c /\ ~ ToCome(q, q)'
        BY <1>1, <2>0 DEF Leads
    <3>2. job'[q] = job[q] /\ Starts(q, c)
        BY <1>4, <3>1 DEF Starts
    <3> QED BY <1>5, <3>2 DEF Fray, Leads, ToCome
  <2>4. Alone'
      BY <1>1, <1>2, <2>0 DEF Fray, Alone
  <2>5. Fought'
    <3>1. PICK c \in Player : c \in battle[b].chars
        BY <1>0, <1>8 DEF BattlesSound, BattleRec
    <3>2. PICK w \in Player : inst[w] = b /\ where[w] = "arena" /\ w \in battle[b].chars
        BY <1>5, <3>1, SomebodyFights
    <3>3. Held(b)'
        BY <1>1, <2>0, <3>2 DEF Held, Holds
    <3>4. \A d \in BattleId : battle[d].live => d = b
        BY <1>8 DEF Fray, Alone
    <3> QED BY <2>0, <3>3, <3>4 DEF Fray, Fought
  <2> QED BY <1>3, <2>1, <2>2, <2>3, <2>4, <2>5 DEF Fray
<1> QED BY <1>1, <1>6, <1>7, <1>8

LEMMA FrayReset ==
    ASSUME Sound, Rolls, Fray, NEW p \in Player, Reset(p) PROVE Fray'
<1>0. JobsSound /\ BattlesSound
    BY DEF Sound
<1>1. job[p].at = "resetting" /\ UNCHANGED << battle, where, inst >> /\ Goes(p, "departing")
    BY DEF Reset, At, charVars
<1>2. job'[p].at = "departing" /\ \A q \in Player \ {p} : job'[q] = job[q]
    BY <1>0, <1>1, GoesAt
<1>3. Places'
    BY <1>1, <1>2 DEF Fray, Places, Dialogs, Outbound
<1>4. \A b \in BattleId : ~ battle[b].live /\ battle[b].chars = {}
    BY <1>0, <1>1 DEF Fray, Alone, BattlesSound
<1> QED BY <1>1, <1>2, <1>3, <1>4, NoneStarts, FrayOver

LEMMA FrayWorks ==
    ASSUME Sound, Rolls, Fray, "refused" \notin lapses', NEW p \in Player, Works(p) PROVE Fray'
<1>0. JobsSound /\ PeopleSound
    BY DEF Sound
<1>1. CASE AddSquad(p)
  <2>1. job[p].at = "adding" /\ UNCHANGED << battle, inst, where, state >> /\ Finishes(p)
      BY <1>1 DEF AddSquad, At, battleVars, charVars
  <2>2. job'[p].at = "idle" /\ \A q \in Player \ {p} : job'[q] = job[q]
      BY <1>0, <2>1, FinishesAt
  <2> QED BY <2>1, <2>2, StageFacts, FrayAside DEF Dialogs
<1>2. CASE Depart(p)
  <2>1. job[p].at = "departing" /\ UNCHANGED << battle, inst >> /\ Finishes(p)
      BY <1>2 DEF Depart, At
  <2>2. GoesAway(p, "away") \/ (where[p] # "arena" /\ UNCHANGED << where, state >>)
      BY <1>2 DEF Depart
  <2> QED BY <2>1, <2>2, FrayGoes
<1>3. CASE Quit(p)
  <2>1. job[p].at = "quitting" /\ GoesAway(p, "gone") /\ Finishes(p) /\ UNCHANGED battle
      BY <1>3 DEF Quit, At
  <2>2. UNCHANGED inst
      BY <1>0, <1>3, <2>1 DEF Quit, Fray, Places, PeopleSound
  <2> QED BY <2>1, <2>2, FrayGoes
<1> QED BY <1>1, <1>2, <1>3, FrayRegisterMember, FrayEnter, FraySetStatus, FrayUnregister,
           FrayDisposeIfEmpty, FrayReset DEF Works

\* A question that is asked, answered or closed.
LEMMA FrayChats ==
    ASSUME Sound, Fray, NEW p \in Player, Chats(p), ~ Start(p), ~ Rejoin(p) PROVE Fray'
<1>0. JobsSound
    BY DEF Sound
<1>1. UNCHANGED << battle, inst, where, state >>
    BY DEF Chats, AskToLead, OpenMenu, OfferReturn, OfferReservation, Close, Register, LoseLeader,
           Join, Withdraw, Ban, Accept, Reserve, battleVars, charVars
<1>2. job[p].at \in {"idle"} \cup Dialogs
    BY ChatFrame
<1>3. \/ Finishes(p)
      \/ Goes(p, "adding")
      \/ /\ where[p] = "shrine"
         /\ \/ \E at \in Dialogs : Goes(p, at)
            \/ job' = [job EXCEPT ![p] = Doing("leading", squadOn, None, << >>)]
    BY DEF Chats, AskToLead, OpenMenu, OfferReturn, OfferReservation, Close, Register, LoseLeader,
           Join, Withdraw, Ban, Accept, Reserve, Answers, AtNpc, Dialogs
<1>4. \/ job'[p].at \in {"idle", "adding"}
      \/ where[p] = "shrine" /\ job'[p].at \in Dialogs
  <2>1. CASE Finishes(p)
      BY <1>0, <2>1, FinishesAt
  <2>2. CASE Goes(p, "adding")
      BY <1>0, <2>2, GoesAt
  <2>3. CASE where[p] = "shrine" /\ \E at \in Dialogs : Goes(p, at)
      BY <1>0, <2>3, GoesAt
  <2>4. CASE where[p] = "shrine" /\ job' = [job EXCEPT ![p] = Doing("leading", squadOn, None, << >>)]
      BY <1>0, <2>4 DEF JobsSound, Doing, Dialogs
  <2> QED BY <1>3, <2>1, <2>2, <2>3, <2>4
<1>5. \A q \in Player \ {p} : job'[q] = job[q]
    BY <1>0, ChatFrame, JobAt
<1>6. job'[p].at \notin AtWork \cup {"quitting"} /\ (job'[p].at \in Dialogs => where[p] = "shrine")
    BY <1>4, StageFacts DEF Dialogs
<1>7. job[p].at \notin AtWork
    BY <1>2, StageFacts
<1> QED BY <1>1, <1>5, <1>6, <1>7, FrayAside

LEMMA FrayExpire ==
    ASSUME Fray, UNCHANGED << battle, inst, where, state, job >> PROVE Fray'
<1>1. Places' /\ Fighting' /\ Listed' /\ Incoming'
    BY DEF Fray, Places, Fighting, Listed, WarpsIn, Incoming, ToCome
<1>2. Leads' /\ Alone'
    BY DEF Fray, Leads, Starts, ToCome, BeforeEntry, Alone
<1>3. Fought'
    BY DEF Fray, Fought, Held, Holds, Starts, ToCome
<1> QED BY <1>1, <1>2, <1>3 DEF Fray

-----------------------------------------------------------------------------
(* Moves, and the timer of the battle.                                     *)

LEMMA FrayWalk ==
    ASSUME Sound, Fray, NEW p \in Player, Walk(p) \/ LogIn(p) PROVE Fray'
<1>0. JobsSound /\ PeopleSound
    BY DEF Sound
<1>1. job[p].at \in {"idle"} \cup Dialogs /\ UNCHANGED << battle, inst, state >>
    BY DEF Walk, LogIn, At, battleVars
<1>2. /\ where[p] \in {"shrine", "away", "gone"} /\ where'[p] \in {"shrine", "away"}
      /\ \A q \in Player \ {p} : where'[q] = where[q]
    BY <1>0 DEF Walk, LogIn, PeopleSound
<1>3. job'[p].at = "idle" /\ \A q \in Player \ {p} : job'[q] = job[q]
    BY <1>0, FinishesAt DEF Walk, LogIn, At
<1>4. job[p].at \notin AtWork /\ job'[p].at \notin AtWork \cup {"quitting"} \cup Dialogs
    BY <1>1, <1>3, StageFacts DEF AtWork, Dialogs
<1> QED BY <1>1, <1>2, <1>3, <1>4, FrayAside

LEMMA FrayLogOut ==
    ASSUME Sound, Rolls, Fray, NEW p \in Player, LogOut(p) PROVE Fray'
<1>0. JobsSound /\ BattlesSound /\ PeopleSound /\ None \notin BattleId
    BY SquadAssumption DEF Sound
<1>1. job[p].at \in {"idle"} \cup Dialogs /\ UNCHANGED where
    BY DEF LogOut
<1>2. job'[p].at = "quitting" /\ \A q \in Player \ {p} : job'[q] = job[q]
    BY <1>0 DEF LogOut, JobsSound, Doing
<1>3. \A q \in Player : ~ ToCome(q, p)
    BY DEF LogOut, BeingRegistered, ToCome
<1>4. job[p].at \notin AtWork
    BY <1>1, StageFacts
<1>5. \A q \in Player : job'[q].at \in AtWork => job'[q] = job[q] /\ q # p
    BY <1>2 DEF AtWork
<1>6. \A q \in Player : job'[q].at \in {"starting", "entering"} => job'[q] = job[q] /\ q # p
    BY <1>2
<1>7. inst'[p] = None => Places'
    BY <1>1, <1>2, <1>0 DEF Fray, Places, Dialogs, Outbound, LogOut, PeopleSound
<1>8. CASE ~ Alive(inst[p]) /\ UNCHANGED << battleVars, inst >>
  <2>1. inst[p] = None /\ UNCHANGED << battle, state, inst >>
      BY <1>0, <1>8 DEF Fray, Fighting, Alive, PeopleSound, battleVars
  <2>2. Fighting' /\ Listed'
      BY <1>1, <1>6, <2>1, <1>2, <1>4 DEF Fray, Fighting, Listed, WarpsIn, AtWork
  <2>3. Incoming'
      BY <1>0, <1>1, <1>2, <1>3, <1>6, <2>1, IncomingKept DEF Fray, Outbound
  <2>4. Leads'
    <3>1. SUFFICES ASSUME NEW q \in Player, NEW b \in BattleId, Starts(q, b)'
                   PROVE  /\ battle[b].live /\ battle[b].timer = "armed"
                          /\ ToCome(q, q)' => BeforeEntry(q, b)'
                          /\ ~ ToCome(q, q)' => inst[q] = b
        BY <2>1 DEF Leads
    <3>2. q # p /\ job'[q] = job[q] /\ Starts(q, b)
        BY <1>6, <3>1 DEF Starts
    <3>3. ToCome(q, q)' <=> ToCome(q, q)
        BY <3>2 DEF ToCome
    <3>4. BeforeEntry(q, b) => BeforeEntry(q, b)'
        BY <1>1, <1>5, <2>1, <3>2 DEF BeforeEntry
    <3> QED BY <3>2, <3>3, <3>4 DEF Fray, Leads
  <2>5. Alone'
      BY <1>2, <2>1 DEF Fray, Alone
  <2>6. Fought'
    <3>1. ASSUME NEW b \in BattleId, NEW q \in Player, Starts(q, b) /\ ToCome(q, q)
          PROVE  (Starts(q, b) /\ ToCome(q, q))'
      <4>1. q # p
          BY <1>4, <3>1 DEF Starts, AtWork
      <4> QED BY <1>2, <3>1, <4>1 DEF Starts, ToCome
    <3>2. ASSUME NEW b \in BattleId, NEW w \in Player, Holds(w, b) PROVE Holds(w, b)'
        BY <1>1, <1>2, <1>4, <2>1, <3>2 DEF Holds, AtWork
    <3> QED BY <2>1, <3>1, <3>2 DEF Fray, Fought, Held
  <2> QED BY <1>7, <2>1, <2>2, <2>3, <2>4, <2>5, <2>6 DEF Fray
<1>9. ASSUME NEW b \in BattleId, inst[p] = b, battle[b].live, inst' = [inst EXCEPT ![p] = None]
      PROVE  /\ where[p] = "arena" /\ p \in battle[b].chars
             /\ inst'[p] = None /\ \A q \in Player \ {p} : inst'[q] = inst[q]
             /\ \A q \in Player, c \in BattleId : Starts(q, c) => q # p /\ inst[q] = c /\ ~ ToCome(q, q)
             /\ \A c \in BattleId : battle[c].live => c = b
  <2>1. where[p] = "arena" /\ p \in battle[b].chars
      BY <1>9 DEF Fray, Fighting
  <2>2. \A q \in Player, c \in BattleId : Starts(q, c) => q # p /\ inst[q] = c /\ ~ ToCome(q, q)
      BY <1>4, <2>1, LeaderIn DEF Starts, AtWork
  <2> QED BY <1>0, <1>9, <2>1, <2>2 DEF PeopleSound, Fray, Alone
<1>10. ASSUME NEW b \in BattleId, inst[p] = b, battle[b].live, inst' = [inst EXCEPT ![p] = None],
              battle[b].chars \subseteq {p}, Dispose(b)
       PROVE  Fray'
  <2>1. ~ battle'[b].live /\ battle'[b].chars = {} /\ \A c \in BattleId \ {b} : battle'[c] = battle[c]
      BY <1>0, <1>10 DEF Dispose, BattlesSound, BattleRec
  <2>2. \A q \in Player : inst[q] = b => q = p
      BY <1>10 DEF Fray, Fighting
  <2>3. \A q \in Player : Starts(q, b) => inst[q] # b /\ ~ ToCome(q, q)
      BY <1>9, <1>10, <2>2
  <2>4. /\ \A q \in Player : inst[q] = b => inst'[q] = None
        /\ \A q \in Player : inst'[q] \in {inst[q], None}
      BY <1>9, <1>10, <2>2
  <2> QED BY <1>6, <1>7, <1>9, <1>10, <2>1, <2>3, <2>4, FrayDispose
<1>11. ASSUME NEW b \in BattleId, inst[p] = b, battle[b].live, inst' = [inst EXCEPT ![p] = None],
              ~ battle[b].chars \subseteq {p}, UNCHANGED state,
              NEW alive \in BOOLEAN,
              battle' = [battle EXCEPT ![b].chars = @ \ {p}, ![b].dced = IF alive THEN @ \cup {p} ELSE @]
       PROVE  Fray'
  <2>0. battle' = [battle EXCEPT ![b].chars = @ \ {p}, ![b].dced = IF alive THEN @ \cup {p} ELSE @]
      BY <1>11
  <2>1. /\ battle'[b].chars = battle[b].chars \ {p}
        /\ battle'[b].live = battle[b].live /\ battle'[b].timer = battle[b].timer
        /\ \A c \in BattleId \ {b} : battle'[c] = battle[c]
      BY <1>0, <2>0 DEF BattlesSound, BattleRec
  <2>2. /\ where[p] = "arena" /\ p \in battle[b].chars
        /\ inst'[p] = None /\ \A q \in Player \ {p} : inst'[q] = inst[q]
        /\ \A q \in Player, c \in BattleId : Starts(q, c) => q # p /\ inst[q] = c /\ ~ ToCome(q, q)
        /\ \A c \in BattleId : battle[c].live => c = b
      BY <1>9, <1>11
  <2>3. \A c \in BattleId : p \notin battle'[c].chars
      BY <1>0, <2>1, <2>2 DEF BattlesSound
  <2>4. Fighting'
      BY <1>0, <1>1, <2>1, <2>2 DEF Fray, Fighting
  <2>5. Listed'
    <3>1. ASSUME NEW x \in Player, NEW c \in BattleId, x \in battle'[c].chars
          PROVE  inst'[x] = c \/ \E q \in Player : WarpsIn(q, c, x)'
      <4>1. x # p /\ x \in battle[c].chars
          BY <2>1, <2>3, <3>1
      <4>2. CASE inst[x] = c
          BY <2>2, <4>1, <4>2
      <4>3. ASSUME NEW q \in Player, WarpsIn(q, c, x) PROVE WarpsIn(q, c, x)'
        <5>1. q # p
            BY <1>4, <4>3 DEF WarpsIn, AtWork
        <5> QED BY <1>2, <4>3, <5>1 DEF WarpsIn
      <4> QED BY <4>1, <4>2, <4>3 DEF Fray, Listed
    <3> QED BY <3>1 DEF Listed
  <2>6. Incoming'
    <3>1. \A m \in Player, c \in BattleId :
               /\ where[m] \in {"shrine", "away"} /\ job[m].at \notin Outbound \cup {"quitting"}
               /\ m \in battle[c].chars
               => /\ where'[m] \in {"shrine", "away"} /\ job'[m].at \notin Outbound
                  /\ m \in battle'[c].chars
        BY <1>1, <1>2, <2>1, <2>2
    <3>2. \A q, m \in Player : ToCome(q, m) /\ job'[m].at = "quitting" => job[m].at = "quitting"
        BY <1>2, <1>3
    <3> QED BY <1>0, <1>6, <3>1, <3>2, IncomingKept DEF Fray
  <2>7. Leads'
    <3>1. SUFFICES ASSUME NEW q \in Player, NEW c \in BattleId, Starts(q, c)'
                   PROVE  battle'[c].live /\ battle'[c].timer = "armed" /\ inst'[q] = c /\ ~ ToCome(q, q)'
        BY DEF Leads
    <3>2. q # p /\ job'[q] = job[q] /\ Starts(q, c)
        BY <1>6, <3>1 DEF Starts
    <3>3. inst'[q] = c /\ ~ ToCome(q, q)'
        BY <2>2, <3>2 DEF ToCome
    <3>4. battle[c].live /\ battle[c].timer = "armed"
        BY <3>2 DEF Fray, Leads
    <3> QED BY <2>1, <3>3, <3>4
  <2>8. Alone'
      BY <1>2, <2>1 DEF Fray, Alone
  <2>9. Fought'
    <3>1. PICK c \in Player : c \in battle[b].chars /\ c # p
        BY <1>0, <1>11 DEF BattlesSound, BattleRec
    <3>2. PICK w \in Player : /\ inst[w] = b /\ (w = c \/ Starts(w, b))
                              /\ where[w] = "arena" /\ w \in battle[b].chars
        BY <2>2, <3>1, SomebodyFights
    <3>3. w # p
        BY <2>2, <3>1, <3>2
    <3>4. Held(b)'
        BY <1>1, <2>1, <3>2, <3>3 DEF Held, Holds
    <3> QED BY <1>11, <2>1, <2>2, <3>4 DEF Fray, Fought
  <2> QED BY <1>7, <2>2, <2>4, <2>5, <2>6, <2>7, <2>8, <2>9 DEF Fray
<1>12. CASE Alive(inst[p]) /\ ~ (~ Alive(inst[p]) /\ UNCHANGED << battleVars, inst >>)
  <2>1. PICK b \in BattleId : inst[p] = b /\ battle[b].live
      BY <1>12 DEF Alive
  <2>2. /\ inst' = [inst EXCEPT ![p] = None]
        /\ \/ battle[b].chars \subseteq {p} /\ Dispose(b)
           \/ /\ ~ battle[b].chars \subseteq {p} /\ UNCHANGED state
              /\ \E alive \in BOOLEAN :
                    battle' = [battle EXCEPT ![b].chars = @ \ {p}, ![b].dced = IF alive THEN @ \cup {p} ELSE @]
      BY <1>12, <2>1 DEF LogOut
  <2> QED BY <1>10, <1>11, <2>1, <2>2
<1> QED BY <1>8, <1>12 DEF LogOut

LEMMA FrayMoves ==
    ASSUME Sound, Rolls, Fray, Belong, NEW p \in Player, Moves(p) PROVE Fray'
    BY FrayLeave, FrayWalk, FrayLogOut DEF Moves

-----------------------------------------------------------------------------
\* The timer of the battle, which waits until its members are registered.
LEMMA FrayTimers ==
    ASSUME Sound, Rolls, Fray, NEW b \in BattleId, BattleTimer(b) PROVE Fray'
<1>0. JobsSound /\ BattlesSound /\ PeopleSound /\ None \notin BattleId
    BY SquadAssumption DEF Sound
<1>1. CASE TimeUp(b) \/ TakeLock(b)
  <2>1. /\ UNCHANGED << where, inst, job, state >>
        /\ battle'[b].live = battle[b].live /\ battle'[b].chars = battle[b].chars
        /\ \A c \in BattleId \ {b} : battle'[c] = battle[c]
        /\ \/ /\ battle[b].timer = "armed"
              /\ battle'[b].timer = IF battle[b].live THEN "due" ELSE "off"
           \/ /\ battle[b].timer = "due"
              /\ battle'[b].timer = IF battle[b].live THEN "evict" ELSE "reset"
      BY <1>0, <1>1 DEF TimeUp, TakeLock, BattlesSound, BattleRec, charVars
  <2>2. \A q \in Player : ~ Starts(q, b)
    <3>1. CASE TimeUp(b)
        BY <3>1 DEF TimeUp, Starts
    <3>2. CASE TakeLock(b)
        BY <3>2 DEF TakeLock, Fray, Leads
    <3> QED BY <1>1, <3>1, <3>2
  <2>3. Places' /\ Fighting'
      BY <2>1 DEF Fray, Places, Fighting
  <2>4. Listed' /\ Incoming'
    <3>1. \A c \in BattleId : battle'[c].chars = battle[c].chars
        BY <2>1
    <3>2. Listed'
        BY <2>1, <3>1 DEF Fray, Listed, WarpsIn
    <3>3. Incoming'
        BY <1>0, <2>1, <3>1, IncomingKept DEF Fray
    <3> QED BY <3>2, <3>3
  <2>5. Leads'
      BY <2>1, <2>2 DEF Fray, Leads, Starts, BeforeEntry, ToCome
  <2>6. Alone'
    <3>1. ASSUME NEW c \in BattleId, battle[c].live
          PROVE  /\ battle'[c].timer \in {"armed", "due", "evict"}
                 /\ \A d \in BattleId \ {c} : battle'[d].timer \in {"off", "armed"}
        BY <2>1, <3>1 DEF Fray, Alone
    <3> QED BY <2>1, <3>1 DEF Fray, Alone
  <2>7. Fought'
    <3>1. \A c \in BattleId : Held(c) => Held(c)'
      <4>1. \A c \in BattleId : battle'[c].chars = battle[c].chars
          BY <2>1
      <4> QED BY <2>1, <4>1 DEF Held, Holds, Starts, ToCome
    <3>2. ASSUME NEW c \in BattleId, battle'[c].live, battle'[c].timer # "evict"
          PROVE  battle[c].live /\ battle[c].timer # "evict"
        BY <2>1, <3>2
    <3> QED BY <2>1, <3>1, <3>2 DEF Fray, Fought
  <2> QED BY <2>3, <2>4, <2>5, <2>6, <2>7 DEF Fray
<1>2. ASSUME NEW p \in Player, Evict(b, p) PROVE Fray'
  <2>1. /\ battle[b].timer = "evict" /\ p \in battle[b].chars /\ battle[b].live
        /\ battle' = [battle EXCEPT ![b].chars = @ \ {p}] /\ inst' = [inst EXCEPT ![p] = None]
      BY <1>0, <1>2 DEF Evict, BattlesSound
  <2>2. /\ battle'[b].live = battle[b].live /\ battle'[b].timer = "evict"
        /\ battle'[b].chars = battle[b].chars \ {p}
        /\ \A c \in BattleId \ {b} : battle'[c] = battle[c]
        /\ inst'[p] = None /\ \A q \in Player \ {p} : inst'[q] = inst[q]
      BY <1>0, <2>1 DEF BattlesSound, BattleRec, PeopleSound
  <2>3. \A c \in BattleId : battle[c].live => c = b
      BY <2>1 DEF Fray, Alone
  <2>4. \A q \in Player : job[q].at \notin {"starting", "entering"}
    <3>1. SUFFICES ASSUME NEW q \in Player, job[q].at \in {"starting", "entering"} PROVE FALSE
        OBVIOUS
    <3> QED BY <2>1, <2>3, <3>1, OneStarter
  <2>5. /\ \A q \in Player \ {p} : job'[q] = job[q] /\ where'[q] = where[q]
        /\ \/ job'[p] = job[p] /\ where'[p] \in {where[p], "away"}
              /\ (job[p].at \in Dialogs => where'[p] = where[p])
           \/ job'[p].at = "idle"
    <3>1. CASE GoesAway(p, "away") /\ job' = [job EXCEPT ![p] = IF @.at \in Dialogs THEN Idle ELSE @]
      <4>1. Idle.at = "idle"
          BY DoingFields DEF Idle
      <4>2. where' = [where EXCEPT ![p] = "away"]
          BY <3>1, CheckStatesFrame
      <4> QED BY <1>0, <3>1, <4>1, <4>2 DEF JobsSound, PeopleSound
    <3>2. CASE UNCHANGED << where, job >>
        BY <3>2
    <3> QED BY <1>2, <3>1, <3>2 DEF Evict
  <2>6. Places'
      BY <2>2, <2>5 DEF Fray, Places, Dialogs, Outbound
  <2>7. \A q \in Player : job'[q].at \notin {"starting", "entering"}
      BY <2>4, <2>5
  <2>8. Fighting'
      BY <1>0, <2>2, <2>5 DEF Fray, Fighting
  <2>9. Listed'
    <3>1. ASSUME NEW x \in Player, NEW c \in BattleId, x \in battle'[c].chars PROVE inst'[x] = c
      <4>1. x \in battle[c].chars /\ x # p
          BY <1>0, <2>2, <2>3, <3>1 DEF BattlesSound
      <4> QED BY <2>2, <2>4, <4>1 DEF Fray, Listed, WarpsIn
    <3> QED BY <3>1 DEF Listed
  <2>10. Alone'
      BY <2>1, <2>2, <2>5, <2>7 DEF Fray, Alone
  <2> QED BY <2>2, <2>3, <2>6, <2>7, <2>8, <2>9, <2>10 DEF Fray, Incoming, Leads, Starts, Fought
<1>3. CASE CloseBattle(b) \/ ResetState(b)
  <2>1. /\ UNCHANGED << where, inst, job >>
        /\ battle[b].timer \in {"evict", "reset"} /\ (battle[b].timer = "evict" => battle[b].chars = {})
        /\ \A c \in BattleId \ {b} : battle'[c] = battle[c]
        /\ battle[b].timer = "evict" => ~ battle'[b].live /\ battle'[b].chars = {}
        /\ battle[b].timer = "reset" => battle'[b].live = battle[b].live /\ battle'[b].chars = battle[b].chars
      BY <1>0, <1>3 DEF CloseBattle, ResetState, BattlesSound, BattleRec, charVars, Disposed
  <2>2. Places'
      BY <2>1 DEF Fray, Places
  <2>3. CASE battle[b].live
    <3>1. battle[b].timer = "evict" /\ battle[b].chars = {}
        BY <2>1, <2>3 DEF Fray, Alone
    <3>2. \A q \in Player : inst[q] # b
        BY <3>1 DEF Fray, Fighting
    <3>3. \A q \in Player : ~ Starts(q, b)
        BY <3>1 DEF Fray, Leads
    <3> QED BY <2>1, <2>2, <2>3, <3>1, <3>2, <3>3, FrayDispose
  <2>4. CASE ~ battle[b].live
    <3>1. \A c \in BattleId : ~ battle[c].live
        BY <2>1, <2>4 DEF Fray, Alone
    <3>2. \A c \in BattleId : ~ battle'[c].live /\ battle'[c].chars = {}
        BY <1>0, <2>1, <3>1 DEF BattlesSound
    <3> QED BY <2>1, <2>2, <3>1, <3>2, NoneStarts, FrayOver
  <2> QED BY <2>3, <2>4
<1> QED BY <1>1, <1>2, <1>3 DEF BattleTimer

-----------------------------------------------------------------------------
(* Who may start a battle, and when.                                        *)

\* No battle is fought: one that is left is being ended by its timer.
NoFight == \A b \in BattleId : battle[b].live => battle[b].timer = "evict"

\* A leader's menu is open while its squad forms and no battle is fought.
Menu(p, s) == job[p].at = "leading" /\ job[p].squad = s /\ squadOn = s
MenuLeads ==
    \A p \in Player, s \in SquadId : Menu(p, s) =>
        squad[s].leader = p /\ squad[s].status = 1 /\ NoFight

\* Questions are opened by the four first actions at the NPC.
LEMMA Asks ==
    ASSUME Sound, [Next]_vars, NEW r \in Player
    PROVE  \/ job'[r] = job[r] \/ job'[r].at \notin Dialogs
           \/ AskToLead(r) \/ OpenMenu(r) \/ OfferReturn(r) \/ OfferReservation(r)
<1>0. JobsSound
    BY DEF Sound
<1>a. Idle.at \notin Dialogs
    BY DoingFields, StageFacts DEF Idle, Dialogs
<1>1. CASE UNCHANGED job
    BY <1>1
<1>2. ASSUME NEW p \in Player, Chats(p),
             ~ (AskToLead(p) \/ OpenMenu(p) \/ OfferReturn(p) \/ OfferReservation(p))
      PROVE  job'[r] = job[r] \/ job'[r].at \notin Dialogs
  <2>1. \/ Finishes(p) \/ Goes(p, "adding")
        \/ \E b \in BattleId : job' = [job EXCEPT ![p] = Doing("starting", squadOn, b, squad[squadOn].members)]
        \/ job' = [job EXCEPT ![p] = Doing("reentering", None, named, << p >>)]
      BY <1>2 DEF Chats, Close, Register, LoseLeader, Join, Withdraw, Ban, Accept, Reserve, Answers,
                  Start, Rejoin
  <2>2. CASE Finishes(p)
      BY <1>0, <1>a, <2>2, FinishesAt
  <2>3. CASE Goes(p, "adding")
      BY <1>0, <2>3, GoesAt DEF Dialogs
  <2>4. ASSUME NEW b \in BattleId,
               job' = [job EXCEPT ![p] = Doing("starting", squadOn, b, squad[squadOn].members)]
        PROVE  job'[r] = job[r] \/ job'[r].at \notin Dialogs
      BY <1>0, <2>4 DEF JobsSound, Doing, Dialogs
  <2>5. CASE job' = [job EXCEPT ![p] = Doing("reentering", None, named, << p >>)]
      BY <1>0, <2>5 DEF JobsSound, Doing, Dialogs
  <2> QED BY <2>1, <2>2, <2>3, <2>4, <2>5
<1>3. ASSUME NEW p \in Player, Works(p) PROVE job'[r] = job[r] \/ job'[r].at \notin Dialogs
  <2>1. CASE AddSquad(p) \/ SetStatus(p) \/ Depart(p) \/ Quit(p)
    <3>1. Finishes(p)
        BY <2>1 DEF AddSquad, SetStatus, Depart, Quit
    <3> QED BY <1>0, <1>a, <3>1, FinishesAt
  <2>2. CASE Unregister(p) \/ DisposeIfEmpty(p) \/ Reset(p)
    <3>1. \E at \in {"checking", "resetting", "departing"} : Goes(p, at)
        BY <2>2 DEF Unregister, DisposeIfEmpty, Reset
    <3> QED BY <1>0, <3>1, GoesAt DEF Dialogs
  <2>3. CASE RegisterMember(p)
    <3>1. job'[p].at \in {"entering", "starting"} /\ \A q \in Player \ {p} : job'[q] = job[q]
        BY <2>3, RegisterMemberMeans
    <3> QED BY <3>1 DEF Dialogs
  <2>4. CASE Enter(p)
    <3>1. job[p].at \in {"entering", "reentering"} /\ job' = Warped(p)
        BY <2>4, EnterMeans
    <3>2. CASE r = p
      <4>1. ASSUME job[p].at = "entering" PROVE job'[p].at = "starting"
        <5>1. job'[p] = [job[p] EXCEPT !.at = "starting", !.todo = Tail(@)]
            BY <1>0, <3>1, <4>1, WarpedJobs
        <5> QED BY <1>0, <5>1 DEF JobsSound, JobRec
      <4>2. job[p].at = "reentering" => job'[p] = Idle
          BY <1>0, <3>1, WarpedJobs
      <4> QED BY <1>a, <3>1, <3>2, <4>1, <4>2 DEF Dialogs
    <3>3. CASE r # p
      <4>1. job'[r] \in {Idle, job[r]}
          BY <1>0, <3>1, <3>3, WarpedJobs
      <4> QED BY <1>a, <4>1
    <3> QED BY <3>2, <3>3
  <2> QED BY <1>3, <2>1, <2>2, <2>3, <2>4 DEF Works
<1>4. ASSUME NEW p \in Player, Moves(p) PROVE job'[r] = job[r] \/ job'[r].at \notin Dialogs
  <2>1. CASE Leave(p)
    <3>1. \E at \in {"leaving", "departing"}, b \in BattleId \cup {None} :
              job' = [job EXCEPT ![p] = Doing(at, None, b, << >>)]
        BY <2>1 DEF Leave, Alive
    <3> QED BY <1>0, <3>1 DEF JobsSound, Doing, Dialogs
  <2>2. CASE LogOut(p)
      BY <1>0, <2>2 DEF JobsSound, Doing, Dialogs, LogOut
  <2>3. CASE Walk(p)
      BY <1>0, <1>a, <2>3, FinishesAt DEF Walk
  <2>4. CASE LogIn(p)
      BY <2>4 DEF LogIn
  <2> QED BY <1>4, <2>1, <2>2, <2>3, <2>4 DEF Moves
<1>5. ASSUME NEW b \in BattleId, BattleTimer(b) PROVE job'[r] = job[r] \/ job'[r].at \notin Dialogs
  <2>1. UNCHANGED job \/ \E p \in Player : job' = [job EXCEPT ![p] = IF @.at \in Dialogs THEN Idle ELSE @]
      BY <1>5 DEF BattleTimer, TimeUp, TakeLock, CloseBattle, ResetState, Evict
  <2> QED BY <1>0, <1>a, <2>1 DEF JobsSound
<1>6. ASSUME NEW p \in Player, Chats(p), p # r PROVE job'[r] = job[r]
    BY <1>0, <1>6, ChatFrame, JobAt
<1> QED BY <1>1, <1>2, <1>3, <1>4, <1>5, <1>6 DEF Next, vars, Expire

\* A new squad is made for one player, and nobody knows of it yet.
Fresh(q) ==
    /\ squadOn' \in SquadId /\ squad'[squadOn'] = NewSquad(q)
    /\ \A r \in Player : job[r].squad # squadOn'

LEMMA ClearAndCopyMakes ==
    ASSUME Sound, NEW s \in SquadId, ClearAndCopy(s)
    PROVE  squadOn' = None \/ \E q \in Player : Fresh(q)
<1>0. SquadsSound
    BY DEF Sound
<1>1. CASE ClearSquad(s) /\ queue' = << >>
    BY <1>1 DEF ClearSquad
<1>2. ASSUME NEW i \in Turns, NEW n \in FreeAfter(s),
             squad' = [squad EXCEPT ![s] = NoSquad, ![n] = NewSquad(queue[i])], squadOn' = n
      PROVE  Fresh(queue[i]) /\ queue[i] \in Player
  <2>1. i \in 1 .. Len(queue) /\ queue \in Seq(Player)
      BY <1>0 DEF Turns, SquadsSound
  <2>2. queue[i] \in Player
      BY <2>1
  <2>3. n \in SquadId /\ \A r \in Player : job[r].squad # n
      BY DEF FreeAfter, UnusedSquad
  <2>4. squad'[n] = NewSquad(queue[i])
      BY <1>0, <1>2, <2>3 DEF SquadsSound
  <2> QED BY <1>2, <2>2, <2>3, <2>4 DEF Fresh
<1> QED BY <1>1, <1>2 DEF ClearAndCopy

\* What a step does to the squad of the channel.
Same == squadOn' = squadOn /\ squad' = squad
Manned ==
    /\ squadOn \in SquadId /\ squadOn' = squadOn
    /\ squad'[squadOn].leader = squad[squadOn].leader
    /\ squad'[squadOn].status = squad[squadOn].status

LEMMA GoesAwaySquad ==
    ASSUME Sound, NEW p \in Player, NEW to, GoesAway(p, to)
    PROVE  Same \/ Manned \/ squadOn' = None \/ \E q \in Player : Fresh(q)
<1>0. SquadsSound /\ None \notin SquadId
    BY SquadAssumption DEF Sound
<1>1. CASE UNCHANGED squadVars
    BY <1>1 DEF squadVars, Same
<1>2. CASE CheckStates(p)
  <2>1. CASE squadOn # None /\ squad[squadOn].status = 2
    <3>1. squadOn \in SquadId
        BY <1>0, <2>1 DEF SquadsSound
    <3>2. CASE ClearAndCopy(squadOn)
        BY <3>1, <3>2, ClearAndCopyMakes
    <3>3. CASE /\ squad' = [squad EXCEPT ![squadOn].members = Without(@, p)]
               /\ UNCHANGED << squadOn, queue >>
      <4>1. Manned
          BY <1>0, <2>1, <3>1, <3>3 DEF Manned, SquadsSound, SquadRec
      <4> QED BY <3>3, <4>1
    <3> QED BY <1>2, <2>1, <3>2, <3>3 DEF CheckStates
  <2>2. CASE ~ (squadOn # None /\ squad[squadOn].status = 2)
      BY <1>2, <2>2 DEF CheckStates, Same
  <2> QED BY <2>1, <2>2
<1> QED BY <1>1, <1>2 DEF GoesAway

LEMMA ChatsSquad ==
    ASSUME Sound, NEW p \in Player, Chats(p), ~ Rejoin(p)
    PROVE  Same \/ Manned \/ squadOn' = None
<1>0. SquadsSound
    BY DEF Sound
<1>1. CASE UNCHANGED squadVars
    BY <1>1 DEF squadVars, Same
<1>2. CASE LoseLeader(p)
    BY <1>2 DEF LoseLeader, ClearSquad
<1>3. CASE Reserve(p)
    BY <1>3 DEF Reserve, Same
<1>4. CASE Join(p) \/ Withdraw(p) \/ Ban(p) \/ Accept(p)
  <2>1. squadOn \in SquadId /\ squadOn' = squadOn
      BY <1>0, <1>4 DEF SquadsSound, Join, Withdraw, Ban, Accept, Answers
  <2>2. \E m : \/ squad' = [squad EXCEPT ![squadOn].members = m]
               \/ \E x : squad' = [squad EXCEPT ![squadOn].members = m, ![squadOn].banned = x]
    <3>1. CASE Join(p)
        BY <3>1 DEF Join
    <3>2. CASE Withdraw(p)
        BY <3>2 DEF Withdraw
    <3>3. CASE Ban(p)
        BY <3>3 DEF Ban
    <3>4. CASE Accept(p)
        BY <3>4 DEF Accept
    <3> QED BY <1>4, <3>1, <3>2, <3>3, <3>4
  <2>3. squad \in [SquadId -> SquadRec]
      BY <1>0 DEF SquadsSound
  <2> QED BY <2>1, <2>2, <2>3 DEF Manned, SquadRec
<1> QED BY <1>1, <1>2, <1>3, <1>4
        DEF Chats, AskToLead, OpenMenu, OfferReturn, OfferReservation, Close, Register, Start

\* What any step but a return does to the squad of the channel.
LEMMA StepSquad ==
    ASSUME Sound, [Next]_vars, \A p \in Player : ~ Rejoin(p)
    PROVE  \/ Same \/ Manned \/ squadOn' = None
           \/ \E q \in Player : Fresh(q) \/ SetStatus(q)
<1>1. CASE UNCHANGED squadVars
    BY <1>1 DEF squadVars, Same
<1>2. ASSUME NEW p \in Player, AddSquad(p)
      PROVE  squadOn' = None \/ Fresh(p)
  <2>1. Cardinality({s \in SquadId : UnusedSquad(s)}) > 1
      BY <1>2 DEF AddSquad
  <2>2. ASSUME NEW s \in SquadId, s = CHOOSE n \in SquadId : UnusedSquad(n),
               squad' = [squad EXCEPT ![s] = NewSquad(p)], squadOn' = s
        PROVE  Fresh(p)
    <3>1. UnusedSquad(s)
      <4>1. {n \in SquadId : UnusedSquad(n)} # {}
          BY <2>1, FS_EmptySet
      <4> QED BY <2>2, <4>1
    <3>2. squad'[s] = NewSquad(p)
        BY <2>2 DEF Sound, SquadsSound
    <3> QED BY <2>2, <3>1, <3>2 DEF Fresh, UnusedSquad
  <2> QED BY <1>2, <2>2 DEF AddSquad
<1>3. ASSUME NEW p \in Player, Depart(p) \/ Quit(p)
      PROVE  UNCHANGED squadVars \/ GoesAway(p, "away") \/ GoesAway(p, "gone")
    BY <1>3 DEF Depart, Quit, squadVars
<1>4. ASSUME NEW p \in Player, Works(p), ~ AddSquad(p), ~ Depart(p), ~ Quit(p), ~ SetStatus(p)
      PROVE  UNCHANGED squadVars
    BY <1>4 DEF Works, RegisterMember, Enter, Unregister, DisposeIfEmpty, Reset
<1>6. ASSUME NEW p \in Player, Moves(p) PROVE UNCHANGED squadVars
    BY <1>6 DEF Moves, Leave, Walk, LogOut, LogIn
<1>7. ASSUME NEW b \in BattleId, BattleTimer(b)
      PROVE  UNCHANGED squadVars \/ \E p \in Player : GoesAway(p, "away")
    BY <1>7 DEF BattleTimer, TimeUp, TakeLock, CloseBattle, ResetState, Evict, squadVars
<1>8. ASSUME NEW s \in SquadId, Expire(s) PROVE ClearAndCopy(s)
    BY <1>8 DEF Expire
<1>9. CASE \E p \in Player : Chats(p)
    BY <1>9, ChatsSquad
<1>10. CASE \E p \in Player : Works(p)
    BY <1>1, <1>2, <1>3, <1>4, <1>10, GoesAwaySquad
<1>11. CASE \E p \in Player : Moves(p)
    BY <1>1, <1>6, <1>11
<1>12. CASE \E s \in SquadId : Expire(s)
    BY <1>8, <1>12, ClearAndCopyMakes
<1>13. CASE \E b \in BattleId : BattleTimer(b)
    BY <1>1, <1>7, <1>13, GoesAwaySquad
<1>14. CASE UNCHANGED vars
    BY <1>1, <1>14 DEF vars
<1> QED BY <1>9, <1>10, <1>11, <1>12, <1>13, <1>14 DEF Next

\* A battle is fought only when one is started.
LEMMA NoFightKept ==
    ASSUME Sound, NoFight, [Next]_vars, \A p \in Player : ~ Start(p) /\ ~ Rejoin(p) PROVE NoFight'
<1>0. BattlesSound
    BY DEF Sound
<1> DEFINE Softer == \A b \in BattleId : battle'[b].live =>
                         battle[b].live /\ battle'[b].timer \in {battle[b].timer, "evict"}
<1>1. CASE UNCHANGED battle
    BY <1>1 DEF NoFight
<1>2. ASSUME Softer PROVE NoFight'
    BY <1>2 DEF NoFight
<1>3. ASSUME NEW b \in BattleId, NEW x, NEW y, battle' = [battle EXCEPT ![b].chars = x, ![b].dced = y]
      PROVE  Softer
    BY <1>0, <1>3 DEF BattlesSound, BattleRec
<1>4. ASSUME NEW b \in BattleId, NEW x, battle' = [battle EXCEPT ![b].chars = x] PROVE Softer
    BY <1>0, <1>4 DEF BattlesSound, BattleRec
<1>5. ASSUME NEW b \in BattleId, Dispose(b) PROVE Softer
    BY <1>0, <1>5 DEF Dispose, BattlesSound, BattleRec
<1> HIDE DEF Softer
<1>6. ASSUME NEW p \in Player, Chats(p) PROVE UNCHANGED battle
    BY <1>6 DEF Chats, AskToLead, OpenMenu, OfferReturn, OfferReservation, Close, Register, LoseLeader, Join,
       Withdraw, Ban, Accept, Reserve, battleVars
<1>7. ASSUME NEW p \in Player, Works(p) PROVE NoFight'
  <2>0. JobsSound
      BY DEF Sound
  <2>1. CASE RegisterMember(p)
    <3>1. PICK b \in BattleId : b = job[p].battle
        BY <2>1, RegisterMemberMeans
    <3>2. UNCHANGED battle \/ battle' = [battle EXCEPT ![b].chars = @ \cup {Head(job[p].todo)}]
        BY <2>1, <3>1 DEF RegisterMember
    <3> QED BY <1>1, <1>2, <1>4, <3>2
  <2>2. CASE Unregister(p)
    <3>1. PICK b \in BattleId : b = job[p].battle
        BY <2>0, <2>2 DEF Unregister, At, JobsSound, JobSound
    <3>2. battle' = [battle EXCEPT ![b].chars = @ \ {p}]
        BY <2>2, <3>1 DEF Unregister
    <3> QED BY <1>2, <1>4, <3>2
  <2>3. CASE DisposeIfEmpty(p)
    <3>1. PICK b \in BattleId : b = job[p].battle
        BY <2>0, <2>3 DEF DisposeIfEmpty, At, JobsSound, JobSound
    <3>2. UNCHANGED battle \/ Dispose(b)
        BY <2>3, <3>1 DEF DisposeIfEmpty, battleVars
    <3> QED BY <1>1, <1>2, <1>5, <3>2
  <2>4. CASE ~ RegisterMember(p) /\ ~ Unregister(p) /\ ~ DisposeIfEmpty(p)
      BY <1>1, <1>7, <2>4 DEF Works, AddSquad, Enter, SetStatus, Reset, Depart, Quit, battleVars
  <2> QED BY <2>1, <2>2, <2>3, <2>4
<1>8. ASSUME NEW p \in Player, Moves(p) PROVE NoFight'
  <2>1. CASE UNCHANGED battle
      BY <1>1, <2>1
  <2>2. CASE LogOut(p)
    <3>1. UNCHANGED battle \/ (Alive(inst[p]) /\ ~ UNCHANGED battle)
        BY <2>2 DEF LogOut, battleVars
    <3>2. CASE Alive(inst[p]) /\ ~ UNCHANGED battle
      <4>1. PICK b \in BattleId : b = inst[p]
          BY <3>2 DEF Alive
      <4>2. \/ Dispose(b)
            \/ \E alive \in BOOLEAN :
                   battle' = [battle EXCEPT ![b].chars = @ \ {p},
                                            ![b].dced = IF alive THEN @ \cup {p} ELSE @]
          BY <2>2, <3>2, <4>1 DEF LogOut, battleVars
      <4> QED BY <1>2, <1>3, <1>5, <4>2
    <3> QED BY <1>1, <3>1, <3>2
  <2> QED BY <1>8, <2>1, <2>2 DEF Moves, Leave, Walk, LogIn, battleVars
<1>9. ASSUME NEW b \in BattleId, BattleTimer(b) PROVE NoFight'
  <2>1. CASE TimeUp(b)
      BY <1>0, <2>1 DEF TimeUp, NoFight, BattlesSound, BattleRec
  <2>2. CASE TakeLock(b)
      BY <1>0, <2>2 DEF TakeLock, NoFight, BattlesSound, BattleRec
  <2>3. CASE CloseBattle(b)
      BY <1>0, <2>3 DEF CloseBattle, NoFight, BattlesSound, BattleRec, Disposed
  <2>4. CASE ResetState(b)
      BY <1>0, <2>4 DEF ResetState, NoFight, BattlesSound, BattleRec
  <2>5. ASSUME NEW p \in Player, Evict(b, p) PROVE NoFight'
    <3>1. battle' = [battle EXCEPT ![b].chars = @ \ {p}]
        BY <2>5 DEF Evict
    <3> QED BY <1>2, <1>4, <3>1
  <2> QED BY <1>9, <2>1, <2>2, <2>3, <2>4, <2>5 DEF BattleTimer
<1>10. ASSUME NEW s \in SquadId, Expire(s) PROVE UNCHANGED battle
    BY <1>10 DEF Expire, battleVars
<1>11. CASE UNCHANGED vars
    BY <1>1, <1>11 DEF vars, battleVars
<1> QED BY <1>1, <1>6, <1>7, <1>8, <1>9, <1>10, <1>11 DEF Next

\* The leader's menu opens when no battle is fought.
LEMMA MenuOpens ==
    ASSUME Sound, Fray, NEW p \in Player, OpenMenu(p), job'[p].at = "leading"
    PROVE  /\ NoFight' /\ UNCHANGED squadVars
           /\ squad[squadOn].leader = p /\ squad[squadOn].status = 1
<1>0. JobsSound /\ SquadsSound
    BY DEF Sound
<1>1. Open /\ squadOn # None /\ UNCHANGED battleVars /\ UNCHANGED squadVars
    BY DEF OpenMenu
<1>2. squad[squadOn].leader = p
  <2>1. CASE Goes(p, "joining")
      BY <1>0, <2>1, GoesAt
  <2> QED BY <2>1 DEF OpenMenu
<1>3. squadOn \in SquadId /\ squad[squadOn].status = 1 /\ state = "0"
    BY <1>0, <1>1 DEF SquadsSound, Open
<1>4. NoFight
    BY <1>3 DEF Fray, Fought, NoFight
<1>5. NoFight'
    BY <1>1, <1>4 DEF NoFight, battleVars
<1> QED BY <1>1, <1>2, <1>3, <1>5

-----------------------------------------------------------------------------
\* The other questions are no menu of a leader.
LEMMA OpenersAsk ==
    ASSUME Sound, NEW p \in Player, job'[p].at = "leading"
    PROVE  ~ AskToLead(p) /\ ~ OfferReturn(p) /\ ~ OfferReservation(p)
<1>0. JobsSound
    BY DEF Sound
<1> QED BY <1>0, GoesAt DEF AskToLead, OfferReturn, OfferReservation

\* A step that is no lapse.
Regular == "returned" \notin lapses' /\ "refused" \notin lapses'
           /\ "misled" \notin lapses' /\ "hasty" \notin lapses'

\* Who starts a battle has the menu of the squad on the channel, and is the first
\* on its list.
LEMMA StarterLeads ==
    ASSUME Sound, Regular, NEW p \in Player, Start(p)
    PROVE  /\ Menu(p, squadOn) /\ squadOn \in SquadId
           /\ squad[squadOn].members # << >> /\ Head(squad[squadOn].members) = p
           /\ ~ WindingUp
<1>1. ~ Misled(p) /\ ~ WindingUp
    BY DEF Start, Regular
<1> QED BY <1>1 DEF Start, At, Misled, Menu, Sound, SquadsSound

\* It starts when nobody fights and nothing is left to do of the battles there
\* were.
LEMMA StartsQuiet ==
    ASSUME Sound, Rolls, Belong, Fray, MenuLeads, Regular, NEW p \in Player, Start(p) PROVE Quiet
<1>0. BattlesSound /\ PeopleSound /\ None \notin BattleId
    BY SquadAssumption DEF Sound
<1>1. ~ WindingUp /\ Menu(p, squadOn) /\ squadOn \in SquadId
    BY StarterLeads
<1>2. \A b \in BattleId : battle[b].timer \in {"off", "armed"}
    BY <1>0, <1>1 DEF WindingUp, BattlesSound, BattleRec
<1>3. \A b \in BattleId : ~ battle[b].live
    BY <1>1, <1>2 DEF MenuLeads, NoFight
<1>4. \A q \in Player : inst[q] = None /\ job[q].at \notin {"starting", "entering"}
    BY <1>3, NoneStarts
<1>5. \A q \in Player : where[q] # "arena"
    BY <1>1, <1>4 DEF Belong, WindingUp
<1>6. \A q \in Player : job[q].at \notin AtWork
  <2>1. SUFFICES ASSUME NEW q \in Player, job[q].at \in AtWork PROVE FALSE
      OBVIOUS
  <2>2. job[q].at \in Outbound
      BY <1>4, <2>1 DEF AtWork, Outbound, Fray, Places
  <2>3. where[q] \in {"arena", "away"} /\ job[q].at \in Leaving
      BY <2>2 DEF Fray, Places, Outbound, Leaving
  <2> QED BY <1>1, <2>3 DEF WindingUp
<1> QED BY <1>2, <1>3, <1>4, <1>5, <1>6 DEF Quiet

LEMMA MenuLeadsKept ==
    ASSUME Sound, Rolls, Fray, MenuLeads, Regular, [Next]_vars, \A p \in Player : ~ Rejoin(p)
    PROVE  MenuLeads'
<1>0. JobsSound /\ SquadsSound /\ None \notin SquadId
    BY SquadAssumption DEF Sound
<1>1. SUFFICES ASSUME NEW p \in Player, NEW s \in SquadId, Menu(p, s)'
               PROVE  squad'[s].leader = p /\ squad'[s].status = 1 /\ NoFight'
    BY DEF MenuLeads
<1>2. job'[p].at = "leading" /\ job'[p].squad = s /\ squadOn' = s
    BY <1>1 DEF Menu
<1>3. CASE OpenMenu(p)
    BY <1>2, <1>3, MenuOpens DEF squadVars
<1>4. CASE job'[p] = job[p]
  <2>1. ASSUME squadOn = s
        PROVE  squad[s].leader = p /\ squad[s].status = 1 /\ NoFight /\ NoFight'
    <3>1. squad[s].leader = p /\ squad[s].status = 1 /\ NoFight
        BY <1>2, <1>4, <2>1 DEF Menu, MenuLeads
    <3>2. \A q \in Player : ~ Start(q)
      <4>1. SUFFICES ASSUME NEW q \in Player, Start(q) PROVE FALSE
          OBVIOUS
      <4>2. Menu(q, s)
          BY <2>1, <4>1, StarterLeads
      <4>3. q = p
          BY <3>1, <4>2 DEF MenuLeads
      <4>4. PICK b \in BattleId : job' = [job EXCEPT ![q] = Doing("starting", squadOn, b, squad[squadOn].members)]
          BY <4>1 DEF Start
      <4>5. job'[q].at = "starting"
          BY <1>0, <4>4 DEF JobsSound, Doing
      <4> QED BY <1>2, <4>3, <4>5
    <3> QED BY <3>1, <3>2, NoFightKept
  <2>2. CASE Same
      BY <1>2, <2>1, <2>2 DEF Same
  <2>3. CASE Manned
      BY <1>2, <2>1, <2>3 DEF Manned
  <2>4. ASSUME NEW q \in Player, Fresh(q) PROVE FALSE
      BY <1>2, <1>4, <2>4 DEF Fresh
  <2>5. ASSUME NEW q \in Player, SetStatus(q) PROVE FALSE
    <3>1. squadOn = s /\ job[q].at = "starting"
        BY <1>2, <2>5 DEF SetStatus, At
    <3>2. PICK b \in BattleId : battle[b].live /\ battle[b].timer = "armed"
        BY <3>1, OneStarter
    <3> QED BY <2>1, <3>1, <3>2 DEF NoFight
  <2> QED BY <1>0, <1>2, <2>2, <2>3, <2>4, <2>5, StepSquad
<1> QED BY <1>2, <1>3, <1>4, Asks, OpenersAsk DEF Dialogs

-----------------------------------------------------------------------------
LEMMA FrayKept ==
    ASSUME Sound, Rolls, Belong, Fray, MenuLeads, Regular, [Next]_vars, \A p \in Player : ~ Rejoin(p)
    PROVE  Fray'
<1>1. ASSUME NEW p \in Player, Start(p) PROVE Fray'
    BY <1>1, StarterLeads, StartsQuiet, FrayStart
<1>2. ASSUME NEW p \in Player, Chats(p) PROVE Fray'
    BY <1>1, <1>2, FrayChats
<1>3. ASSUME NEW p \in Player, Works(p) PROVE Fray'
    BY <1>3, FrayWorks DEF Regular
<1>4. ASSUME NEW p \in Player, Moves(p) PROVE Fray'
    BY <1>4, FrayMoves
<1>5. ASSUME NEW s \in SquadId, Expire(s) PROVE Fray'
    BY <1>5, FrayExpire DEF Expire, battleVars, charVars
<1>6. CASE UNCHANGED vars
    BY <1>6, FrayExpire DEF vars, battleVars, charVars
<1> QED BY <1>2, <1>3, <1>4, <1>5, <1>6, FrayTimers DEF Next

\* Until the first lapse.
Peace == lapses = {} => Fray /\ MenuLeads

LEMMA PeaceKept == Sound /\ Rolls /\ InBattle /\ Peace /\ [Next]_vars => Peace'
<1>1. SUFFICES ASSUME Sound, Rolls, InBattle, Peace, [Next]_vars, lapses' = {}
               PROVE  (Fray /\ MenuLeads)'
    BY DEF Peace
<1>2. lapses = {} /\ Regular
    BY <1>1, LapsesGrow DEF Regular
<1>3. \A p \in Player : ~ Rejoin(p)
    BY <1>2 DEF Rejoin, Regular
<1>4. Fray /\ MenuLeads /\ Belong
    BY <1>1, <1>2 DEF Peace, InBattle, Belong
<1> QED BY <1>1, <1>2, <1>3, <1>4, FrayKept, MenuLeadsKept

LEMMA PeaceInit == Init => Peace
<1>1. SUFFICES ASSUME Init PROVE Fray /\ MenuLeads
    BY DEF Peace
<1>2. Idle.at = "idle" /\ \A p \in Player : job[p] = Idle
    BY <1>1, DoingFields DEF Init, Idle
<1>3. \A p \in Player : job[p].at = "idle" /\ inst[p] = None
    BY <1>1, <1>2 DEF Init
<1>4. \A b \in BattleId : ~ battle[b].live /\ battle[b].chars = {}
    BY <1>1 DEF Init, Disposed
<1>5. Fray
    BY <1>3, <1>4, SquadAssumption
       DEF Fray, Places, Fighting, Listed, Incoming, Leads, Starts, Alone, Fought, Dialogs, Outbound
<1>6. MenuLeads
    BY <1>3 DEF MenuLeads, Menu
<1> QED BY <1>5, <1>6

LEMMA AlwaysPeace == Spec => []Peace
<1>1. Spec => []Rolls
  <2>1. Spec => []Sound
      BY AlwaysSound
  <2> QED BY <2>1, RollsInit, RollsKept, PTL DEF Spec
<1> QED BY <1>1, AlwaysSound, FightersBelong, PeaceInit, PeaceKept, PTL DEF Spec

LEMMA AtMostOne ==
    ASSUME NEW S, \A x, y \in S : x = y PROVE Cardinality(S) <= 1
<1>1. CASE S = {}
    BY <1>1, FS_EmptySet
<1>2. ASSUME NEW x \in S PROVE Cardinality(S) <= 1
  <2>1. S = {x}
      OBVIOUS
  <2> QED BY <2>1, FS_Singleton
<1> QED BY <1>1, <1>2

\* Until the first lapse a second battle is started only when the first is
\* disposed, whoever registers, leaves, logs out or reserves, and whatever
\* expires, while the members of the first are registered one by one and dialogs
\* wait for their answers (EventManager.startInstance,
\* EventInstanceManager.registerSquad, checkStates).
THEOREM OneBattleAtATime == Spec => []OneBattle
<1>1. Peace => OneBattle
  <2>1. SUFFICES ASSUME Alone PROVE Cardinality({b \in BattleId : battle[b].live}) <= 1
      BY DEF Peace, OneBattle, Fray
  <2>2. \A b, c \in {d \in BattleId : battle[d].live} : b = c
      BY <2>1 DEF Alone
  <2> QED BY <2>2, AtMostOne
<1> QED BY <1>1, AlwaysPeace, PTL

\* Until the first lapse the property "state" of the event says that a battle is
\* fought until its timer has begun to send the players away: neither the arena's own bookkeeping nor
\* the script's changedMap resets it before (MapleMap.checkStates,
\* event/PinkBeanBattle.js).
THEOREM DoorStaysShut == Spec => []DoorShut
<1>1. Peace => DoorShut
    BY DEF Peace, DoorShut, Fray, Fought
<1> QED BY <1>1, AlwaysPeace, PTL
=============================================================================
