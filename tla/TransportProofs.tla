--------------------------- MODULE TransportProofs ---------------------------
(* What is proved of the scheduled lines, for any number of passengers,     *)
(* tests and disconnections.  The proofs ask of a script what is said in    *)
(* WellFormed, Rounds, Gated and Charted; the last section shows that the   *)
(* six scripts of TransportScripts are of that kind.                        *)
EXTENDS Transport, TransportScripts, SequenceTheorems, TLAPS

-----------------------------------------------------------------------------
(* What is asked of a script.                                              *)

Statements(l, t) == {l.code[t][k] : k \in 1 .. Len(l.code[t])}
Schedules(s, t) == s[1] = "schedule" /\ s[2] = t
Sets(s, x) == s[1] = "set" /\ s[2] = x
DecksOf(l) == UNION {r.decks : r \in l.rides}

\* Statements and people are of the kinds that the module runs; the people
\* lead nobody on board, and the doors nobody ashore.
WellFormed(l) ==
    /\ \A t \in DOMAIN l.code : Len(l.code[t]) \in Nat \ {0}
    /\ \A t \in DOMAIN l.code : \A s \in Statements(l, t) :
          \/ s[1] = "set" /\ s[2] \in Properties /\ s[3] \in BOOLEAN
          \/ s[1] = "schedule" /\ s[2] \in DOMAIN l.code /\ s[3] \in Nat \ {0}
          \/ s[1] = "warp" /\ s[3] \in Nat
          \/ s[1] = "killAll"
          \/ s[1] = "spawn" /\ s[2] \in DecksOf(l)
    /\ \A n \in l.npcs : n.to \in Nat /\ n.to \notin DecksOf(l)
    /\ \A d \in l.doors : d[1] \in DecksOf(l) /\ d[2] \in Nat
    /\ \A r \in l.rides : r.from \in Nat /\ r.from \notin DecksOf(l)

Docks == {"init", "arrived"}
MainTasks == {"init", "takeoff", "arrived"}

\* The ship goes round: init and arrived dock it and schedule takeoff, takeoff
\* undocks it and schedules arrived, and arrived warps from every deck.
Rounds(l) ==
    /\ MainTasks \subseteq DOMAIN l.code
    /\ \A t \in DOMAIN l.code : \A s \in Statements(l, t) :
          /\ Sets(s, "docked") => IF s[3] THEN t \in Docks ELSE t = "takeoff"
          /\ ~ Schedules(s, "init")
          /\ Schedules(s, "takeoff") => t \in Docks
          /\ Schedules(s, "arrived") => t = "takeoff"
          /\ s[1] = "warp" => \/ t = "takeoff"
                              \/ t = "arrived" /\ s[3] \notin DecksOf(l)
    /\ \A t \in Docks : /\ \E s \in Statements(l, t) : Sets(s, "docked")
                        /\ \E s \in Statements(l, t) : Schedules(s, "takeoff")
    /\ \E s \in Statements(l, "takeoff") : Sets(s, "docked")
    /\ \E s \in Statements(l, "takeoff") : Schedules(s, "arrived")
    /\ \A m \in DecksOf(l) : \E s \in Statements(l, "arrived") : s[1] = "warp" /\ s[2] = m

\* How long after docking a task runs.
Delays(l, t) ==
    {s[3] : s \in {u \in Statements(l, "init") \cup Statements(l, "arrived") : Schedules(u, t)}}

\* Docking opens the gate, and has it shut before the takeoff it schedules.
Gated(l) ==
    l.name # "Boats" =>
        /\ "stopEntry" \in DOMAIN l.code
        /\ \A t \in DOMAIN l.code : \A s \in Statements(l, t) :
              /\ Sets(s, "entry") => IF s[3] THEN t \in Docks ELSE t = "stopEntry"
              /\ Schedules(s, "stopEntry") => t \in Docks
        /\ \A t \in Docks : \E s \in Statements(l, t) : Schedules(s, "stopEntry")
        /\ \E s \in Statements(l, "stopEntry") : Sets(s, "entry")
        /\ \A a \in Delays(l, "stopEntry"), b \in Delays(l, "takeoff") : a < b

Timetabled(l) == WellFormed(l) /\ Rounds(l) /\ Gated(l)

-----------------------------------------------------------------------------
(* The inductive invariant.                                                *)

Running(t) == pc[t] # 0
Passed(t, what, x) ==
    \E k \in 1 .. pc[t] - 1 : line.code[t][k][1] = what /\ line.code[t][k][2] = x

\* A warp is under way only where the script warps.
Warping == \A t \in Task : caught[t] # {} => Running(t) /\ Statement(t)[1] = "warp"

\* Of init, takeoff and arrived one runs, or one is scheduled and none runs.
Alone == (\A t, u \in MainTasks : Running(t) /\ Running(u) => t = u) /\ "init" \notin armed

Docking ==
    \A t \in Docks : Running(t) =>
        /\ "arrived" \notin armed
        /\ "takeoff" \in armed => due["takeoff"] > 0
        /\ Passed(t, "schedule", "takeoff") => "takeoff" \in armed
        /\ Passed(t, "set", "docked") => prop["docked"]

Leaving ==
    Running("takeoff") =>
        /\ "takeoff" \notin armed
        /\ "arrived" \in armed => due["arrived"] > 0
        /\ Passed("takeoff", "schedule", "arrived") => "arrived" \in armed
        /\ Passed("takeoff", "set", "docked") => ~ prop["docked"]

Between ==
    (\A t \in MainTasks : ~ Running(t)) =>
        \/ "takeoff" \in armed /\ "arrived" \notin armed /\ prop["docked"]
        \/ "arrived" \in armed /\ "takeoff" \notin armed /\ ~ prop["docked"]

Round == Alone /\ Docking /\ Leaving /\ Between

\* The gate is open from docking until stopEntry has run, which is before
\* takeoff is due.
GateOpens ==
    \A t \in Docks : Running(t) =>
        /\ ~ Running("stopEntry")
        /\ "takeoff" \in armed => due["takeoff"] \in Delays(line, "takeoff")
        /\ "stopEntry" \in armed => due["stopEntry"] \in Delays(line, "stopEntry")
        /\ Passed(t, "schedule", "stopEntry") => "stopEntry" \in armed

GateShuts ==
    (\A t \in Docks : ~ Running(t)) =>
        /\ "stopEntry" \in armed =>
              /\ ~ Running("takeoff") /\ "takeoff" \in armed
              /\ due["stopEntry"] < due["takeoff"]
        /\ Running("stopEntry") =>
              ~ Running("takeoff") /\ "takeoff" \in armed /\ due["takeoff"] > 0
        /\ prop["entry"] =>
              \/ "stopEntry" \in armed
              \/ Running("stopEntry") /\ ~ Passed("stopEntry", "set", "entry")

Gate == line.name # "Boats" => GateOpens /\ GateShuts

\* Somebody aboard whom arrived has yet to warp.
ToBeWarped(p) ==
    \E k \in pc["arrived"] .. Len(line.code["arrived"]) :
        /\ line.code["arrived"][k][1] = "warp"
        /\ line.code["arrived"][k][2] = place[p]
        /\ k = pc["arrived"] /\ caught["arrived"] # {} => p \in caught["arrived"]

\* Who is aboard of a ship that lands came by itself, or will be warped.
Left(p) == online[p] /\ Aboard(p) /\ ~ own[p]

Swept ==
    /\ Running("init") => \A p \in Passenger : ~ Aboard(p)
    /\ Running("arrived") => \A p \in Passenger : Left(p) => ToBeWarped(p)
    /\ (\A t \in MainTasks : ~ Running(t)) /\ "takeoff" \in armed =>
          \A p \in Passenger : ~ Left(p)

TransportInv ==
    /\ Timetabled(line)
    /\ TypeOK /\ Warping /\ Round /\ Gate /\ Swept

-----------------------------------------------------------------------------
(* The statement that a running function is at, and the next one.          *)

\* What is known of the statement a function is at.
LEMMA AtStatement ==
    ASSUME TypeOK, WellFormed(line), NEW t \in Task, Running(t)
    PROVE  /\ pc[t] \in 1 .. Len(line.code[t])
           /\ Statement(t) = line.code[t][pc[t]]
           /\ Statement(t) \in Statements(line, t)
  BY DEF TypeOK, WellFormed, Running, Statement, Statements

LEMMA Advanced ==
    ASSUME TypeOK, WellFormed(line), line' = line, NEW t \in Task, Running(t), Advance(t)
    PROVE  /\ pc' \in [Task -> Nat]
           /\ \A u \in Task : pc'[u] <= Len(line.code[u])
           /\ \A u \in Task \ {t} : pc'[u] = pc[u]
           /\ \/ pc[t] = Len(line.code[t]) /\ pc'[t] = 0
              \/ pc[t] < Len(line.code[t]) /\ pc'[t] = pc[t] + 1
  BY AtStatement DEF Advance, TypeOK, WellFormed

\* What a function has passed after a statement, and what it has passed when
\* it ends: all of it.
LEMMA PassedNext ==
    ASSUME TypeOK, WellFormed(line), line' = line, NEW t \in Task, Running(t), Advance(t),
           NEW what, NEW x
    PROVE  /\ Passed(t, what, x)' =>
                 Passed(t, what, x) \/ (Statement(t)[1] = what /\ Statement(t)[2] = x)
           /\ ~ Running(t)' /\ (\E s \in Statements(line, t) : s[1] = what /\ s[2] = x) =>
                 Passed(t, what, x) \/ (Statement(t)[1] = what /\ Statement(t)[2] = x)
  <1>1. /\ pc[t] \in 1 .. Len(line.code[t]) /\ Len(line.code[t]) \in Nat
        /\ Statement(t) = line.code[t][pc[t]]
    BY AtStatement DEF WellFormed
  <1>2. \/ pc[t] = Len(line.code[t]) /\ pc'[t] = 0
        \/ pc[t] < Len(line.code[t]) /\ pc'[t] = pc[t] + 1
    BY Advanced
  <1>3. ASSUME Passed(t, what, x)'
        PROVE  Passed(t, what, x) \/ (Statement(t)[1] = what /\ Statement(t)[2] = x)
    BY <1>1, <1>2, <1>3 DEF Passed
  <1>4. ASSUME ~ Running(t)', NEW s \in Statements(line, t), s[1] = what, s[2] = x
        PROVE  Passed(t, what, x) \/ (Statement(t)[1] = what /\ Statement(t)[2] = x)
    <2>1. PICK k \in 1 .. Len(line.code[t]) : s = line.code[t][k]
      BY DEF Statements
    <2>2. pc[t] = Len(line.code[t])
      BY <1>1, <1>2, <1>4 DEF Running
    <2> QED BY <1>1, <1>4, <2>1, <2>2 DEF Passed
  <1> QED BY <1>3, <1>4

\* Nothing a function has passed changes for the others.
LEMMA PassedSame ==
    ASSUME line' = line, NEW t \in Task, pc'[t] = pc[t], NEW what, NEW x
    PROVE  Passed(t, what, x)' = Passed(t, what, x) /\ Running(t)' = Running(t)
  BY DEF Passed, Running

\* A function that has just been fired has passed nothing.
LEMMA PassedNothing ==
    ASSUME NEW t, pc'[t] = 1, NEW what, NEW x
    PROVE  ~ Passed(t, what, x)' /\ Running(t)'
  BY DEF Passed, Running

-----------------------------------------------------------------------------
(* The types.                                                              *)

LEMMA InitTypes == ASSUME Init, \A l \in Lines : Timetabled(l) PROVE TypeOK /\ Warping
  <1>1. line \in Lines /\ Timetabled(line)
    BY DEF Init
  <1>2. pc \in [Task -> Nat] /\ \A t \in Task : pc[t] <= Len(line.code[t])
    BY <1>1 DEF Init, Timetabled, WellFormed, Task
  <1>3. place \in [Passenger -> Nat]
    BY <1>1 DEF Init, Timetabled, WellFormed, Starts
  <1> QED BY <1>1, <1>2, <1>3, BoundsAssumption
          DEF Init, TypeOK, Warping, Decks, Nowhere, NoTalk, BoundsAssumption

LEMMA DecksAre == Decks = DecksOf(line)
  BY DEF Decks, DecksOf

LEMMA LineStays ==
    ASSUME line' = line
    PROVE  Task' = Task /\ Decks' = Decks /\ Ends' = Ends
  BY DEF Task, Decks, Ends

LEMMA StatementKinds ==
    ASSUME TypeOK, WellFormed(line), NEW t \in Task, Running(t)
    PROVE  /\ Statement(t)[1] = "set" =>
                 Statement(t)[2] \in Properties /\ Statement(t)[3] \in BOOLEAN
           /\ Statement(t)[1] = "schedule" =>
                 Statement(t)[2] \in Task /\ Statement(t)[3] \in Nat \ {0}
           /\ Statement(t)[1] = "warp" => Statement(t)[3] \in Nat
           /\ Statement(t)[1] = "spawn" => Statement(t)[2] \in Decks
  <1>1. Statement(t) \in Statements(line, t)
    BY AtStatement
  <1> QED BY <1>1, DecksAre DEF WellFormed, Task

LEMMA FireTypes ==
    ASSUME TypeOK, Warping, WellFormed(line), NEW t \in Task, Fire(t)
    PROVE  TypeOK' /\ Warping'
  <1>1. 1 <= Len(line.code[t])
    BY DEF WellFormed, Task
  <1>2. UNCHANGED << line, prop, monsters, due, caught, passengerVars >>
    BY DEF Fire
  <1>3. /\ armed' \subseteq Task /\ pc' \in [Task -> Nat]
        /\ \A u \in Task : pc'[u] <= Len(line.code[u])
    BY <1>1 DEF Fire, TypeOK
  <1>4. TypeOK'
    BY <1>2, <1>3, LineStays DEF TypeOK, passengerVars
  <1>5. Warping'
    BY <1>2, LineStays DEF Warping, Running, Statement, Fire, TypeOK
  <1> QED BY <1>4, <1>5

\* The statements that warp nobody.
LEMMA PlainTypes ==
    ASSUME TypeOK, Warping, WellFormed(line), NEW t \in Task,
           SetProperty(t) \/ ScheduleTask(t) \/ KillAllMonsters(t) \/ SpawnMonsters(t)
    PROVE  TypeOK' /\ Warping'
  <1>1. /\ Running(t) /\ Advance(t) /\ Statement(t)[1] # "warp"
        /\ UNCHANGED <<line, caught, passengerVars>>
    BY DEF SetProperty, ScheduleTask, KillAllMonsters, SpawnMonsters, Doing, Running
  <1>2. /\ pc' \in [Task -> Nat]
        /\ \A u \in Task : pc'[u] <= Len(line.code[u])
        /\ \A u \in Task \ {t} : pc'[u] = pc[u]
    BY <1>1, Advanced
  <1>3. prop' \in [Properties -> BOOLEAN]
    BY <1>1, StatementKinds DEF SetProperty, ScheduleTask, KillAllMonsters, SpawnMonsters, Doing, TypeOK
  <1>4. armed' \subseteq Task /\ due' \in [Task -> Nat]
    BY <1>1, StatementKinds
       DEF SetProperty, ScheduleTask, KillAllMonsters, SpawnMonsters, Doing, TypeOK, timerVars
  <1>5. monsters' \subseteq Decks
    BY <1>1, StatementKinds DEF SetProperty, ScheduleTask, KillAllMonsters, SpawnMonsters, Doing, TypeOK
  <1>6. TypeOK'
    BY <1>1, <1>2, <1>3, <1>4, <1>5, LineStays DEF TypeOK, passengerVars
  <1>7. Warping'
    <2>1. caught[t] = {}
      BY <1>1 DEF Warping
    <2> QED BY <1>1, <1>2, <2>1, LineStays DEF Warping, Running, Statement
  <1> QED BY <1>6, <1>7

LEMMA CopyTypes ==
    ASSUME TypeOK, Warping, WellFormed(line), NEW t \in Task, CopyCharacters(t)
    PROVE  TypeOK' /\ Warping'
  <1> DEFINE there == {p \in Passenger : online[p] /\ place[p] = Statement(t)[2]}
  <1>1. /\ Running(t) /\ Statement(t)[1] = "warp"
        /\ caught' = [caught EXCEPT ![t] = there]
        /\ IF there = {} THEN Advance(t) ELSE UNCHANGED pc
        /\ UNCHANGED << line, prop, monsters, timerVars, passengerVars >>
    BY DEF CopyCharacters, Doing, Running
  <1>2. /\ pc' \in [Task -> Nat]
        /\ \A u \in Task : pc'[u] <= Len(line.code[u])
        /\ \A u \in Task \ {t} : pc'[u] = pc[u]
        /\ there # {} => pc' = pc
    BY <1>1, Advanced DEF TypeOK
  <1>3. caught' \in [Task -> SUBSET Passenger]
    BY <1>1 DEF TypeOK
  <1> HIDE DEF there
  <1>4. TypeOK'
    BY <1>1, <1>2, <1>3, LineStays DEF TypeOK, timerVars, passengerVars
  <1>5. Warping'
    BY <1>1, <1>2, LineStays DEF Warping, Running, Statement, TypeOK
  <1> QED BY <1>4, <1>5

LEMMA WarpTypes ==
    ASSUME TypeOK, Warping, WellFormed(line), NEW t \in Task, NEW p \in Passenger, WarpOne(t, p)
    PROVE  TypeOK' /\ Warping'
  <1>1. /\ Running(t) /\ Statement(t)[1] = "warp" /\ p \in caught[t]
        /\ caught' = [caught EXCEPT ![t] = @ \ {p}]
        /\ IF caught[t] = {p} THEN Advance(t) ELSE UNCHANGED pc
        /\ UNCHANGED << line, prop, monsters, timerVars, online, talk, testing, tests, logouts >>
    BY DEF WarpOne, Doing, Running
  <1>2. /\ pc' \in [Task -> Nat]
        /\ \A u \in Task : pc'[u] <= Len(line.code[u])
        /\ \A u \in Task \ {t} : pc'[u] = pc[u]
        /\ caught[t] # {p} => pc' = pc
    BY <1>1, Advanced DEF TypeOK
  <1>3. caught' \in [Task -> SUBSET Passenger]
    BY <1>1 DEF TypeOK
  <1>4. place' \in [Passenger -> Nat]
    BY <1>1, StatementKinds DEF WarpOne, TypeOK
  <1>5. bound' \in [Passenger -> Ends \cup {Nowhere}]
    BY DEF WarpOne, TypeOK
  <1>6. own' \in [Passenger -> BOOLEAN]
    <2>1. Landing \in BOOLEAN
      BY DEF Landing, TypeOK, Properties
    <2> QED BY <2>1 DEF WarpOne, TypeOK
  <1>7. TypeOK'
    BY <1>1, <1>2, <1>3, <1>4, <1>5, <1>6, LineStays DEF TypeOK, timerVars
  <1>8. Warping'
    BY <1>1, <1>2, LineStays DEF Warping, Running, Statement, TypeOK
  <1> QED BY <1>7, <1>8

\* The passengers: what they do, and what they leave alone.
LEMMA PassengerTypes ==
    ASSUME TypeOK, Warping, WellFormed(line), NEW p \in Passenger,
           \/ \E n \in line.npcs : Ask(p, n)
           \/ Yes(p) \/ No(p) \/ Door(p) \/ Walk(p)
           \/ StartTest(p) \/ EndTest(p) \/ LogOut(p) \/ LogIn(p)
    PROVE  TypeOK' /\ Warping' /\ UNCHANGED scriptVars
  <1>1. UNCHANGED scriptVars
    BY DEF Ask, Yes, No, Door, Walk, StartTest, EndTest, LogOut, LogIn
  <1>2. talk' \in [Passenger -> line.npcs \cup {NoTalk}]
    BY DEF Ask, Yes, No, Door, Walk, StartTest, EndTest, LogOut, LogIn, TypeOK
  <1>3. online' \in [Passenger -> BOOLEAN] /\ testing' \in [Passenger -> BOOLEAN]
    BY DEF Ask, Yes, No, Door, Walk, StartTest, EndTest, LogOut, LogIn, TypeOK
  <1>4. tests' \in [Passenger -> 0 .. MaxTests] /\ logouts' \in [Passenger -> 0 .. MaxLogouts]
    <2>1. tests' = tests \/ (tests[p] < MaxTests /\ tests' = [tests EXCEPT ![p] = @ + 1])
      BY DEF Ask, Yes, No, Door, Walk, StartTest, EndTest, LogOut, LogIn
    <2>2. logouts' = logouts \/ (logouts[p] < MaxLogouts /\ logouts' = [logouts EXCEPT ![p] = @ + 1])
      BY DEF Ask, Yes, No, Door, Walk, StartTest, EndTest, LogOut, LogIn
    <2>3. tests \in [Passenger -> 0 .. MaxTests] /\ logouts \in [Passenger -> 0 .. MaxLogouts]
      BY DEF TypeOK
    <2>4. tests' \in [Passenger -> 0 .. MaxTests]
      BY <2>1, <2>3, BoundsAssumption DEF BoundsAssumption
    <2>5. logouts' \in [Passenger -> 0 .. MaxLogouts]
      BY <2>2, <2>3, BoundsAssumption DEF BoundsAssumption
    <2> QED BY <2>4, <2>5
  <1>5. own' \in [Passenger -> BOOLEAN]
    <2>1. Landing \in BOOLEAN
      BY DEF Landing, TypeOK, Properties
    <2> QED BY <2>1 DEF Ask, Yes, No, Door, Walk, StartTest, EndTest, LogOut, LogIn, TypeOK
  <1>6. place' \in [Passenger -> Nat] /\ bound' \in [Passenger -> Ends \cup {Nowhere}]
    <2>1. CASE Yes(p)
      <3>1. talk[p].to \in Nat
        BY <2>1 DEF Yes, TypeOK, WellFormed
      <3>2. Promised(talk[p].to) \in Ends \cup {Nowhere}
        BY DEF Promised, Rooms, Ends
      <3> QED BY <2>1, <3>1, <3>2 DEF Yes, TypeOK
    <2>2. CASE Door(p)
      <3>1. PICK d \in line.doors : place' = [place EXCEPT ![p] = d[2]]
        BY <2>2 DEF Door
      <3> QED BY <2>2, <3>1 DEF Door, TypeOK, WellFormed
    <2>3. CASE Walk(p)
      <3>1. PICK r \in line.rides : place' = [place EXCEPT ![p] = r.from]
        BY <2>3 DEF Walk
      <3> QED BY <2>3, <3>1 DEF Walk, TypeOK, WellFormed
    <2>4. CASE UNCHANGED <<place, bound>>
      BY <2>4 DEF TypeOK
    <2> QED BY <2>1, <2>2, <2>3, <2>4 DEF Ask, No, StartTest, EndTest, LogOut, LogIn
  <1>7. TypeOK'
    BY <1>1, <1>2, <1>3, <1>4, <1>5, <1>6, LineStays DEF TypeOK, scriptVars
  <1>8. Warping'
    BY <1>1, LineStays DEF Warping, scriptVars, Running, Statement
  <1> QED BY <1>1, <1>7, <1>8

LEMMA TickTypes ==
    ASSUME TypeOK, Warping, Tick
    PROVE  TypeOK' /\ Warping'
  <1>1. UNCHANGED << line, prop, monsters, armed, pc, caught, passengerVars >>
    BY DEF Tick
  <1>2. due' \in [Task -> Nat]
    BY DEF Tick, Quiet, TypeOK
  <1>3. TypeOK'
    BY <1>1, <1>2, LineStays DEF TypeOK, passengerVars
  <1>4. Warping'
    BY <1>1, LineStays DEF Warping, Running, Statement
  <1> QED BY <1>3, <1>4

-----------------------------------------------------------------------------
(* The round of the ship.                                                  *)

\* The passengers and the clock leave it alone.
LEMMA PassengerRound ==
    ASSUME Round, Gate, UNCHANGED scriptVars
    PROVE  Round' /\ Gate'
  <1>1. \A t, what, x : Passed(t, what, x)' = Passed(t, what, x)
    BY DEF scriptVars, Passed
  <1>2. \A t : Running(t)' = Running(t)
    BY DEF scriptVars, Running
  <1>3. \A t : Delays(line, t)' = Delays(line, t)
    BY DEF scriptVars
  <1>4. Round'
    BY <1>1, <1>2 DEF Round, Alone, Docking, Leaving, Between, scriptVars
  <1>5. Gate'
    BY <1>1, <1>2, <1>3 DEF Gate, GateOpens, GateShuts, scriptVars
  <1> QED BY <1>4, <1>5

LEMMA QuietRuns ==
    ASSUME TypeOK, Quiet, NEW t \in Task
    PROVE  ~ Running(t) /\ (t \in armed => due[t] > 0)
  BY DEF Quiet, Running

LEMMA MainTasksAre ==
    ASSUME Timetabled(line)
    PROVE  MainTasks \subseteq Task /\ Docks \subseteq Task
           /\ (line.name # "Boats" => "stopEntry" \in Task)
  BY DEF Timetabled, Rounds, Gated, MainTasks, Docks, Task

LEMMA TickRound ==
    ASSUME TypeOK, Timetabled(line), Round, Gate, Tick
    PROVE  Round' /\ Gate'
  <1>1. /\ Quiet
        /\ UNCHANGED << line, prop, armed, pc >>
        /\ due' = [t \in Task |-> IF t \in armed THEN due[t] - 1 ELSE due[t]]
    BY DEF Tick
  <1>2. \A t \in Task : ~ Running(t) /\ ~ Running(t)'
    BY <1>1, QuietRuns DEF Running
  <1>3. Round'
    BY <1>1, <1>2, MainTasksAre DEF Round, Alone, Docking, Leaving, Between, MainTasks, Docks
  <1>4. ASSUME line.name # "Boats", "stopEntry" \in armed
        PROVE  "takeoff" \in armed /\ due'["stopEntry"] < due'["takeoff"]
    <2>1. "takeoff" \in armed /\ due["stopEntry"] < due["takeoff"]
      BY <1>2, <1>4, MainTasksAre DEF Gate, GateOpens, GateShuts, Docks
    <2>2. due["stopEntry"] \in Nat /\ due["takeoff"] \in Nat
      BY <1>4, MainTasksAre DEF TypeOK, MainTasks
    <2> QED BY <1>1, <1>4, <2>1, <2>2, MainTasksAre DEF MainTasks
  <1>5. Gate'
    BY <1>1, <1>2, <1>4, MainTasksAre DEF Gate, GateOpens, GateShuts, Docks, MainTasks
  <1> QED BY <1>3, <1>5

\* A function begins when its time has come: takeoff and arrived while nothing
\* else of the round is under way.
LEMMA FireRound ==
    ASSUME TypeOK, Timetabled(line), Round, Gate, NEW t \in Task, Fire(t)
    PROVE  Round' /\ Gate'
  <1>1. /\ t \in armed /\ due[t] = 0 /\ ~ Running(t)
        /\ armed' = armed \ {t}
        /\ pc'[t] = 1
        /\ \A u \in Task \ {t} : pc'[u] = pc[u]
        /\ UNCHANGED << line, prop, due >>
    BY DEF Fire, Running, TypeOK
  <1>2. Running(t)' /\ \A what, x : ~ Passed(t, what, x)'
    BY <1>1, PassedNothing
  <1>3. \A u \in Task \ {t} : Running(u)' = Running(u)
           /\ \A what, x : Passed(u, what, x)' = Passed(u, what, x)
    BY <1>1, PassedSame
  <1>4. t # "init"
    BY <1>1 DEF Round, Alone, Docking, Leaving, Between
  <1>5. MainTasks \subseteq Task /\ Docks \subseteq MainTasks
    BY MainTasksAre DEF MainTasks, Docks
  <1>6. CASE t \in MainTasks
    <2>1. t \in {"takeoff", "arrived"}
      BY <1>4, <1>6 DEF MainTasks
    <2>2. \A u \in MainTasks : ~ Running(u)
      <3>1. ~ Running("init") /\ ~ Running("arrived")
        BY <1>1, <2>1 DEF Round, Alone, Docking, Leaving, Between, Docks
      <3>2. ~ Running("takeoff")
        BY <1>1, <2>1 DEF Round, Alone, Docking, Leaving, Between
      <3> QED BY <3>1, <3>2 DEF MainTasks
    <2>3. \A u \in MainTasks \ {t} : ~ Running(u)'
      BY <1>3, <1>5, <2>2
    <2>4. CASE t = "takeoff"
      <3>1. "arrived" \notin armed
        BY <1>1, <2>2, <2>4 DEF Round, Alone, Docking, Leaving, Between
      <3>2. Round'
        BY <1>1, <1>2, <2>3, <2>4, <3>1 DEF Round, Alone, Docking, Leaving, Between, MainTasks, Docks
      <3>3. ASSUME line.name # "Boats"
            PROVE  "stopEntry" \notin armed /\ ~ Running("stopEntry") /\ ~ prop["entry"]
        <4>1. \A u \in Docks : ~ Running(u)
          BY <1>5, <2>2
        <4>2. "stopEntry" \in armed => due["stopEntry"] < 0 /\ due["stopEntry"] \in Nat
          BY <1>1, <2>4, <3>3, <4>1, MainTasksAre DEF Gate, GateOpens, GateShuts, TypeOK
        <4>3. "stopEntry" \notin armed
          BY <4>2
        <4>4. ~ Running("stopEntry")
          BY <1>1, <2>4, <3>3, <4>1 DEF Gate, GateOpens, GateShuts
        <4> QED BY <3>3, <4>1, <4>3, <4>4 DEF Gate, GateOpens, GateShuts
      <3>4. Gate'
        BY <1>1, <1>3, <1>5, <2>3, <2>4, <3>3, MainTasksAre DEF Gate, GateOpens, GateShuts, Docks, MainTasks
      <3> QED BY <3>2, <3>4
    <2>5. CASE t = "arrived"
      <3>1. "takeoff" \notin armed
        BY <1>1, <2>2, <2>5 DEF Round, Alone, Docking, Leaving, Between
      <3>2. Round'
        BY <1>1, <1>2, <2>3, <2>5, <3>1 DEF Round, Alone, Docking, Leaving, Between, MainTasks, Docks
      <3>3. line.name # "Boats" => "stopEntry" \notin armed /\ ~ Running("stopEntry")
        BY <1>5, <2>2, <3>1 DEF Gate, GateOpens, GateShuts
      <3>4. Gate'
        BY <1>1, <1>2, <1>3, <2>3, <2>5, <3>1, <3>3, MainTasksAre DEF Gate, GateOpens, GateShuts, Docks, MainTasks
      <3> QED BY <3>2, <3>4
    <2> QED BY <2>1, <2>4, <2>5
  <1>7. CASE t \notin MainTasks
    <2>1. \A u \in MainTasks : Running(u)' = Running(u) /\ u # t
             /\ \A what, x : Passed(u, what, x)' = Passed(u, what, x)
      BY <1>3, <1>5, <1>7
    <2>2. Round'
      BY <1>1, <2>1 DEF Round, Alone, Docking, Leaving, Between, MainTasks, Docks
    <2>3. CASE t # "stopEntry" /\ line.name # "Boats"
      <3>1. /\ Running("stopEntry")' = Running("stopEntry")
            /\ \A what, x : Passed("stopEntry", what, x)' = Passed("stopEntry", what, x)
        BY <1>3, <2>3, MainTasksAre
      <3>2. t # "takeoff" /\ ("takeoff" \in armed' <=> "takeoff" \in armed)
            /\ ("stopEntry" \in armed' <=> "stopEntry" \in armed)
        BY <1>1, <1>7, <2>3 DEF MainTasks
      <3>3. /\ \A u \in Docks : Running(u)' = Running(u)
               /\ \A what, x : Passed(u, what, x)' = Passed(u, what, x)
            /\ Running("takeoff")' = Running("takeoff")
        BY <1>5, <2>1 DEF MainTasks
      <3>4. \A u : Delays(line, u)' = Delays(line, u)
        BY <1>1
      <3> QED BY <1>1, <2>2, <2>3, <3>1, <3>2, <3>3, <3>4 DEF Gate, GateOpens, GateShuts
    <2>4. CASE t = "stopEntry" /\ line.name # "Boats"
      <3>1. \A u \in Docks : ~ Running(u)
        <4>1. SUFFICES ASSUME NEW u \in Docks, Running(u) PROVE FALSE
          OBVIOUS
        <4>2. due[t] \in Delays(line, "stopEntry")
          BY <1>1, <2>4, <4>1 DEF Gate, GateOpens, GateShuts
        <4>3. \A a \in Delays(line, "stopEntry") : a > 0
          <5>1. \A s \in Statements(line, "init") \cup Statements(line, "arrived") :
                   Schedules(s, "stopEntry") => s[3] \in Nat \ {0}
            BY DEF Timetabled, WellFormed, Rounds, MainTasks, Schedules
          <5> QED BY <5>1 DEF Delays
        <4> QED BY <1>1, <4>2, <4>3
      <3>2. ~ Running("takeoff") /\ "takeoff" \in armed /\ due["takeoff"] > 0
        BY <1>1, <2>4, <3>1 DEF Gate, GateOpens, GateShuts
      <3> QED BY <1>1, <1>2, <2>1, <2>2, <2>4, <3>1, <3>2 DEF Gate, GateOpens, GateShuts, Docks, MainTasks
    <2>5. CASE line.name = "Boats"
      BY <1>1, <2>2, <2>5 DEF Gate
    <2> QED BY <2>2, <2>3, <2>4, <2>5
  <1> QED BY <1>6, <1>7

\* What a statement does to properties and timers, and where it stands.
LEMMA StatementEffect ==
    ASSUME TypeOK, Timetabled(line), NEW t \in Task,
           \/ SetProperty(t) \/ ScheduleTask(t) \/ KillAllMonsters(t) \/ SpawnMonsters(t)
           \/ CopyCharacters(t) \/ \E p \in Passenger : WarpOne(t, p)
    PROVE  /\ Running(t) /\ Statement(t) \in Statements(line, t) /\ line' = line
           /\ Advance(t) \/ (pc' = pc /\ Statement(t)[1] = "warp")
           /\ \A x \in Properties :
                 prop'[x] = IF Sets(Statement(t), x) THEN Statement(t)[3] ELSE prop[x]
           /\ \A u \in Task :
                 /\ u \in armed' <=> u \in armed \/ Schedules(Statement(t), u)
                 /\ due'[u] = IF Schedules(Statement(t), u) THEN Statement(t)[3] ELSE due[u]
  <1>1. Running(t) /\ Statement(t) \in Statements(line, t)
    <2>1. Running(t)
      BY DEF SetProperty, ScheduleTask, KillAllMonsters, SpawnMonsters, CopyCharacters, WarpOne,
             Doing, Running
    <2> QED BY <2>1, AtStatement DEF Timetabled
  <1>2. line' = line /\ (Advance(t) \/ (pc' = pc /\ Statement(t)[1] = "warp"))
    BY DEF SetProperty, ScheduleTask, KillAllMonsters, SpawnMonsters, CopyCharacters, WarpOne, Doing
  <1>3. CASE SetProperty(t)
    <2>1. Statement(t)[1] = "set" /\ prop' = [prop EXCEPT ![Statement(t)[2]] = Statement(t)[3]]
          /\ UNCHANGED timerVars
      BY <1>3 DEF SetProperty, Doing
    <2> QED BY <1>1, <1>2, <2>1 DEF timerVars, TypeOK, Sets, Schedules
  <1>4. CASE ScheduleTask(t)
    <2>1. /\ Statement(t)[1] = "schedule"
          /\ armed' = armed \cup {Statement(t)[2]}
          /\ due' = [due EXCEPT ![Statement(t)[2]] = Statement(t)[3]]
          /\ UNCHANGED prop
      BY <1>4 DEF ScheduleTask, Doing
    <2> QED BY <1>1, <1>2, <2>1 DEF TypeOK, Sets, Schedules
  <1>5. CASE Statement(t)[1] \notin {"set", "schedule"}
    <2>1. UNCHANGED <<prop, armed, due>>
      BY <1>5 DEF SetProperty, ScheduleTask, KillAllMonsters, SpawnMonsters, CopyCharacters,
                  WarpOne, Doing, timerVars
    <2> QED BY <1>1, <1>2, <1>5, <2>1 DEF Sets, Schedules
  <1> QED BY <1>3, <1>4, <1>5
          DEF KillAllMonsters, SpawnMonsters, CopyCharacters, WarpOne, Doing

\* What a function has passed after a step of its own, whether it goes on or
\* has to warp somebody else first.
LEMMA PassedStep ==
    ASSUME TypeOK, Timetabled(line), NEW t \in Task, Running(t), line' = line,
           Advance(t) \/ (pc' = pc /\ Statement(t)[1] = "warp"), NEW what \in {"set", "schedule"}, NEW x
    PROVE  /\ Passed(t, what, x)' =>
                 Passed(t, what, x) \/ (Statement(t)[1] = what /\ Statement(t)[2] = x)
           /\ ~ Running(t)' /\ (\E s \in Statements(line, t) : s[1] = what /\ s[2] = x) =>
                 Passed(t, what, x) \/ (Statement(t)[1] = what /\ Statement(t)[2] = x)
           /\ \A u \in Task \ {t} : /\ Running(u)' = Running(u)
                                   /\ Passed(u, what, x)' = Passed(u, what, x)
  <1>1. \A u \in Task \ {t} : pc'[u] = pc[u]
    BY Advanced DEF Timetabled
  <1>2. \A u \in Task \ {t} : Running(u)' = Running(u) /\ Passed(u, what, x)' = Passed(u, what, x)
    BY <1>1, PassedSame
  <1>3. CASE Advance(t)
    BY <1>2, <1>3, PassedNext DEF Timetabled
  <1>4. CASE pc' = pc
    BY <1>2, <1>4, PassedSame
  <1> QED BY <1>3, <1>4

LEMMA StatementRound ==
    ASSUME TypeOK, Timetabled(line), Round, NEW t \in Task,
           \/ SetProperty(t) \/ ScheduleTask(t) \/ KillAllMonsters(t) \/ SpawnMonsters(t)
           \/ CopyCharacters(t) \/ \E p \in Passenger : WarpOne(t, p)
    PROVE  Round'
  <1>1. /\ Running(t) /\ Statement(t) \in Statements(line, t) /\ line' = line
        /\ Advance(t) \/ (pc' = pc /\ Statement(t)[1] = "warp")
    BY StatementEffect
  <1>2. /\ prop'["docked"] = IF Sets(Statement(t), "docked") THEN Statement(t)[3] ELSE prop["docked"]
        /\ \A u \in Task :
              /\ u \in armed' <=> u \in armed \/ Schedules(Statement(t), u)
              /\ due'[u] = IF Schedules(Statement(t), u) THEN Statement(t)[3] ELSE due[u]
    BY StatementEffect DEF Properties
  <1>3. \A what \in {"set", "schedule"} : \A x :
           /\ Passed(t, what, x)' =>
                 Passed(t, what, x) \/ (Statement(t)[1] = what /\ Statement(t)[2] = x)
           /\ ~ Running(t)' /\ (\E s \in Statements(line, t) : s[1] = what /\ s[2] = x) =>
                 Passed(t, what, x) \/ (Statement(t)[1] = what /\ Statement(t)[2] = x)
           /\ \A u \in Task \ {t} : /\ Running(u)' = Running(u)
                                   /\ Passed(u, what, x)' = Passed(u, what, x)
    BY <1>1, PassedStep
  <1>4. /\ Sets(Statement(t), "docked") =>
             Statement(t)[3] \in BOOLEAN /\ IF Statement(t)[3] THEN t \in Docks ELSE t = "takeoff"
        /\ ~ Schedules(Statement(t), "init")
        /\ Schedules(Statement(t), "takeoff") => t \in Docks /\ Statement(t)[3] > 0
        /\ Schedules(Statement(t), "arrived") => t = "takeoff" /\ Statement(t)[3] > 0
    <2>1. t \in DOMAIN line.code
      BY DEF Task
    <2> QED BY <1>1, <2>1, StatementKinds DEF Timetabled, Rounds, Sets, Schedules
  <1>5. MainTasks \subseteq Task /\ Docks \subseteq MainTasks /\ "takeoff" \in MainTasks
    BY MainTasksAre DEF MainTasks, Docks
  <1>6. CASE t \in Docks
    <2>1. t # "takeoff"
      BY <1>6 DEF Docks
    <2>2. \A u \in MainTasks \ {t} : ~ Running(u) /\ ~ Running(u)'
      BY <1>1, <1>3, <1>5, <1>6 DEF Round, Alone
    <2>3. Alone'
      BY <1>2, <1>4, <1>5, <2>2 DEF Alone, Round, MainTasks
    <2>4. /\ "arrived" \notin armed'
          /\ "takeoff" \in armed' => due'["takeoff"] > 0
          /\ Passed(t, "schedule", "takeoff") => "takeoff" \in armed'
          /\ Schedules(Statement(t), "takeoff") => "takeoff" \in armed'
          /\ Passed(t, "set", "docked") \/ Sets(Statement(t), "docked") => prop'["docked"]
      BY <1>1, <1>2, <1>4, <1>5, <1>6, <2>1 DEF Round, Docking, MainTasks
    <2>5. Docking'
      BY <1>3, <1>5, <2>2, <2>4 DEF Docking, Sets, Schedules
    <2>6. Leaving'
      BY <1>5, <2>1, <2>2 DEF Leaving
    <2>7. ~ Running(t)' => "takeoff" \in armed' /\ "arrived" \notin armed' /\ prop'["docked"]
      <3>1. /\ \E s \in Statements(line, t) : s[1] = "set" /\ s[2] = "docked"
            /\ \E s \in Statements(line, t) : s[1] = "schedule" /\ s[2] = "takeoff"
        BY <1>6 DEF Timetabled, Rounds, Sets, Schedules
      <3> QED BY <1>3, <2>4, <3>1 DEF Sets, Schedules
    <2>8. Between'
      BY <1>5, <1>6, <2>7 DEF Between
    <2> QED BY <2>3, <2>5, <2>6, <2>8 DEF Round
  <1>7. CASE t = "takeoff"
    <2>1. t \notin Docks
      BY <1>7 DEF Docks
    <2>2. \A u \in MainTasks \ {t} : ~ Running(u) /\ ~ Running(u)'
      BY <1>1, <1>3, <1>5, <1>7 DEF Round, Alone
    <2>3. Alone'
      BY <1>2, <1>4, <1>5, <2>2 DEF Alone, Round, MainTasks
    <2>4. /\ "takeoff" \notin armed'
          /\ "arrived" \in armed' => due'["arrived"] > 0
          /\ Passed(t, "schedule", "arrived") \/ Schedules(Statement(t), "arrived") => "arrived" \in armed'
          /\ Passed(t, "set", "docked") \/ Sets(Statement(t), "docked") => ~ prop'["docked"]
      BY <1>1, <1>2, <1>4, <1>5, <1>7, <2>1 DEF Round, Leaving, MainTasks
    <2>5. Leaving'
      BY <1>3, <1>7, <2>4 DEF Leaving, Sets, Schedules
    <2>6. Docking'
      BY <1>5, <2>1, <2>2 DEF Docking
    <2>7. ~ Running(t)' => "arrived" \in armed' /\ "takeoff" \notin armed' /\ ~ prop'["docked"]
      <3>1. /\ \E s \in Statements(line, t) : s[1] = "set" /\ s[2] = "docked"
            /\ \E s \in Statements(line, t) : s[1] = "schedule" /\ s[2] = "arrived"
        BY <1>7 DEF Timetabled, Rounds, Sets, Schedules
      <3> QED BY <1>3, <2>4, <3>1 DEF Sets, Schedules
    <2>8. Between'
      BY <1>5, <1>7, <2>7 DEF Between
    <2> QED BY <2>3, <2>5, <2>6, <2>8 DEF Round
  <1>8. CASE t \notin MainTasks
    <2>1. \A u \in MainTasks : /\ Running(u)' = Running(u)
                               /\ \A what \in {"set", "schedule"} : \A x : Passed(u, what, x)' = Passed(u, what, x)
      BY <1>3, <1>5, <1>8
    <2>2. t \notin Docks /\ t # "takeoff"
      BY <1>5, <1>8
    <2>3. /\ prop'["docked"] = prop["docked"]
          /\ \A u \in MainTasks : (u \in armed' <=> u \in armed) /\ due'[u] = due[u]
      BY <1>2, <1>4, <1>5, <2>2 DEF MainTasks
    <2>4. Alone' /\ Leaving' /\ Between'
      BY <2>1, <2>3 DEF Round, Alone, Leaving, Between, MainTasks
    <2>5. Docking'
      BY <1>5, <2>1, <2>3 DEF Round, Docking, MainTasks
    <2> QED BY <2>4, <2>5 DEF Round
  <1> QED BY <1>5, <1>6, <1>7, <1>8 DEF MainTasks, Docks

LEMMA StatementGate ==
    ASSUME TypeOK, Timetabled(line), Round, Gate, NEW t \in Task,
           \/ SetProperty(t) \/ ScheduleTask(t) \/ KillAllMonsters(t) \/ SpawnMonsters(t)
           \/ CopyCharacters(t) \/ \E p \in Passenger : WarpOne(t, p)
    PROVE  Gate'
  <1>1. /\ Running(t) /\ Statement(t) \in Statements(line, t) /\ line' = line
        /\ Advance(t) \/ (pc' = pc /\ Statement(t)[1] = "warp")
    BY StatementEffect
  <1>2. SUFFICES ASSUME line.name # "Boats" PROVE GateOpens' /\ GateShuts'
    BY <1>1 DEF Gate
  <1>3. GateOpens /\ GateShuts
    BY <1>2 DEF Gate
  <1>4. /\ prop'["entry"] = IF Sets(Statement(t), "entry") THEN Statement(t)[3] ELSE prop["entry"]
        /\ \A u \in Task :
              /\ u \in armed' <=> u \in armed \/ Schedules(Statement(t), u)
              /\ due'[u] = IF Schedules(Statement(t), u) THEN Statement(t)[3] ELSE due[u]
    BY StatementEffect DEF Properties
  <1>5. \A what \in {"set", "schedule"} : \A x :
           /\ Passed(t, what, x)' =>
                 Passed(t, what, x) \/ (Statement(t)[1] = what /\ Statement(t)[2] = x)
           /\ ~ Running(t)' /\ (\E s \in Statements(line, t) : s[1] = what /\ s[2] = x) =>
                 Passed(t, what, x) \/ (Statement(t)[1] = what /\ Statement(t)[2] = x)
           /\ \A u \in Task \ {t} : /\ Running(u)' = Running(u)
                                   /\ Passed(u, what, x)' = Passed(u, what, x)
    BY <1>1, PassedStep
  <1>6. /\ Sets(Statement(t), "entry") =>
             Statement(t)[3] \in BOOLEAN /\ IF Statement(t)[3] THEN t \in Docks ELSE t = "stopEntry"
        /\ Schedules(Statement(t), "stopEntry") => t \in Docks
        /\ Schedules(Statement(t), "takeoff") => t \in Docks
        /\ \A u : t \in Docks /\ Schedules(Statement(t), u) => Statement(t)[3] \in Delays(line, u)
    <2>1. t \in DOMAIN line.code
      BY DEF Task
    <2>2. \A u : t \in Docks /\ Schedules(Statement(t), u) => Statement(t)[3] \in Delays(line, u)
      BY <1>1 DEF Delays, Docks
    <2> QED BY <1>1, <1>2, <2>1, <2>2, StatementKinds DEF Timetabled, Rounds, Gated, Sets, Schedules
  <1>7. /\ MainTasks \subseteq Task /\ Docks \subseteq MainTasks /\ "stopEntry" \in Task
        /\ "takeoff" \in MainTasks /\ "takeoff" \notin Docks
        /\ "stopEntry" \notin MainTasks
    BY <1>2, MainTasksAre DEF MainTasks, Docks
  <1>8. \A u : Delays(line, u)' = Delays(line, u)
    BY <1>1
  <1>9. CASE t \in Docks
    <2>1. \A u \in MainTasks \ {t} : ~ Running(u) /\ ~ Running(u)'
      BY <1>1, <1>5, <1>7, <1>9 DEF Round, Alone
    <2>2. ~ Running("stopEntry") /\ ~ Running("stopEntry")'
      BY <1>1, <1>3, <1>5, <1>7, <1>9 DEF GateOpens
    <2>3. /\ "takeoff" \in armed' => due'["takeoff"] \in Delays(line, "takeoff")
          /\ "stopEntry" \in armed' => due'["stopEntry"] \in Delays(line, "stopEntry")
          /\ Passed(t, "schedule", "stopEntry") \/ Schedules(Statement(t), "stopEntry") =>
                "stopEntry" \in armed'
      BY <1>1, <1>3, <1>4, <1>6, <1>7, <1>9 DEF GateOpens
    <2>4. GateOpens'
      BY <1>5, <1>7, <1>8, <2>1, <2>2, <2>3 DEF GateOpens, Schedules
    <2>5. ASSUME ~ Running(t)'
          PROVE  /\ "stopEntry" \in armed' /\ "takeoff" \in armed'
                 /\ due'["stopEntry"] < due'["takeoff"]
      <3>1. /\ \E s \in Statements(line, t) : s[1] = "schedule" /\ s[2] = "stopEntry"
            /\ \E s \in Statements(line, t) : s[1] = "schedule" /\ s[2] = "takeoff"
        BY <1>2, <1>9 DEF Timetabled, Rounds, Gated, Schedules
      <3>2. "stopEntry" \in armed'
        BY <1>5, <2>3, <2>5, <3>1 DEF Schedules
      <3>3. "takeoff" \in armed'
        <4>1. Passed(t, "schedule", "takeoff") \/ Schedules(Statement(t), "takeoff")
          BY <1>5, <2>5, <3>1 DEF Schedules
        <4> QED BY <1>1, <1>4, <1>7, <1>9, <4>1 DEF Round, Docking
      <3> QED BY <1>2, <2>3, <3>2, <3>3 DEF Timetabled, Gated
    <2>6. GateShuts'
      BY <1>7, <1>9, <2>1, <2>2, <2>5 DEF GateShuts
    <2> QED BY <2>4, <2>6
  <1>10. CASE t \notin Docks
    <2>1. \A u \in Docks : Running(u)' = Running(u)
      BY <1>5, <1>7, <1>10
    <2>2. /\ "stopEntry" \in armed' <=> "stopEntry" \in armed
          /\ "takeoff" \in armed' <=> "takeoff" \in armed
          /\ due'["stopEntry"] = due["stopEntry"] /\ due'["takeoff"] = due["takeoff"]
          /\ prop'["entry"] => prop["entry"] /\ ~ Sets(Statement(t), "entry")
      BY <1>4, <1>6, <1>7, <1>10
    <2>3. \A u \in Docks : Passed(u, "schedule", "stopEntry")' = Passed(u, "schedule", "stopEntry")
      BY <1>5, <1>7, <1>10
    <2>4. ASSUME NEW u \in Docks, Running(u)
          PROVE  t # "stopEntry" /\ t # "takeoff"
      BY <1>1, <1>3, <1>7, <2>4 DEF Round, Alone, GateOpens
    <2>5. t # "stopEntry" => Running("stopEntry")' = Running("stopEntry")
               /\ Passed("stopEntry", "set", "entry")' = Passed("stopEntry", "set", "entry")
      BY <1>5, <1>7
    <2>6. t # "takeoff" => Running("takeoff")' = Running("takeoff")
      BY <1>5, <1>7
    <2>7. GateOpens'
      BY <1>3, <1>8, <2>1, <2>2, <2>3, <2>4, <2>5 DEF GateOpens
    <2>8. CASE t = "takeoff"
      BY <1>1, <1>3, <2>1, <2>2, <2>5, <2>7, <2>8 DEF GateShuts
    <2>9. CASE t = "stopEntry"
      <3>1. \E s \in Statements(line, t) : s[1] = "set" /\ s[2] = "entry"
        BY <1>2, <2>9 DEF Timetabled, Gated, Sets
      <3>2. /\ Passed(t, "set", "entry")' => Passed(t, "set", "entry") \/ Sets(Statement(t), "entry")
            /\ ~ Running(t)' => Passed(t, "set", "entry") \/ Sets(Statement(t), "entry")
        BY <1>5, <3>1 DEF Sets
      <3> QED BY <1>1, <1>3, <2>1, <2>2, <2>6, <2>7, <2>9, <3>2 DEF GateShuts
    <2>10. CASE t # "takeoff" /\ t # "stopEntry"
      BY <1>3, <2>1, <2>2, <2>5, <2>6, <2>7, <2>10 DEF GateShuts
    <2> QED BY <2>7, <2>8, <2>9, <2>10
  <1> QED BY <1>9, <1>10

-----------------------------------------------------------------------------
(* Who is aboard when the ship lands.                                      *)

\* A passenger comes aboard by a door or a login, and owns up to it when the
\* ship lands meanwhile.
LEMMA PassengerSwept ==
    ASSUME TypeOK, Timetabled(line), Round, Swept, NEW p \in Passenger,
           \/ \E n \in line.npcs : Ask(p, n)
           \/ Yes(p) \/ No(p) \/ Door(p) \/ Walk(p)
           \/ StartTest(p) \/ EndTest(p) \/ LogOut(p) \/ LogIn(p)
    PROVE  Swept'
  <1>1. UNCHANGED scriptVars
    BY DEF Ask, Yes, No, Door, Walk, StartTest, EndTest, LogOut, LogIn
  <1>2. /\ \A t : Running(t)' = Running(t)
        /\ Landing' = Landing /\ Decks' = Decks /\ armed' = armed
    BY <1>1 DEF scriptVars, Running, Landing, Decks
  <1>3. \A q \in Passenger \ {p} : /\ place'[q] = place[q] /\ online'[q] = online[q]
                                   /\ own'[q] = own[q]
    BY DEF Ask, Yes, No, Door, Walk, StartTest, EndTest, LogOut, LogIn, TypeOK
  <1>4. /\ Aboard(p)' => Aboard(p)
        /\ \/ place'[p] = place[p] /\ own'[p] = own[p] /\ (online'[p] => online[p])
           \/ place'[p] \notin Decks
           \/ own'[p] = Landing
    <2>1. CASE Yes(p)
      <3>1. talk[p] \in line.npcs
        BY <2>1 DEF Yes, TypeOK
      <3>2. talk[p].to \notin Decks
        BY <3>1, DecksAre DEF Timetabled, WellFormed
      <3> QED BY <1>2, <2>1, <3>2 DEF Yes, TypeOK, Aboard
    <2>2. CASE Door(p)
      <3>1. PICK d \in line.doors : place[p] = d[1] /\ place' = [place EXCEPT ![p] = d[2]]
        BY <2>2 DEF Door
      <3>2. Aboard(p)
        BY <3>1, DecksAre DEF Aboard, Timetabled, WellFormed
      <3> QED BY <2>2, <3>2 DEF Door, TypeOK
    <2>3. CASE Walk(p)
      <3>1. PICK r \in line.rides : place' = [place EXCEPT ![p] = r.from]
        BY <2>3 DEF Walk
      <3>2. r.from \notin Decks
        BY DecksAre DEF Timetabled, WellFormed
      <3>3. place'[p] \notin Decks
        BY <3>1, <3>2 DEF TypeOK
      <3> QED BY <1>2, <3>3 DEF Aboard
    <2>4. CASE LogIn(p)
      BY <1>2, <2>4 DEF LogIn, TypeOK, Aboard
    <2>5. CASE place' = place /\ own' = own /\ (online'[p] => online[p])
      BY <1>2, <2>5 DEF Aboard
    <2> QED BY <2>1, <2>2, <2>3, <2>4, <2>5 DEF Ask, No, StartTest, EndTest, LogOut, TypeOK
  <1>5. ASSUME NEW q \in Passenger, Aboard(q)' PROVE Aboard(q)
    BY <1>2, <1>3, <1>4, <1>5 DEF Aboard
  <1>6. ASSUME NEW q \in Passenger, Left(q)', Landing PROVE Left(q) /\ place'[q] = place[q]
    BY <1>2, <1>3, <1>4, <1>6 DEF Left, Aboard
  <1>7. ASSUME NEW q \in Passenger, place'[q] = place[q] PROVE ToBeWarped(q)' = ToBeWarped(q)
    BY <1>1, <1>7 DEF scriptVars, ToBeWarped
  <1>8. Running("arrived") => Landing
    BY DEF Running, Landing
  <1>9. (\A t \in MainTasks : ~ Running(t)) /\ "takeoff" \in armed => Landing
    BY DEF Round, Between, Landing
  <1> QED BY <1>2, <1>5, <1>6, <1>7, <1>8, <1>9 DEF Swept

\* A function that is fired warps nobody yet; arrived will warp from every deck.
LEMMA FireSwept ==
    ASSUME TypeOK, Timetabled(line), Warping, Round, Swept, NEW t \in Task, Fire(t)
    PROVE  Swept'
  <1>1. /\ t \in armed /\ ~ Running(t)
        /\ armed' = armed \ {t}
        /\ pc'[t] = 1
        /\ \A u \in Task \ {t} : pc'[u] = pc[u]
        /\ UNCHANGED << line, caught, place, online, own >>
    BY DEF Fire, Running, TypeOK, passengerVars
  <1>2. Running(t)' /\ \A u \in Task \ {t} : Running(u)' = Running(u)
    BY <1>1 DEF Running
  <1>3. \A p : Left(p)' = Left(p) /\ Aboard(p)' = Aboard(p)
    BY <1>1, LineStays DEF Left, Aboard
  <1>4. MainTasks \subseteq Task /\ t # "init"
    BY <1>1, MainTasksAre DEF Round, Alone
  <1>5. CASE t = "arrived"
    <2>1. \A p \in Passenger : Aboard(p) => ToBeWarped(p)'
      <3>1. SUFFICES ASSUME NEW p \in Passenger, Aboard(p) PROVE ToBeWarped(p)'
        OBVIOUS
      <3>2. PICK s \in Statements(line, "arrived") : s[1] = "warp" /\ s[2] = place[p]
        <4>1. place[p] \in DecksOf(line)
          BY <3>1, DecksAre DEF Aboard
        <4>2. \A m \in DecksOf(line) :
                 \E s \in Statements(line, "arrived") : s[1] = "warp" /\ s[2] = m
          BY DEF Timetabled, Rounds
        <4> QED BY <4>1, <4>2
      <3>3. PICK k \in 1 .. Len(line.code["arrived"]) : s = line.code["arrived"][k]
        BY DEF Statements
      <3>4. caught["arrived"] = {}
        BY <1>1, <1>5 DEF Warping
      <3> QED BY <1>1, <1>5, <3>2, <3>3, <3>4 DEF ToBeWarped
    <2>2. ~ Running("init")'
      BY <1>1, <1>2, <1>4, <1>5 DEF Swept, Round, Docking, Docks, MainTasks
    <2> QED BY <1>2, <1>3, <1>5, <2>1, <2>2 DEF Swept, Left, MainTasks
  <1>6. CASE t # "arrived"
    <2>1. \A p : ToBeWarped(p)' = ToBeWarped(p)
      BY <1>1, <1>4, <1>6 DEF ToBeWarped, MainTasks
    <2>2. /\ Running("init")' = Running("init") /\ Running("arrived")' = Running("arrived")
          /\ (\A u \in MainTasks : ~ Running(u)') => \A u \in MainTasks : ~ Running(u)
          /\ "takeoff" \in armed' => "takeoff" \in armed
      BY <1>1, <1>2, <1>4, <1>6 DEF MainTasks
    <2> QED BY <1>3, <2>1, <2>2 DEF Swept
  <1> QED BY <1>5, <1>6

\* A statement that warps nobody leaves the passengers alone.
LEMMA NobodyMoves ==
    ASSUME Warping, NEW t \in Task,
           \/ SetProperty(t) \/ ScheduleTask(t) \/ KillAllMonsters(t) \/ SpawnMonsters(t)
           \/ CopyCharacters(t)
    PROVE  /\ UNCHANGED <<place, online, own, Decks>>
           /\ \A p : Left(p)' = Left(p) /\ Aboard(p)' = Aboard(p)
  BY DEF SetProperty, ScheduleTask, KillAllMonsters, SpawnMonsters, CopyCharacters, passengerVars,
         Left, Aboard, Decks

\* Whoever is left behind by a step of arrived, arrived has yet to warp.
LEMMA ArrivedStep ==
    ASSUME TypeOK, Warping, Timetabled(line), Running("arrived"), Swept,
           LET t == "arrived" IN
             \/ SetProperty(t) \/ ScheduleTask(t) \/ KillAllMonsters(t) \/ SpawnMonsters(t)
             \/ CopyCharacters(t) \/ \E p \in Passenger : WarpOne(t, p),
           NEW q \in Passenger, Left(q)'
    PROVE  Running("arrived")' /\ ToBeWarped(q)'
  <1> DEFINE t == "arrived"
  <1>1. t \in Task /\ WellFormed(line)
    BY MainTasksAre DEF MainTasks, Timetabled
  <1>2. /\ line' = line /\ (Advance(t) \/ pc' = pc)
        /\ Statement(t) \in Statements(line, t)
    BY <1>1, StatementEffect
  <1>3. /\ pc[t] \in 1 .. Len(line.code[t]) /\ Len(line.code[t]) \in Nat
        /\ Statement(t) = line.code[t][pc[t]]
    BY <1>1, AtStatement DEF WellFormed
  <1>4. Advance(t) => \/ pc[t] = Len(line.code[t]) /\ pc'[t] = 0
                      \/ pc[t] < Len(line.code[t]) /\ pc'[t] = pc[t] + 1
    BY <1>1, <1>2, Advanced
  <1>5. CASE SetProperty(t) \/ ScheduleTask(t) \/ KillAllMonsters(t) \/ SpawnMonsters(t)
    <2>1. Statement(t)[1] # "warp" /\ Advance(t) /\ caught' = caught
      BY <1>5 DEF SetProperty, ScheduleTask, KillAllMonsters, SpawnMonsters, Doing
    <2>2. caught[t] = {}
      BY <1>1, <2>1 DEF Warping
    <2>3. Left(q) /\ place' = place
      BY <1>1, <1>5, NobodyMoves
    <2>4. PICK k \in pc[t] .. Len(line.code[t]) : line.code[t][k][1] = "warp" /\ line.code[t][k][2] = place[q]
      BY <2>3 DEF Swept, ToBeWarped
    <2>5. k # pc[t]
      BY <1>3, <2>1, <2>4
    <2> QED BY <1>2, <1>3, <1>4, <2>1, <2>2, <2>3, <2>4, <2>5 DEF ToBeWarped, Running
  <1>6. CASE CopyCharacters(t)
    <2> DEFINE there == {p \in Passenger : online[p] /\ place[p] = Statement(t)[2]}
    <2>1. /\ caught' = [caught EXCEPT ![t] = there]
          /\ IF there = {} THEN Advance(t) ELSE UNCHANGED pc
      BY <1>6 DEF CopyCharacters
    <2>2. caught'[t] = there
      BY <1>1, <2>1 DEF TypeOK
    <2>3. Left(q) /\ place' = place /\ online[q]
      BY <1>1, <1>6, NobodyMoves DEF Left
    <2>4. PICK k \in pc[t] .. Len(line.code[t]) : line.code[t][k][1] = "warp" /\ line.code[t][k][2] = place[q]
      BY <2>3 DEF Swept, ToBeWarped
    <2>5. k = pc[t] => q \in there
      BY <1>3, <2>3, <2>4
    <2> HIDE DEF there
    <2>6. CASE there = {}
      BY <1>2, <1>3, <1>4, <2>1, <2>2, <2>3, <2>4, <2>5, <2>6 DEF ToBeWarped, Running
    <2>7. CASE there # {}
      BY <1>2, <1>3, <1>4, <2>1, <2>2, <2>3, <2>4, <2>5, <2>7 DEF ToBeWarped, Running
    <2> QED BY <2>6, <2>7
  <1>7. ASSUME NEW p \in Passenger, WarpOne(t, p)
        PROVE  Running("arrived")' /\ ToBeWarped(q)'
    <2>1. /\ Statement(t)[1] = "warp" /\ p \in caught[t]
          /\ caught' = [caught EXCEPT ![t] = @ \ {p}]
          /\ IF caught[t] = {p} THEN Advance(t) ELSE UNCHANGED pc
          /\ online' = online
      BY <1>7 DEF WarpOne, Doing
    <2>2. Decks' = Decks
      BY <1>2, LineStays
    <2>3. q # p
      <3>1. Statement(t)[3] \notin Decks
        BY <1>1, <1>2, <2>1, DecksAre DEF Timetabled, Rounds, Task
      <3>2. Landing
        BY DEF Landing, Running
      <3>3. \/ place'[p] = Statement(t)[3]
            \/ own'[p]
        BY <1>7, <3>2 DEF WarpOne, TypeOK
      <3> QED BY <2>2, <3>1, <3>3 DEF Left, Aboard
    <2>4. Left(q) /\ place'[q] = place[q]
      <3>1. place'[q] = place[q] /\ own'[q] = own[q]
        BY <1>7, <2>3 DEF WarpOne, TypeOK
      <3> QED BY <2>1, <2>2, <3>1 DEF Left, Aboard
    <2>5. PICK k \in pc[t] .. Len(line.code[t]) :
             /\ line.code[t][k][1] = "warp" /\ line.code[t][k][2] = place[q]
             /\ k = pc[t] /\ caught[t] # {} => q \in caught[t]
      BY <2>4 DEF Swept, ToBeWarped
    <2>6. caught'[t] = caught[t] \ {p}
      BY <1>1, <2>1 DEF TypeOK
    <2>7. CASE caught[t] = {p}
      <3>1. k # pc[t]
        BY <2>3, <2>5, <2>7
      <3>2. k \in pc[t] + 1 .. Len(line.code[t])
        BY <1>3, <2>5, <3>1
      <3>3. pc[t] < Len(line.code[t]) /\ pc'[t] = pc[t] + 1
        BY <1>3, <1>4, <2>1, <2>7, <3>2
      <3>4. caught'[t] = {}
        BY <2>6, <2>7
      <3>5. place'[q] = place[q] /\ line' = line
        BY <1>2, <2>4
      <3>6. ToBeWarped(q)'
        BY <2>5, <3>2, <3>3, <3>4, <3>5 DEF ToBeWarped
      <3>7. Running("arrived")'
        BY <1>3, <3>3 DEF Running
      <3> QED BY <3>6, <3>7
    <2>8. CASE caught[t] # {p}
      BY <1>2, <1>3, <2>1, <2>3, <2>4, <2>5, <2>6, <2>8 DEF ToBeWarped, Running
    <2> QED BY <2>7, <2>8
  <1> QED BY <1>5, <1>6, <1>7

LEMMA StatementSwept ==
    ASSUME TypeOK, Warping, Timetabled(line), Round, Swept, NEW t \in Task,
           \/ SetProperty(t) \/ ScheduleTask(t) \/ KillAllMonsters(t) \/ SpawnMonsters(t)
           \/ CopyCharacters(t) \/ \E p \in Passenger : WarpOne(t, p)
    PROVE  Swept'
  <1>1. /\ Running(t) /\ Statement(t) \in Statements(line, t) /\ line' = line
        /\ (Advance(t) \/ pc' = pc)
        /\ "takeoff" \in armed' => "takeoff" \in armed \/ t \in Docks
    <2>1. \A u \in Task : u \in armed' <=> u \in armed \/ Schedules(Statement(t), u)
      BY StatementEffect
    <2>2. Statement(t) \in Statements(line, t) /\ "takeoff" \in Task
      BY StatementEffect, MainTasksAre DEF MainTasks
    <2>3. Schedules(Statement(t), "takeoff") => t \in Docks
      BY <2>2 DEF Timetabled, Rounds, Task
    <2> QED BY StatementEffect, <2>1, <2>2, <2>3
  <1>2. \A u \in Task \ {t} : pc'[u] = pc[u] /\ Running(u)' = Running(u)
    BY <1>1, Advanced DEF Timetabled, Running
  <1>3. MainTasks \subseteq Task
    BY MainTasksAre
  <1>4. \A u \in MainTasks \ {t} : t \in MainTasks => ~ Running(u) /\ ~ Running(u)'
    BY <1>1, <1>2, <1>3 DEF Round, Alone
  <1>5. CASE t = "arrived"
    <2>1. \A p \in Passenger : Left(p)' => Running(t)' /\ ToBeWarped(p)'
      BY <1>1, <1>5, ArrivedStep
    <2>2. ~ Running("init")'
      BY <1>4, <1>5 DEF MainTasks
    <2> QED BY <1>5, <2>1, <2>2 DEF Swept, MainTasks
  <1>6. CASE t = "takeoff"
    <2>1. ~ Running("init")' /\ ~ Running("arrived")'
      BY <1>4, <1>6 DEF MainTasks
    <2>2. "takeoff" \notin armed'
      BY <1>1, <1>6 DEF Round, Leaving, Docks
    <2> QED BY <2>1, <2>2 DEF Swept
  <1>7. CASE t \notin {"arrived", "takeoff"}
    <2>1. Statement(t)[1] # "warp"
      BY <1>1, <1>7 DEF Timetabled, Rounds, Task
    <2>2. /\ \/ SetProperty(t) \/ ScheduleTask(t) \/ KillAllMonsters(t) \/ SpawnMonsters(t)
          /\ caught' = caught
      BY <2>1 DEF SetProperty, ScheduleTask, KillAllMonsters, SpawnMonsters, CopyCharacters, WarpOne, Doing
    <2>3. place' = place /\ \A p : Left(p)' = Left(p) /\ Aboard(p)' = Aboard(p)
      BY <2>2, NobodyMoves
    <2>4. /\ Running("arrived")' = Running("arrived") /\ Running("takeoff")' = Running("takeoff")
          /\ \A p : ToBeWarped(p)' = ToBeWarped(p)
      BY <1>1, <1>2, <1>3, <1>7, <2>2, <2>3 DEF MainTasks, ToBeWarped
    <2>5. CASE t = "init"
      <3>1. \A p \in Passenger : ~ Aboard(p)' /\ ~ Left(p)'
        BY <1>1, <2>3, <2>5 DEF Swept, Left
      <3> QED BY <2>4, <3>1 DEF Swept
    <2>6. CASE t # "init"
      <3>1. Running("init")' = Running("init")
        BY <1>2, <1>3, <2>6 DEF MainTasks
      <3>2. "takeoff" \in armed' => "takeoff" \in armed
        BY <1>1, <1>7, <2>6 DEF Docks
      <3> QED BY <2>3, <2>4, <3>1, <3>2 DEF Swept, MainTasks
    <2> QED BY <2>5, <2>6
  <1> QED BY <1>5, <1>6, <1>7

-----------------------------------------------------------------------------
(* The invariant holds to begin with, and every step keeps it.             *)

\* The ship lies at its first dock when the server starts.
LEMMA InitTransportInv ==
    ASSUME Init, \A l \in Lines : Timetabled(l)
    PROVE  TransportInv
  <1>1. Timetabled(line)
    BY DEF Init
  <1>2. TypeOK /\ Warping
    BY InitTypes
  <1>3. /\ Running("init") /\ armed = {} /\ pc["init"] = 1
        /\ \A t \in Task : Running(t) => t = "init"
        /\ \A t, what, x : t \in Task => ~ Passed(t, what, x)
    BY <1>1, MainTasksAre DEF Init, Running, Passed, MainTasks
  <1>4. MainTasks \subseteq Task /\ Docks \subseteq MainTasks
        /\ (line.name # "Boats" => "stopEntry" \in Task)
    BY <1>1, MainTasksAre DEF MainTasks, Docks
  <1>5. Round
    BY <1>3, <1>4 DEF Round, Alone, Docking, Leaving, Between, MainTasks
  <1>6. Gate
    BY <1>3, <1>4 DEF Gate, GateOpens, GateShuts, Docks
  <1>7. \A p \in Passenger : ~ Aboard(p)
    <2>1. \A r \in line.rides : r.from \notin Decks
      BY <1>1, DecksAre DEF Timetabled, WellFormed
    <2> QED BY <2>1 DEF Init, Starts, Aboard
  <1>8. Swept
    BY <1>3, <1>4, <1>7 DEF Swept, MainTasks
  <1> QED BY <1>1, <1>2, <1>5, <1>6, <1>8 DEF TransportInv

LEMMA NextTransportInv ==
    ASSUME TransportInv, [Next]_vars
    PROVE  TransportInv'
  <1> USE DEF TransportInv
  <1>1. WellFormed(line)
    BY DEF Timetabled
  <1>2. ASSUME Tick PROVE TransportInv'
    <2>1. TypeOK' /\ Warping' /\ Round' /\ Gate'
      BY <1>2, TickTypes, TickRound
    <2>2. Timetabled(line)' /\ Swept'
      BY <1>2 DEF Tick, passengerVars, Swept, Left, ToBeWarped, Aboard, Decks, Running
    <2> QED BY <2>1, <2>2
  <1>3. ASSUME NEW t \in Task, TaskStep(t) PROVE TransportInv'
    <2>1. Timetabled(line)'
      BY <1>3 DEF TaskStep, Fire, SetProperty, ScheduleTask, KillAllMonsters, SpawnMonsters,
                  CopyCharacters, WarpOne
    <2>2. CASE Fire(t)
      BY <1>1, <2>1, <2>2, FireTypes, FireRound, FireSwept
    <2>3. ASSUME \/ SetProperty(t) \/ ScheduleTask(t) \/ KillAllMonsters(t) \/ SpawnMonsters(t)
                 \/ CopyCharacters(t) \/ \E p \in Passenger : WarpOne(t, p)
          PROVE  TransportInv'
      <3>1. TypeOK' /\ Warping'
        BY <1>1, <2>3, PlainTypes, CopyTypes, WarpTypes
      <3>2. Round' /\ Gate' /\ Swept'
        BY <2>3, StatementRound, StatementGate, StatementSwept
      <3> QED BY <2>1, <3>1, <3>2
    <2> QED BY <1>3, <2>2, <2>3 DEF TaskStep
  <1>4. ASSUME NEW p \in Passenger,
               \/ \E n \in line.npcs : Ask(p, n)
               \/ Yes(p) \/ No(p) \/ Door(p) \/ Walk(p)
               \/ StartTest(p) \/ EndTest(p) \/ LogOut(p) \/ LogIn(p)
        PROVE  TransportInv'
    <2>1. TypeOK' /\ Warping' /\ UNCHANGED scriptVars
      BY <1>1, <1>4, PassengerTypes
    <2>2. Round' /\ Gate' /\ Timetabled(line)'
      BY <2>1, PassengerRound DEF scriptVars
    <2>3. Swept'
      BY <1>4, PassengerSwept
    <2> QED BY <2>1, <2>2, <2>3
  <1>5. CASE UNCHANGED vars
    <2>1. UNCHANGED scriptVars /\ UNCHANGED passengerVars
      BY <1>5 DEF vars, scriptVars, timerVars
    <2> QED BY <2>1, PassengerRound, LineStays
          DEF scriptVars, passengerVars, TypeOK, Warping, Running, Statement, Swept, Left, ToBeWarped,
              Aboard
  <1> QED BY <1>2, <1>3, <1>4, <1>5 DEF Next

-----------------------------------------------------------------------------
(* Where a ride ends.                                                      *)
(*                                                                         *)
(* The usher's promise holds although a warp takes whoever was on the map  *)
(* when the list was copied, wherever it is by then: from the map that a   *)
(* vehicle takes its passengers from nobody gets to the room or on board   *)
(* of another ride before the list is through (Shores).                    *)

Berths(r) == {r.room} \cup r.decks
Warps(l, x, y) ==
    \E t \in DOMAIN l.code : \E s \in Statements(l, t) : s[1] = "warp" /\ s[2] = x /\ s[3] = y
Launch(l, x) == \E y \in DecksOf(l) : Warps(l, x, y)

\* The rides have their rooms and decks for themselves; nobody walks, or is
\* set down, where a ride is waited for; and from a deck one is set down where
\* its ride ends.
Apart(l) ==
    /\ \A r, s \in l.rides : /\ \A m : m \in Berths(r) /\ m \in Berths(s) => r = s
                             /\ r.from \notin Berths(s) /\ r.to \notin Berths(s)
    /\ \A r \in l.rides : ~ Launch(l, r.from) /\ ~ Launch(l, r.to)
    /\ \A d \in l.doors, r \in l.rides : d[1] \in r.decks => d[2] \in r.decks
    /\ \A x, y : Warps(l, x, y) =>
          /\ ~ Launch(l, y) /\ \A r \in l.rides : y # r.room
          /\ y \in DecksOf(l) => x \notin DecksOf(l)
          /\ y \notin DecksOf(l) => \A r \in l.rides : x \in r.decks => y = r.to

\* N gives for the room of each ride the maps that its passengers can get to
\* without riding.
Shores(l, N) ==
    \A r \in l.rides :
        /\ \A n \in l.npcs : n.at \in N[r.room] => n.to \in N[r.room]
        /\ \A q, s \in l.rides : q.to # s.to /\ q.to \in N[r.room] => s.from \in N[r.room]
        /\ \A s \in l.rides : s.room \in N[r.room] => s = r
        /\ \A m \in N[r.room] : m \notin DecksOf(l)
        /\ \A x, y : Warps(l, x, y) /\ y \in r.decks => x \in N[r.room]

Charted(l) == Apart(l) /\ \E N : Shores(l, N)
Near(r) == (CHOOSE N : Shores(line, N))[r.room]

\* What was promised is the end of the ride that the passenger waits for or is on.
Promising(p) == bound[p] = Nowhere \/ \E r \in line.rides : bound[p] = r.to /\ place[p] \in Berths(r)

\* Who waits for a ride was not asked a question elsewhere.
Asked(p) == Launch(line, place[p]) => talk[p] = NoTalk \/ talk[p].at = place[p]

\* Who is on the list of a warp is on board of the ride that it ends, or is,
\* and stays, near the one that it begins.
Caught(t, p) ==
    /\ Aboard(p) => \E r \in line.rides : Statement(t)[2] \in r.decks /\ place[p] \in r.decks
    /\ \A r \in line.rides : Statement(t)[3] \in r.decks =>
          place[p] \in Near(r) /\ (talk[p] = NoTalk \/ talk[p].to \in Near(r))

Heading(p) == Promising(p) /\ Asked(p) /\ \A t \in Task : p \in caught[t] => Caught(t, p)
RideInv == TransportInv /\ Charted(line) /\ \A p \in Passenger : Heading(p)

LEMMA NearFacts ==
    ASSUME Charted(line), NEW r \in line.rides
    PROVE  /\ \A n \in line.npcs : n.at \in Near(r) => n.to \in Near(r)
           /\ \A q, s \in line.rides : q.to # s.to /\ q.to \in Near(r) => s.from \in Near(r)
           /\ \A s \in line.rides : s.room \in Near(r) => s = r
           /\ \A m \in Near(r) : m \notin Decks
           /\ \A x, y : Warps(line, x, y) /\ y \in r.decks => x \in Near(r)
  <1> DEFINE N == CHOOSE M : Shores(line, M)
  <1>1. Shores(line, N)
    BY DEF Charted
  <1>2. Near(r) = N[r.room]
    BY DEF Near
  <1> HIDE DEF N
  <1> QED BY <1>1, <1>2, DecksAre DEF Shores

\* The statement a running warp is at is one of the script's.
LEMMA WarpAt ==
    ASSUME TransportInv, NEW t \in Task, Doing(t, "warp")
    PROVE  Warps(line, Statement(t)[2], Statement(t)[3])
  <1>1. Statement(t) \in Statements(line, t) /\ Statement(t)[1] = "warp"
    BY AtStatement DEF TransportInv, Timetabled, Doing, Running
  <1> QED BY <1>1 DEF Warps, Task

\* A passenger that stays where it is, in the conversation it is in or none,
\* while the lists only shrink.
LEMMA StaysHeading ==
    ASSUME NEW p \in Passenger, Heading(p), line' = line,
           place'[p] = place[p], bound'[p] = bound[p], talk'[p] \in {talk[p], NoTalk},
           \A t \in Task : p \in caught'[t] => p \in caught[t] /\ pc'[t] = pc[t]
    PROVE  Heading(p)'
  <1>1. /\ Task' = Task /\ \A r : Near(r)' = Near(r)
        /\ \A m : Launch(line, m)' = Launch(line, m)
        /\ Aboard(p)' = Aboard(p)
    BY DEF Task, Near, Launch, Aboard, Decks
  <1>2. Launch(line, place[p])' => Launch(line, place[p])
    BY <1>1
  <1>3. Promising(p)' /\ Asked(p)'
    BY <1>2 DEF Heading, Promising, Asked
  <1>4. ASSUME NEW t \in Task, p \in caught'[t] PROVE Caught(t, p)'
    <2>1. Caught(t, p) /\ Statement(t)' = Statement(t)
      BY <1>4 DEF Heading, Statement
    <2> QED BY <1>1, <2>1 DEF Caught
  <1> QED BY <1>1, <1>3, <1>4 DEF Heading

\* The steps of the timer that set nobody down.
LEMMA TimerHeading ==
    ASSUME RideInv, NEW t \in Task,
           Fire(t) \/ SetProperty(t) \/ ScheduleTask(t) \/ KillAllMonsters(t) \/ SpawnMonsters(t),
           NEW p \in Passenger
    PROVE  Heading(p)'
  <1>1. /\ UNCHANGED <<line, caught, place, bound, talk>>
        /\ \A u \in Task \ {t} : pc'[u] = pc[u]
    BY DEF Fire, SetProperty, ScheduleTask, KillAllMonsters, SpawnMonsters, Advance, passengerVars,
           RideInv, TransportInv, TypeOK
  <1>2. caught[t] = {}
    BY DEF Fire, SetProperty, ScheduleTask, KillAllMonsters, SpawnMonsters, Doing,
           RideInv, TransportInv, Warping, Running
  <1> QED BY <1>1, <1>2, StaysHeading DEF RideInv

LEMMA CopyHeading ==
    ASSUME RideInv, NEW t \in Task, CopyCharacters(t), NEW p \in Passenger
    PROVE  Heading(p)'
  <1> USE DEF RideInv
  <1>1. PICK there : /\ there = {q \in Passenger : online[q] /\ place[q] = Statement(t)[2]}
                     /\ caught' = [caught EXCEPT ![t] = there]
                     /\ there # {} => pc' = pc
                     /\ UNCHANGED <<line, place, bound, talk>>
                     /\ caught[t] = {} /\ Doing(t, "warp")
    BY DEF CopyCharacters, passengerVars
  <1>2. caught \in [Task -> SUBSET Passenger] /\ pc \in [Task -> Nat]
    BY DEF TransportInv, TypeOK
  <1>3. \A u \in Task \ {t} : caught'[u] = caught[u] /\ pc'[u] = pc[u]
    BY <1>1, <1>2 DEF CopyCharacters, Advance
  <1>4. CASE p \notin there
    BY <1>1, <1>2, <1>3, <1>4, StaysHeading
  <1>5. CASE p \in there
    <2>1. /\ place[p] = Statement(t)[2] /\ pc' = pc
          /\ Warps(line, Statement(t)[2], Statement(t)[3])
      BY <1>1, <1>5, WarpAt
    <2>2. /\ Task' = Task /\ \A r : Near(r)' = Near(r)
          /\ \A m : Launch(line, m)' = Launch(line, m)
          /\ Aboard(p)' = Aboard(p) /\ \A u : Statement(u)' = Statement(u)
      BY <1>1, <2>1 DEF Task, Near, Launch, Aboard, Decks, Statement
    <2>3. Promising(p)' /\ Asked(p)'
      BY <1>1, <2>2 DEF Heading, Promising, Asked
    <2>4. Caught(t, p)
      <3>1. Aboard(p) => \E r \in line.rides : place[p] \in r.decks
        BY DEF Aboard, Decks
      <3>2. ASSUME NEW r \in line.rides, Statement(t)[3] \in r.decks
            PROVE  place[p] \in Near(r) /\ (talk[p] = NoTalk \/ talk[p].to \in Near(r))
        <4>1. place[p] \in Near(r)
          BY <2>1, <3>2, NearFacts
        <4>2. Statement(t)[3] \in DecksOf(line)
          BY <3>2 DEF DecksOf
        <4>3. Launch(line, place[p])
          BY <2>1, <4>2 DEF Launch
        <4>4. talk[p] \in line.npcs \cup {NoTalk} /\ (talk[p] = NoTalk \/ talk[p].at = place[p])
          BY <4>3 DEF TransportInv, TypeOK, Heading, Asked
        <4> QED BY <4>1, <4>4, NearFacts
      <3> QED BY <2>1, <3>1, <3>2 DEF Caught
    <2>5. Caught(t, p)'
      BY <1>1, <2>2, <2>4 DEF Caught
    <2>6. ASSUME NEW u \in Task \ {t}, p \in caught'[u] PROVE Caught(u, p)'
      <3>1. Caught(u, p)
        BY <1>3, <2>6 DEF Heading
      <3> QED BY <1>1, <2>2, <3>1 DEF Caught
    <2> QED BY <2>2, <2>3, <2>5, <2>6 DEF Heading
  <1> QED BY <1>4, <1>5

\* A warp of the list: nobody is on another one, and its passenger gets from
\* the room on board of its ride, or off board at its end.
LEMMA OneList ==
    ASSUME RideInv, NEW t \in Task, NEW u \in Task, caught[t] # {}, caught[u] # {}
    PROVE  t = u
  <1>1. /\ Running(t) /\ Statement(t)[1] = "warp" /\ Statement(t) \in Statements(line, t)
        /\ Running(u) /\ Statement(u)[1] = "warp" /\ Statement(u) \in Statements(line, u)
    BY AtStatement DEF RideInv, TransportInv, Timetabled, Warping
  <1>2. t \in MainTasks /\ u \in MainTasks
    BY <1>1 DEF RideInv, TransportInv, Timetabled, Rounds, MainTasks, Task
  <1> QED BY <1>1, <1>2 DEF RideInv, TransportInv, Round, Alone

LEMMA WarpHeading ==
    ASSUME RideInv, NEW t \in Task, NEW q \in Passenger, WarpOne(t, q), NEW p \in Passenger
    PROVE  Heading(p)'
  <1> USE DEF RideInv
  <1>1. /\ q \in caught[t] /\ Doing(t, "warp")
        /\ caught' = [caught EXCEPT ![t] = @ \ {q}]
        /\ caught[t] # {q} => pc' = pc
        /\ UNCHANGED <<line, talk>>
        /\ Heading(p) /\ Heading(q)
    BY DEF WarpOne
  <1>2. /\ caught \in [Task -> SUBSET Passenger] /\ place \in [Passenger -> Nat]
        /\ bound \in [Passenger -> Ends \cup {Nowhere}]
    BY DEF TransportInv, TypeOK
  <1>3. \A u \in Task \ {t} : caught[u] = {} /\ caught'[u] = {}
    BY <1>1, <1>2, OneList
  <1>4. /\ Task' = Task /\ \A r : Near(r)' = Near(r)
        /\ \A m : Launch(line, m)' = Launch(line, m)
    BY <1>1 DEF Task, Near, Launch
  <1>5. CASE p # q
    <2>1. place'[p] = place[p] /\ bound'[p] = bound[p]
      BY <1>2, <1>5 DEF WarpOne
    <2>2. ASSUME NEW u \in Task, p \in caught'[u] PROVE p \in caught[u] /\ pc'[u] = pc[u]
      BY <1>1, <1>2, <1>3, <1>5, <2>2
    <2> QED BY <1>1, <2>1, <2>2, StaysHeading
  <1>6. CASE p = q
    <2>1. \A u \in Task : p \notin caught'[u]
      BY <1>1, <1>2, <1>3, <1>6
    <2>2. CASE UNCHANGED <<place, bound>>
      BY <1>1, <2>1, <2>2, StaysHeading
    <2>3. CASE online[p] /\ ~ testing[p]
      <3>1. /\ place'[p] = Statement(t)[3]
            /\ bound'[p] = IF Statement(t)[3] \in Decks THEN bound[p] ELSE Nowhere
            /\ Warps(line, Statement(t)[2], Statement(t)[3])
        BY <1>1, <1>2, <1>6, <2>3, WarpAt DEF WarpOne
      <3>2. Asked(p)'
        BY <1>4, <3>1 DEF Asked, Charted, Apart
      <3>3. Promising(p)'
        <4>1. CASE bound'[p] = Nowhere
          BY <4>1 DEF Promising
        <4>2. CASE bound'[p] # Nowhere
          <5>1. PICK r \in line.rides : Statement(t)[3] \in r.decks
            BY <3>1, <4>2 DEF Decks
          <5>2. bound'[p] = bound[p] /\ bound[p] # Nowhere
            BY <3>1, <4>2
          <5>3. PICK s \in line.rides : bound[p] = s.to /\ place[p] \in Berths(s)
            BY <1>1, <5>2 DEF Heading, Promising
          <5>4. place[p] \in Near(r)
            BY <1>1, <1>6, <5>1 DEF Heading, Caught
          <5>5. place[p] \notin Decks
            BY <5>4, NearFacts
          <5>6. place[p] = s.room
            BY <5>3, <5>5 DEF Berths, Decks
          <5>7. s = r
            BY <5>4, <5>6, NearFacts
          <5> QED BY <1>1, <3>1, <5>1, <5>2, <5>3, <5>7 DEF Promising, Berths
        <4> QED BY <4>1, <4>2
      <3> QED BY <1>4, <2>1, <3>2, <3>3 DEF Heading
    <2> QED BY <1>6, <2>2, <2>3 DEF WarpOne
  <1> QED BY <1>5, <1>6

\* What the passengers do.  Another passenger than p changes nothing of p.
LEMMA OthersHeading ==
    ASSUME RideInv, UNCHANGED scriptVars, NEW p \in Passenger,
           place'[p] = place[p], bound'[p] = bound[p], talk'[p] \in {talk[p], NoTalk}
    PROVE  Heading(p)'
  BY StaysHeading DEF RideInv, scriptVars

LEMMA AskHeading ==
    ASSUME RideInv, NEW p \in Passenger, NEW n \in line.npcs, Ask(p, n)
    PROVE  Heading(p)'
  <1> USE DEF RideInv
  <1>1. /\ n.at = place[p] /\ talk' = [talk EXCEPT ![p] = n]
        /\ UNCHANGED <<line, place, bound, caught, pc>> /\ Heading(p)
    BY DEF Ask, scriptVars
  <1>2. talk'[p] = n
    BY <1>1 DEF TransportInv, TypeOK
  <1>3. /\ Task' = Task /\ \A r : Near(r)' = Near(r)
        /\ \A m : Launch(line, m)' = Launch(line, m)
        /\ Aboard(p)' = Aboard(p) /\ \A u : Statement(u)' = Statement(u)
    BY <1>1 DEF Task, Near, Launch, Aboard, Decks, Statement
  <1>4. Promising(p)' /\ Asked(p)'
    BY <1>1, <1>2 DEF Heading, Promising, Asked
  <1>5. ASSUME NEW t \in Task, p \in caught'[t] PROVE Caught(t, p)'
    <2>1. Caught(t, p)
      BY <1>1, <1>5 DEF Heading
    <2>2. ASSUME NEW r \in line.rides, Statement(t)[3] \in r.decks
          PROVE  place[p] \in Near(r) /\ n.to \in Near(r)
      BY <1>1, <2>1, <2>2, NearFacts DEF Caught
    <2> QED BY <1>1, <1>2, <1>3, <2>1, <2>2 DEF Caught
  <1> QED BY <1>3, <1>4, <1>5 DEF Heading

LEMMA PromisedEnd ==
    ASSUME NEW m
    PROVE  Promised(m) = Nowhere \/ \E r \in line.rides : Promised(m) = r.to /\ m = r.room
  BY DEF Promised, Rooms

\* To get somewhere off board, in no conversation or in the one it was in.
LEMMA LandsHeading ==
    ASSUME RideInv, NEW p \in Passenger, UNCHANGED scriptVars, place'[p] \notin Decks,
           bound'[p] = Nowhere \/ \E r \in line.rides : bound'[p] = r.to /\ place'[p] \in Berths(r),
           talk'[p] \in {talk[p], NoTalk},
           Launch(line, place'[p]) => talk'[p] = NoTalk,
           \A r \in line.rides : place[p] \in Near(r) /\ (talk[p] = NoTalk \/ talk[p].to \in Near(r))
              => place'[p] \in Near(r)
    PROVE  Heading(p)'
  <1> USE DEF RideInv
  <1>1. UNCHANGED <<line, caught, pc>> /\ Heading(p)
    BY DEF scriptVars
  <1>2. /\ Task' = Task /\ \A r : Near(r)' = Near(r) /\ Decks' = Decks
        /\ \A m : Launch(line, m)' = Launch(line, m)
        /\ \A u : Statement(u)' = Statement(u)
    BY <1>1 DEF Task, Near, Launch, Decks, Statement
  <1>3. Promising(p)' /\ Asked(p)'
    BY <1>1, <1>2 DEF Promising, Asked
  <1>4. ASSUME NEW t \in Task, p \in caught'[t] PROVE Caught(t, p)'
    <2>1. Caught(t, p)
      BY <1>1, <1>4 DEF Heading
    <2> QED BY <1>1, <1>2, <2>1 DEF Caught, Aboard
  <1> QED BY <1>2, <1>3, <1>4 DEF Heading

LEMMA YesHeading ==
    ASSUME RideInv, NEW p \in Passenger, Yes(p)
    PROVE  Heading(p)'
  <1> USE DEF RideInv
  <1>1. /\ UNCHANGED scriptVars /\ talk' = [talk EXCEPT ![p] = NoTalk]
        /\ talk[p] # NoTalk /\ talk[p] \in line.npcs
        /\ talk \in [Passenger -> line.npcs \cup {NoTalk}]
        /\ place \in [Passenger -> Nat] /\ bound \in [Passenger -> Ends \cup {Nowhere}]
    BY DEF Yes, TransportInv, TypeOK
  <1>2. talk'[p] = NoTalk
    BY <1>1
  <1>3. CASE UNCHANGED <<place, bound>>
    BY <1>1, <1>2, <1>3, OthersHeading
  <1>4. CASE /\ place' = [place EXCEPT ![p] = talk[p].to]
             /\ bound' = [bound EXCEPT ![p] = Promised(talk[p].to)]
    <2>1. place'[p] = talk[p].to /\ bound'[p] = Promised(talk[p].to)
      BY <1>1, <1>4
    <2>2. talk[p].to \notin Decks
      BY <1>1, DecksAre DEF TransportInv, Timetabled, WellFormed
    <2>3. bound'[p] = Nowhere \/ \E r \in line.rides : bound'[p] = r.to /\ place'[p] \in Berths(r)
      BY <2>1, PromisedEnd DEF Berths
    <2> QED BY <1>1, <1>2, <2>1, <2>2, <2>3, LandsHeading
  <1> QED BY <1>3, <1>4 DEF Yes

LEMMA WalkHeading ==
    ASSUME RideInv, NEW p \in Passenger, Walk(p)
    PROVE  Heading(p)'
  <1> USE DEF RideInv
  <1>1. PICK r \in line.rides, s \in line.rides :
          /\ r.to # s.to /\ place[p] = r.to /\ place' = [place EXCEPT ![p] = s.from]
    BY DEF Walk
  <1>2. UNCHANGED scriptVars /\ UNCHANGED <<talk, bound>> /\ place'[p] = s.from
    BY <1>1 DEF Walk, TransportInv, TypeOK
  <1>3. place'[p] \notin Decks
    BY <1>2, DecksAre DEF TransportInv, Timetabled, WellFormed
  <1>4. bound[p] = Nowhere
    BY <1>1 DEF Heading, Promising, Charted, Apart
  <1>5. ~ Launch(line, place'[p])
    BY <1>2 DEF Charted, Apart
  <1>6. ASSUME NEW x \in line.rides, place[p] \in Near(x) PROVE place'[p] \in Near(x)
    BY <1>1, <1>2, <1>6, NearFacts
  <1> QED BY <1>2, <1>3, <1>4, <1>5, <1>6, LandsHeading

LEMMA DoorHeading ==
    ASSUME RideInv, NEW p \in Passenger, Door(p)
    PROVE  Heading(p)'
  <1> USE DEF RideInv
  <1>1. PICK d \in line.doors : place[p] = d[1] /\ place' = [place EXCEPT ![p] = d[2]]
    BY DEF Door
  <1>2. /\ UNCHANGED scriptVars /\ UNCHANGED <<talk, bound>> /\ place'[p] = d[2]
        /\ d[1] \in Decks /\ Heading(p)
    BY <1>1, DecksAre DEF Door, TransportInv, TypeOK, Timetabled, WellFormed
  <1>3. PICK r \in line.rides : place[p] \in r.decks /\ place'[p] \in r.decks
    BY <1>1, <1>2 DEF Decks, Charted, Apart
  <1>4. UNCHANGED <<line, caught, pc>>
    BY <1>2 DEF scriptVars
  <1>5. /\ Task' = Task /\ \A s : Near(s)' = Near(s) /\ Decks' = Decks
        /\ \A m : Launch(line, m)' = Launch(line, m)
        /\ \A u : Statement(u)' = Statement(u)
    BY <1>4 DEF Task, Near, Launch, Decks, Statement
  <1>6. \A s \in line.rides : place[p] \in Berths(s) => s = r
    BY <1>3 DEF Charted, Apart, Berths
  <1>7. Promising(p)'
    BY <1>2, <1>3, <1>4, <1>6 DEF Heading, Promising, Berths
  <1>8. Asked(p)'
    <2>1. ~ Launch(line, place'[p])
      <3>1. place'[p] \in DecksOf(line)
        BY <1>3 DEF DecksOf
      <3> QED BY <3>1 DEF Launch, Charted, Apart
    <2> QED BY <1>4, <2>1 DEF Asked, Launch
  <1>9. ASSUME NEW t \in Task, p \in caught'[t] PROVE Caught(t, p)'
    <2>1. Caught(t, p)
      BY <1>2, <1>4, <1>9 DEF Heading
    <2>2. Aboard(p)
      BY <1>3 DEF Aboard, Decks
    <2>3. PICK s \in line.rides : Statement(t)[2] \in s.decks /\ place[p] \in s.decks
      BY <2>1, <2>2 DEF Caught
    <2>4. s = r
      BY <1>6, <2>3 DEF Berths
    <2>5. \A x \in line.rides : Statement(t)[3] \notin x.decks
      <3>1. ASSUME NEW x \in line.rides, Statement(t)[3] \in x.decks PROVE FALSE
        <4>1. place[p] \in Near(x)
          BY <2>1, <3>1 DEF Caught
        <4> QED BY <2>2, <4>1, NearFacts DEF Aboard
      <3> QED BY <3>1
    <2> QED BY <1>3, <1>4, <1>5, <2>3, <2>4, <2>5 DEF Caught
  <1> QED BY <1>5, <1>7, <1>8, <1>9 DEF Heading

LEMMA NextRideInv ==
    ASSUME RideInv, [Next]_vars
    PROVE  RideInv'
  <1>1. TransportInv' /\ line' = line
    BY NextTransportInv DEF RideInv, Next, Tick, TaskStep, Fire, SetProperty, ScheduleTask,
       KillAllMonsters, SpawnMonsters, CopyCharacters, WarpOne, Ask, Yes, No, Door, Walk,
       StartTest, EndTest, LogOut, LogIn, scriptVars, vars
  <1>2. Charted(line)'
    BY <1>1 DEF RideInv
  <1>3. ASSUME NEW p \in Passenger PROVE Heading(p)'
    <2>1. CASE Tick \/ UNCHANGED vars
      <3>1. UNCHANGED <<line, place, bound, talk, caught, pc>>
        BY <2>1 DEF Tick, vars, passengerVars
      <3> QED BY <3>1, StaysHeading DEF RideInv
    <2>2. ASSUME NEW t \in Task, TaskStep(t) PROVE Heading(p)'
      BY <2>2, TimerHeading, CopyHeading, WarpHeading DEF TaskStep
    <2>3. ASSUME NEW q \in Passenger,
                 \/ \E n \in line.npcs : Ask(q, n)
                 \/ Yes(q) \/ No(q) \/ Door(q) \/ Walk(q)
                 \/ StartTest(q) \/ EndTest(q) \/ LogOut(q) \/ LogIn(q)
          PROVE  Heading(p)'
      <3>1. CASE p # q
        <4>1. UNCHANGED scriptVars /\ place'[p] = place[p] /\ bound'[p] = bound[p] /\ talk'[p] = talk[p]
          BY <2>3, <3>1 DEF Ask, Yes, No, Door, Walk, StartTest, EndTest, LogOut, LogIn,
                            RideInv, TransportInv, TypeOK
        <4> QED BY <4>1, OthersHeading
      <3>2. CASE p = q
        <4>1. CASE No(p) \/ StartTest(p) \/ EndTest(p) \/ LogOut(p) \/ LogIn(p)
          <5>1. /\ UNCHANGED scriptVars /\ UNCHANGED <<place, bound>>
                /\ talk' \in {talk, [talk EXCEPT ![p] = NoTalk]}
            BY <4>1 DEF No, StartTest, EndTest, LogOut, LogIn
          <5>2. talk'[p] \in {talk[p], NoTalk}
            BY <5>1 DEF RideInv, TransportInv, TypeOK
          <5> QED BY <5>1, <5>2, OthersHeading
        <4> QED BY <2>3, <3>2, <4>1, AskHeading, YesHeading, DoorHeading, WalkHeading
      <3> QED BY <3>1, <3>2
    <2> QED BY <2>1, <2>2, <2>3 DEF Next
  <1> QED BY <1>1, <1>2, <1>3 DEF RideInv

LEMMA InitRideInv ==
    ASSUME Init, \A l \in Lines : Timetabled(l) /\ Charted(l)
    PROVE  RideInv
  <1>1. TransportInv /\ Charted(line)
    BY InitTransportInv DEF Init
  <1>2. ASSUME NEW p \in Passenger PROVE Heading(p)
    BY DEF Init, Heading, Promising, Asked
  <1> QED BY <1>1, <1>2 DEF RideInv

LEMMA StepDelivers ==
    ASSUME RideInv, [Next]_vars, NEW p \in Passenger,
           talk'[p] = talk[p], Aboard(p), place'[p] # place[p], place'[p] \notin Decks
    PROVE  bound[p] \in {Nowhere, place'[p]}
  <1> USE DEF RideInv
  <1>0. place \in [Passenger -> Nat] /\ talk \in [Passenger -> line.npcs \cup {NoTalk}]
    BY DEF TransportInv, TypeOK
  <1>1. ~ UNCHANGED place
    OBVIOUS
  <1>2. CASE \E t \in Task, q \in Passenger : WarpOne(t, q)
    <2>1. PICK t \in Task, q \in Passenger : WarpOne(t, q)
      BY <1>2
    <2>2. q = p
      BY <1>0, <2>1 DEF WarpOne
    <2>3. /\ p \in caught[t] /\ Doing(t, "warp") /\ place'[p] = Statement(t)[3]
      BY <1>0, <2>1, <2>2 DEF WarpOne
    <2>4. PICK r \in line.rides : Statement(t)[2] \in r.decks /\ place[p] \in r.decks
      BY <2>3 DEF Heading, Caught
    <2>5. place'[p] = r.to
      BY <2>3, <2>4, WarpAt, DecksAre DEF Charted, Apart
    <2>6. CASE bound[p] # Nowhere
      <3>1. PICK s \in line.rides : bound[p] = s.to /\ place[p] \in Berths(s)
        BY <2>6 DEF Heading, Promising
      <3>2. s = r
        BY <2>4, <3>1 DEF Charted, Apart, Berths
      <3> QED BY <2>5, <3>1, <3>2
    <2> QED BY <2>6
  <1>3. CASE \E q \in Passenger : Door(q)
    <2>1. PICK q \in Passenger : Door(q)
      BY <1>3
    <2>2. PICK d \in line.doors : place[q] = d[1] /\ place' = [place EXCEPT ![q] = d[2]]
      BY <2>1 DEF Door
    <2>3. q = p /\ place'[p] = d[2]
      BY <1>0, <2>2
    <2> QED BY <2>2, <2>3 DEF Aboard, Decks, Charted, Apart
  <1>4. CASE \E q \in Passenger : Walk(q)
    <2>1. PICK q \in Passenger : Walk(q)
      BY <1>4
    <2>2. PICK r \in line.rides, s \in line.rides :
            place[q] = r.to /\ place' = [place EXCEPT ![q] = s.from]
      BY <2>1 DEF Walk
    <2>3. q = p
      BY <1>0, <2>2
    <2> QED BY <2>2, <2>3 DEF Aboard, Decks, Charted, Apart, Berths
  <1>5. CASE \E q \in Passenger : Yes(q)
    <2>1. PICK q \in Passenger : Yes(q)
      BY <1>5
    <2>2. q = p
      BY <1>0, <1>1, <2>1 DEF Yes
    <2> QED BY <1>0, <2>1, <2>2 DEF Yes
  <1>6. ASSUME ~ \E t \in Task, q \in Passenger : WarpOne(t, q),
               ~ \E q \in Passenger : Door(q) \/ Walk(q) \/ Yes(q)
        PROVE  FALSE
    BY <1>1, <1>6 DEF Next, Tick, TaskStep, Fire, SetProperty, ScheduleTask, KillAllMonsters,
       SpawnMonsters, CopyCharacters, Ask, No, StartTest, EndTest, LogOut, LogIn, vars, passengerVars
  <1> QED BY <1>2, <1>3, <1>4, <1>5, <1>6

-----------------------------------------------------------------------------
(* The six scripts are of the kind that the proofs ask for.                *)

Items(s) == {s[k] : k \in 1 .. Len(s)}

LEMMA Parts ==
    ASSUME NEW x, NEW y
    PROVE  /\ Set(x, y)[1] = "set" /\ Set(x, y)[2] = x /\ Set(x, y)[3] = y
           /\ Schedule(x, y)[1] = "schedule" /\ Schedule(x, y)[2] = x /\ Schedule(x, y)[3] = y
           /\ Warp(x, y)[1] = "warp" /\ Warp(x, y)[2] = x /\ Warp(x, y)[3] = y
           /\ KillAll(x)[1] = "killAll" /\ Spawn(x)[1] = "spawn" /\ Spawn(x)[2] = x
  BY DEF Set, Schedule, Warp, KillAll, Spawn

LEMMA ItemsOf1 ==
    ASSUME NEW a
    PROVE  Items(<<a>>) = {a} /\ Len(<<a>>) = 1
  BY SMT DEF Items

LEMMA ItemsOf2 ==
    ASSUME NEW a, NEW b
    PROVE  Items(<<a, b>>) = {a, b} /\ Len(<<a, b>>) = 2
  BY SMT DEF Items

LEMMA ItemsOf3 ==
    ASSUME NEW a, NEW b, NEW c
    PROVE  Items(<<a, b, c>>) = {a, b, c} /\ Len(<<a, b, c>>) = 3
  BY SMT DEF Items

LEMMA ItemsOf4 ==
    ASSUME NEW a, NEW b, NEW c, NEW d
    PROVE  Items(<<a, b, c, d>>) = {a, b, c, d} /\ Len(<<a, b, c, d>>) = 4
  BY SMT DEF Items

LEMMA ItemsOf5 ==
    ASSUME NEW a, NEW b, NEW c, NEW d, NEW e
    PROVE  Items(<<a, b, c, d, e>>) = {a, b, c, d, e} /\ Len(<<a, b, c, d, e>>) = 5
  BY SMT DEF Items

LEMMA ItemsOf7 ==
    ASSUME NEW a, NEW b, NEW c, NEW d, NEW e, NEW f, NEW g
    PROVE  Items(<<a, b, c, d, e, f, g>>) = {a, b, c, d, e, f, g} /\ Len(<<a, b, c, d, e, f, g>>) = 7
  BY SMT DEF Items

LEMMA ItemsOfConcatenation ==
    ASSUME NEW S, NEW s \in Seq(S), NEW t \in Seq(S)
    PROVE  /\ Items(s \o t) = Items(s) \cup Items(t)
           /\ Len(s \o t) = Len(s) + Len(t)
  <1>1. /\ Len(s \o t) = Len(s) + Len(t)
        /\ \A k \in 1 .. Len(s) : (s \o t)[k] = s[k]
        /\ \A k \in 1 .. Len(t) : (s \o t)[Len(s) + k] = t[k]
        /\ Len(s) \in Nat /\ Len(t) \in Nat
    BY SMT
  <1>2. ASSUME NEW x \in Items(s \o t) PROVE x \in Items(s) \cup Items(t)
    <2>1. PICK k \in 1 .. Len(s) + Len(t) : x = (s \o t)[k]
      BY <1>1, <1>2 DEF Items
    <2>2. CASE k <= Len(s)
      BY <1>1, <2>1, <2>2 DEF Items
    <2>3. CASE k > Len(s)
      <3>1. k - Len(s) \in 1 .. Len(t) /\ k = Len(s) + (k - Len(s))
        BY <1>1, <2>3
      <3> QED BY <1>1, <2>1, <3>1 DEF Items
    <2> QED BY <1>1, <2>2, <2>3
  <1>3. ASSUME NEW x \in Items(s) PROVE x \in Items(s \o t)
    <2>1. PICK k \in 1 .. Len(s) : x = s[k]
      BY <1>3 DEF Items
    <2> QED BY <1>1, <2>1 DEF Items
  <1>4. ASSUME NEW x \in Items(t) PROVE x \in Items(s \o t)
    <2>1. PICK k \in 1 .. Len(t) : x = t[k]
      BY <1>4 DEF Items
    <2>2. Len(s) + k \in 1 .. Len(s) + Len(t)
      BY <1>1
    <2> QED BY <1>1, <2>1, <2>2 DEF Items
  <1> QED BY <1>1, <1>2, <1>3, <1>4

\* What Dock and StopEntry say, with names for the two truth values.
Affirms(b) == b
Answers(yes, no) == yes \in BOOLEAN /\ no \in BOOLEAN /\ Affirms(yes) /\ ~ Affirms(no)
DocksWith(yes, no) ==
    /\ Dock = <<Set("docked", yes), Set("entry", yes),
                Schedule("stopEntry", 4), Schedule("takeoff", 5)>>
    /\ StopEntry = <<Set("entry", no)>>

\* All lines but one dock in the same way.  Their people lead nobody on board.
Usual(l, off, arr) ==
    /\ l.code = Timetable(off, arr)
    /\ \A x \in l.npcs : x.to \in Nat \ DecksOf(l)
    /\ \A r \in l.rides : r.from \in Nat \ DecksOf(l)
    /\ l.doors = {}

TakesOff(l, off, no) ==
    /\ \A s \in Items(off) : \/ s = Set("docked", no)
                            \/ \E n \in Nat \ {0} : s = Schedule("arrived", n)
                            \/ \E x, y \in Nat : s = Warp(x, y)
    /\ Set("docked", no) \in Items(off)
    /\ \E n \in Nat \ {0} : Schedule("arrived", n) \in Items(off)

Arrives(l, arr) ==
    /\ \A s \in Items(arr) : \E x \in Nat, y \in Nat \ DecksOf(l) : s = Warp(x, y)
    /\ \A m \in DecksOf(l) : \E y : Warp(m, y) \in Items(arr)

WarpsAre(l, W) ==
    \A t \in DOMAIN l.code : \A s \in Statements(l, t) : s[1] = "warp" => s \in W

LEMMA UsualLine ==
    ASSUME NEW yes, NEW no, Answers(yes, no), DocksWith(yes, no),
           NEW l, NEW S, NEW off \in Seq(S), NEW arr \in Seq(S),
           Usual(l, off, arr), TakesOff(l, off, no), Arrives(l, arr)
    PROVE  Timetabled(l) /\ WarpsAre(l, Items(off) \cup Items(arr))
  <1> USE DEF Usual, TakesOff, Arrives, Answers
  <1>1. /\ DOMAIN l.code = {"init", "stopEntry", "takeoff", "arrived"}
        /\ l.code["init"] = Dock /\ l.code["stopEntry"] = StopEntry
        /\ l.code["takeoff"] = off /\ l.code["arrived"] = arr \o Dock
    BY DEF Timetable
  <1>2. Items(Dock) = {Set("docked", yes), Set("entry", yes),
                       Schedule("stopEntry", 4), Schedule("takeoff", 5)}
        /\ Len(Dock) = 4
    BY ItemsOf4 DEF DocksWith
  <1>3. Items(StopEntry) = {Set("entry", no)} /\ Len(StopEntry) = 1
    BY ItemsOf1 DEF DocksWith
  <1>4. Items(arr \o Dock) = Items(arr) \cup Items(Dock) /\ Len(arr \o Dock) = Len(arr) + 4
    <2>1. arr \in Seq(S \cup Items(Dock))
      BY SMT
    <2>2. Dock \in Seq(S \cup Items(Dock))
      <3>1. ASSUME NEW a, NEW b, NEW c, NEW d PROVE <<a, b, c, d>> \in Seq(S \cup {a, b, c, d})
        BY SMT
      <3> QED BY <1>2, <3>1 DEF DocksWith
    <2>3. Items(arr \o Dock) = Items(arr) \cup Items(Dock) /\ Len(arr \o Dock) = Len(arr) + Len(Dock)
      BY ONLY <2>1, <2>2, ItemsOfConcatenation
    <2>4. Len(Dock) = 4
      BY <1>2
    <2> QED BY ONLY <2>3, <2>4
  <1>5. \A t \in DOMAIN l.code : Statements(l, t) = Items(l.code[t])
    BY DEF Statements, Items
  <1>6. /\ Statements(l, "init") = Items(Dock)
        /\ Statements(l, "stopEntry") = {Set("entry", no)}
        /\ Statements(l, "takeoff") = Items(off)
        /\ Statements(l, "arrived") = Items(arr) \cup Items(Dock)
    BY <1>1, <1>3, <1>4, <1>5
  <1>7. \A t \in DOMAIN l.code : Len(l.code[t]) \in Nat \ {0}
    <2>1. Len(off) \in Nat \ {0}
      BY SMT DEF Items
    <2>2. Len(arr) \in Nat
      BY SMT
    <2>3. Len(Dock) = 4 /\ Len(StopEntry) = 1 /\ Len(arr \o Dock) = Len(arr) + 4
      BY <1>2, <1>3, <1>4
    <2>4. Len(l.code["init"]) \in Nat \ {0} /\ Len(l.code["stopEntry"]) \in Nat \ {0}
      BY <1>1, <2>3
    <2>5. Len(l.code["takeoff"]) \in Nat \ {0}
      BY <1>1, <2>1
    <2>6. Len(l.code["arrived"]) \in Nat \ {0}
      BY <1>1, <2>2, <2>3
    <2>7. ASSUME NEW t \in DOMAIN l.code PROVE Len(l.code[t]) \in Nat \ {0}
      <3>1. t \in {"init", "stopEntry", "takeoff", "arrived"}
        BY <1>1
      <3> QED BY ONLY <2>4, <2>5, <2>6, <3>1, Zenon
    <2> QED BY <2>7
  <1>8. ASSUME NEW s \in Items(Dock)
        PROVE  \/ s[1] = "set" /\ s[2] \in {"docked", "entry"} /\ s[3] = yes
               \/ s[1] = "schedule" /\ s[2] = "stopEntry" /\ s[3] = 4
               \/ s[1] = "schedule" /\ s[2] = "takeoff" /\ s[3] = 5
    BY <1>2, <1>8, Parts
  <1>9. ASSUME NEW s \in Items(off)
        PROVE  \/ s[1] = "set" /\ s[2] = "docked" /\ s[3] = no
               \/ s[1] = "schedule" /\ s[2] = "arrived" /\ s[3] \in Nat \ {0}
               \/ s[1] = "warp" /\ s[3] \in Nat
    BY <1>9, Parts
  <1>10. ASSUME NEW s \in Items(arr)
         PROVE  s[1] = "warp" /\ s[3] \in Nat /\ s[3] \notin DecksOf(l)
    BY <1>10, Parts
  <1>11. ASSUME NEW s \in Statements(l, "stopEntry")
         PROVE  s[1] = "set" /\ s[2] = "entry" /\ s[3] = no
    BY <1>6, <1>11, Parts
  <1>12. WellFormed(l)
    <2>1. ASSUME NEW t \in DOMAIN l.code, NEW s \in Statements(l, t)
          PROVE  \/ s[1] = "set" /\ s[2] \in Properties /\ s[3] \in BOOLEAN
                 \/ s[1] = "schedule" /\ s[2] \in DOMAIN l.code /\ s[3] \in Nat \ {0}
                 \/ s[1] = "warp" /\ s[3] \in Nat
      BY <1>1, <1>6, <1>8, <1>9, <1>10, <1>11, <2>1 DEF Properties
    <2> QED BY <1>7, <2>1 DEF WellFormed
  <1>13. /\ \E s \in Items(Dock) : Sets(s, "docked")
         /\ \E s \in Items(Dock) : Schedules(s, "takeoff")
         /\ \E s \in Items(Dock) : Schedules(s, "stopEntry")
         /\ \E s \in Items(off) : Sets(s, "docked")
         /\ \E s \in Items(off) : Schedules(s, "arrived")
    BY <1>2, Parts DEF Sets, Schedules
  <1>14. Rounds(l)
    <2>1. ASSUME NEW t \in DOMAIN l.code, NEW s \in Statements(l, t)
          PROVE  /\ Sets(s, "docked") => IF Affirms(s[3]) THEN t \in Docks ELSE t = "takeoff"
                 /\ ~ Schedules(s, "init")
                 /\ Schedules(s, "takeoff") => t \in Docks
                 /\ Schedules(s, "arrived") => t = "takeoff"
                 /\ s[1] = "warp" => \/ t = "takeoff"
                                     \/ t = "arrived" /\ s[3] \notin DecksOf(l)
      <3>1. CASE t = "init"
        BY <1>6, <1>8, <2>1, <3>1 DEF Sets, Schedules, Docks
      <3>2. CASE t = "arrived"
        BY <1>6, <1>8, <1>10, <2>1, <3>2 DEF Sets, Schedules, Docks
      <3>3. CASE t = "takeoff"
        BY <1>6, <1>9, <2>1, <3>3 DEF Sets, Schedules, Docks
      <3>4. CASE t = "stopEntry"
        BY <1>6, <1>11, <2>1, <3>4 DEF Sets, Schedules, Docks
      <3> QED BY <1>1, <3>1, <3>2, <3>3, <3>4
    <2>2. \A t \in Docks : /\ \E s \in Statements(l, t) : Sets(s, "docked")
                           /\ \E s \in Statements(l, t) : Schedules(s, "takeoff")
      BY <1>6, <1>13 DEF Docks
    <2>3. \A m \in DecksOf(l) : \E s \in Statements(l, "arrived") : s[1] = "warp" /\ s[2] = m
      BY <1>6, Parts
    <2> QED BY <1>1, <1>6, <1>13, <2>1, <2>2, <2>3 DEF Rounds, MainTasks, Affirms
  <1>15. Gated(l)
    <2>1. ASSUME NEW t \in DOMAIN l.code, NEW s \in Statements(l, t)
          PROVE  /\ Sets(s, "entry") => IF Affirms(s[3]) THEN t \in Docks ELSE t = "stopEntry"
                 /\ Schedules(s, "stopEntry") => t \in Docks
      BY <1>1, <1>6, <1>8, <1>9, <1>10, <1>11, <2>1 DEF Sets, Schedules, Docks
    <2>2. \A t \in Docks : \E s \in Statements(l, t) : Schedules(s, "stopEntry")
      BY <1>6, <1>13 DEF Docks
    <2>3. \E s \in Statements(l, "stopEntry") : Sets(s, "entry")
      BY <1>6, Parts DEF Sets
    <2>4. \A a \in Delays(l, "stopEntry") : a = 4
      BY <1>6, <1>8, <1>10 DEF Delays, Schedules
    <2>5. \A b \in Delays(l, "takeoff") : b = 5
      BY <1>6, <1>8, <1>10 DEF Delays, Schedules
    <2>6. \A a \in Delays(l, "stopEntry"), b \in Delays(l, "takeoff") : a < b
      BY <2>4, <2>5
    <2> QED BY <1>1, <2>1, <2>2, <2>3, <2>6 DEF Gated, Affirms
  <1>16. ASSUME NEW t \in DOMAIN l.code, NEW s \in Statements(l, t), s[1] = "warp"
         PROVE  s \in Items(off) \cup Items(arr)
    BY <1>1, <1>6, <1>8, <1>11, <1>16
  <1> QED BY <1>12, <1>14, <1>15, <1>16 DEF Timetabled, WarpsAre

\* All of them go to and fro between two ends, with one deck each way.
TwoWay(l, off, arr, no, a, b, c, d, e, f, n) ==
    /\ off = <<Warp(a, b), Warp(c, d), Set("docked", no), Schedule("arrived", n)>>
       \/ off = <<Set("docked", no), Warp(a, b), Warp(c, d), Schedule("arrived", n)>>
    /\ arr = <<Warp(b, e), Warp(d, f)>> \/ arr = <<Warp(d, f), Warp(b, e)>>
    /\ {a, b, c, d, e, f} \subseteq Nat /\ n \in Nat \ {0}
    /\ DecksOf(l) \subseteq {b, d} /\ e \notin DecksOf(l) /\ f \notin DecksOf(l)

LEMMA TwoWayLine ==
    ASSUME NEW yes, NEW no, Answers(yes, no), DocksWith(yes, no),
           NEW l, NEW off, NEW arr, Usual(l, off, arr),
           NEW a, NEW b, NEW c, NEW d, NEW e, NEW f, NEW n,
           TwoWay(l, off, arr, no, a, b, c, d, e, f, n)
    PROVE  /\ Timetabled(l)
           /\ \A x, y : Warps(l, x, y) =>
                 <<x, y>> \in {<<a, b>>, <<c, d>>, <<b, e>>, <<d, f>>}
  <1> DEFINE S == Items(off) \cup Items(arr)
  <1>1. Items(off) = {Warp(a, b), Warp(c, d), Set("docked", no), Schedule("arrived", n)}
    BY ItemsOf4 DEF TwoWay
  <1>2. Items(arr) = {Warp(b, e), Warp(d, f)}
    BY ItemsOf2 DEF TwoWay
  <1>3. off \in Seq(S)
    <2>1. ASSUME NEW w, NEW x, NEW y, NEW z
          PROVE  <<w, x, y, z>> \in Seq({w, x, y, z} \cup Items(arr))
      BY SMT
    <2>2. off = <<Warp(a, b), Warp(c, d), Set("docked", no), Schedule("arrived", n)>>
          => off \in Seq(S)
      BY <2>1, ItemsOf4
    <2>3. off = <<Set("docked", no), Warp(a, b), Warp(c, d), Schedule("arrived", n)>>
          => off \in Seq(S)
      BY <2>1, ItemsOf4
    <2> QED BY <2>2, <2>3 DEF TwoWay
  <1>4. arr \in Seq(S)
    <2>1. ASSUME NEW x, NEW y PROVE <<x, y>> \in Seq(Items(off) \cup {x, y})
      BY SMT
    <2>2. arr = <<Warp(b, e), Warp(d, f)>> => arr \in Seq(S)
      BY <2>1, ItemsOf2
    <2>3. arr = <<Warp(d, f), Warp(b, e)>> => arr \in Seq(S)
      BY <2>1, ItemsOf2
    <2> QED BY <2>2, <2>3 DEF TwoWay
  <1> HIDE DEF S
  <1>5. Arrives(l, arr)
    BY <1>2 DEF Arrives, TwoWay
  <1>6. TakesOff(l, off, no)
    BY <1>1 DEF TakesOff, TwoWay
  <1>7. Timetabled(l) /\ WarpsAre(l, Items(off) \cup Items(arr))
    BY <1>3, <1>4, <1>5, <1>6, UsualLine
  <1>8. ASSUME NEW x, NEW y, Warps(l, x, y)
        PROVE  <<x, y>> \in {<<a, b>>, <<c, d>>, <<b, e>>, <<d, f>>}
    <2>1. PICK t \in DOMAIN l.code : \E s \in Statements(l, t) : s[1] = "warp" /\ s[2] = x /\ s[3] = y
      BY <1>8 DEF Warps
    <2>2. PICK s \in Statements(l, t) : s[1] = "warp" /\ s[2] = x /\ s[3] = y
      BY <2>1
    <2>3. s \in Items(off) \cup Items(arr)
      BY <1>7, <2>2 DEF WarpsAre
    <2>4. s \in {Warp(a, b), Warp(c, d), Warp(b, e), Warp(d, f)}
      BY <1>1, <1>2, <2>2, <2>3, Parts
    <2> QED BY <2>2, <2>4, Parts
  <1> QED BY <1>7, <1>8

\* The maps of two rides with a deck each, b and d, which leave from a and from
\* c, do not meet; NA and NB are where passengers wait for the one and the other.
Apartness(A, B, a, b, c, d, NA, NB) ==
    /\ A.room \notin {B.room, b, d} /\ B.room \notin {b, d}
    /\ b # d /\ a \notin {b, d} /\ c \notin {b, d}
    /\ \A m \in {A.from, B.from, A.to, B.to} : m \notin {A.room, B.room, a, b, c, d}
    /\ a \in NA /\ B.room \notin NA /\ b \notin NA /\ d \notin NA
    /\ c \in NB /\ A.room \notin NB /\ b \notin NB /\ d \notin NB
    /\ A.to # B.to => /\ A.to \in NA => B.from \in NA
                      /\ B.to \in NA => A.from \in NA
                      /\ A.to \in NB => B.from \in NB
                      /\ B.to \in NB => A.from \in NB

\* A line of two rides has its shores when each ride has one.
ShoreOf(l, r, N) ==
    /\ \A x, y : Warps(l, x, y) /\ y \in r.decks => x \in N
    /\ \A n \in l.npcs : n.at \in N => n.to \in N
    /\ \A q, s \in l.rides : q.to # s.to /\ q.to \in N => s.from \in N
    /\ \A s \in l.rides : s.room \in N => s = r
    /\ \A m \in N : m \notin DecksOf(l)

LEMMA TwoShores ==
    ASSUME NEW l, NEW A, NEW B, NEW NA, NEW NB, l.rides = {A, B}, A.room # B.room,
           ShoreOf(l, A, NA), ShoreOf(l, B, NB)
    PROVE  \E N : Shores(l, N)
  <1>1. \E N : N[A.room] = NA /\ N[B.room] = NB
    <2>1. [m \in {A.room, B.room} |-> IF m = A.room THEN NA ELSE NB][A.room] = NA
      OBVIOUS
    <2>2. [m \in {A.room, B.room} |-> IF m = A.room THEN NA ELSE NB][B.room] = NB
      OBVIOUS
    <2> QED BY <2>1, <2>2
  <1>2. PICK N : N[A.room] = NA /\ N[B.room] = NB
    BY <1>1
  <1>3. ASSUME NEW r \in l.rides
        PROVE  ShoreOf(l, r, N[r.room])
    BY <1>2
  <1> QED BY <1>3 DEF Shores, ShoreOf

\* A line with one ride each way, whose passengers stay in NA, or in NB, until
\* they are taken on board.
LEMMA TwoRidesCharted ==
    ASSUME NEW l, NEW A, NEW B, l.rides = {A, B}, l.doors = {},
           NEW a, NEW b, NEW c, NEW d, NEW NA, NEW NB,
           A.decks = {b}, B.decks = {d}, Apartness(A, B, a, b, c, d, NA, NB),
           \A x, y : Warps(l, x, y) => <<x, y>> \in {<<a, b>>, <<c, d>>, <<b, A.to>>, <<d, B.to>>},
           \A n \in l.npcs : (n.at \in NA => n.to \in NA) /\ (n.at \in NB => n.to \in NB)
    PROVE  Charted(l)
  <1> USE DEF Apartness
  <1>1. \A m : m \in DecksOf(l) <=> m \in {b, d}
    BY DEF DecksOf
  <1>2. ASSUME NEW x, Launch(l, x) PROVE x \in {a, c}
    BY <1>1, <1>2 DEF Launch
  <1>3. \A r \in l.rides : r = A \/ r = B
    OBVIOUS
  <1>4. Apart(l)
    <2>1. ASSUME NEW r \in l.rides, NEW s \in l.rides
          PROVE  /\ \A m : m \in Berths(r) /\ m \in Berths(s) => r = s
                 /\ r.from \notin Berths(s) /\ r.to \notin Berths(s)
      BY <1>3 DEF Berths
    <2>2. \A r \in l.rides : ~ Launch(l, r.from) /\ ~ Launch(l, r.to)
      BY <1>2, <1>3
    <2>3. ASSUME NEW x, NEW y, Warps(l, x, y)
          PROVE  /\ ~ Launch(l, y) /\ \A r \in l.rides : y # r.room
                 /\ y \in DecksOf(l) => x \notin DecksOf(l)
                 /\ y \notin DecksOf(l) => \A r \in l.rides : x \in r.decks => y = r.to
      <3>1. (x = a /\ y = b) \/ (x = c /\ y = d) \/ (x = b /\ y = A.to) \/ (x = d /\ y = B.to)
        BY <2>3
      <3> QED BY <1>1, <1>2, <1>3, <3>1
    <2> QED BY <2>1, <2>2, <2>3 DEF Apart
  <1>5. \E N : N[A.room] = NA /\ N[B.room] = NB
    <2>1. [m \in {A.room, B.room} |-> IF m = A.room THEN NA ELSE NB][A.room] = NA
      OBVIOUS
    <2>2. [m \in {A.room, B.room} |-> IF m = A.room THEN NA ELSE NB][B.room] = NB
      OBVIOUS
    <2> QED BY <2>1, <2>2
  <1>6. PICK N : N[A.room] = NA /\ N[B.room] = NB
    BY <1>5
  <1>7. Shores(l, N)
    <2>1. ASSUME NEW r \in l.rides, NEW x, NEW y, Warps(l, x, y), y \in r.decks PROVE x \in N[r.room]
      <3>1. (x = a /\ y = b) \/ (x = c /\ y = d) \/ (x = b /\ y = A.to) \/ (x = d /\ y = B.to)
        BY <2>1
      <3> QED BY <1>3, <1>6, <2>1, <3>1
    <2>2. ASSUME NEW r \in l.rides
          PROVE  /\ \A n \in l.npcs : n.at \in N[r.room] => n.to \in N[r.room]
                 /\ \A q, s \in l.rides : q.to # s.to /\ q.to \in N[r.room] => s.from \in N[r.room]
                 /\ \A s \in l.rides : s.room \in N[r.room] => s = r
                 /\ \A m \in N[r.room] : m \notin DecksOf(l)
      BY <1>1, <1>3, <1>6
    <2> QED BY <2>1, <2>2 DEF Shores
  <1> QED BY <1>4, <1>7 DEF Charted

LEMMA TrainsTimetabled == Timetabled(Trains) /\ Charted(Trains)
  <1> DEFINE yes == TRUE
             no == FALSE
             off == <<Warp(200000122, 200090100), Warp(220000111, 200090110),
                      Set("docked", no), Schedule("arrived", 7)>>
             arr == <<Warp(200090100, 220000110), Warp(200090110, 200000121)>>
  <1>1. /\ DocksWith(yes, no)
        /\ Trains.code = Timetable(off, arr) /\ Trains.doors = {}
    BY SMT DEF DocksWith, Dock, StopEntry, Trains, TrainsTakeoff, TrainsArrived
  <1>2. Answers(yes, no)
    BY DEF Answers, Affirms
  <1> HIDE DEF yes, no
  <1>3. DecksOf(Trains) = {200090100, 200090110}
    BY SMT DEF DecksOf, Trains, Ride
  <1>4. {x.to : x \in Trains.npcs} = {200000122, 220000111, 220000110, 220000121}
    BY SMT DEF Trains, TrainsOrbisUsher, TrainsLudiUsher, TrainsExits, Npc
  <1>5. {r.from : r \in Trains.rides} = {200000121, 220000110}
    BY SMT DEF Trains, Ride
  <1>6. Usual(Trains, off, arr)
    BY <1>1, <1>3, <1>4, <1>5, SMT DEF Usual
  <1>7. TwoWay(Trains, off, arr, no, 200000122, 200090100, 220000111, 200090110,
               220000110, 200000121, 7)
    BY <1>3, SMT DEF TwoWay
  <1> HIDE DEF off, arr
  <1> DEFINE A == Ride(200000121, 200000122, {200090100}, 220000110)
             B == Ride(220000110, 220000111, {200090110}, 200000121)
             NA == {200000121, 200000122, 220000121}
             NB == {220000110, 220000111}
  <1>8. Trains.rides = {A, B}
    BY SMT DEF Trains
  <1>9. \A x \in Trains.npcs : (x.at \in NA => x.to \in NA) /\ (x.at \in NB => x.to \in NB)
    BY SMT DEF Trains, TrainsOrbisUsher, TrainsLudiUsher, TrainsExits, Npc
  <1>10. /\ A.from = 200000121 /\ A.room = 200000122 /\ A.decks = {200090100} /\ A.to = 220000110
         /\ B.from = 220000110 /\ B.room = 220000111 /\ B.decks = {200090110} /\ B.to = 200000121
    BY SMT DEF Ride
  <1> HIDE DEF A, B
  <1>11. /\ Timetabled(Trains)
         /\ \A x, y : Warps(Trains, x, y) =>
               <<x, y>> \in {<<200000122, 200090100>>, <<220000111, 200090110>>,
                             <<200090100, A.to>>, <<200090110, B.to>>}
    BY <1>1, <1>2, <1>6, <1>7, <1>10, TwoWayLine
  <1>12. Apartness(A, B, 200000122, 200090100, 220000111, 200090110, NA, NB)
    BY <1>10, SMT DEF Apartness
  <1> HIDE DEF NA, NB
  <1>13. Charted(Trains)
    BY <1>1, <1>8, <1>9, <1>10, <1>11, <1>12, TwoRidesCharted
  <1> QED BY <1>11, <1>13

LEMMA FlightTimetabled == Timetabled(Flight) /\ Charted(Flight)
  <1> DEFINE yes == TRUE
             no == FALSE
             off == <<Warp(200000132, 200090200), Warp(240000111, 200090210),
                      Set("docked", no), Schedule("arrived", 7)>>
             arr == <<Warp(200090200, 240000100), Warp(200090210, 200000100)>>
  <1>1. /\ DocksWith(yes, no)
        /\ Flight.code = Timetable(off, arr) /\ Flight.doors = {}
    BY SMT DEF DocksWith, Dock, StopEntry, Flight, FlightTakeoff, FlightArrived
  <1>2. Answers(yes, no)
    BY DEF Answers, Affirms
  <1> HIDE DEF yes, no
  <1>3. DecksOf(Flight) = {200090200, 200090210}
    BY SMT DEF DecksOf, Flight, Ride
  <1>4. {x.to : x \in Flight.npcs} = {200000132, 240000111, 200000131, 240000110}
    BY SMT DEF Flight, FlightOrbisUsher, FlightLeafreUsher, FlightOrbisExit, FlightLeafreExit, Npc
  <1>5. {r.from : r \in Flight.rides} = {200000131, 240000110}
    BY SMT DEF Flight, Ride
  <1>6. Usual(Flight, off, arr)
    BY <1>1, <1>3, <1>4, <1>5, SMT DEF Usual
  <1>7. TwoWay(Flight, off, arr, no, 200000132, 200090200, 240000111, 200090210,
               240000100, 200000100, 7)
    BY <1>3, SMT DEF TwoWay
  <1> HIDE DEF off, arr
  <1> DEFINE A == Ride(200000131, 200000132, {200090200}, 240000100)
             B == Ride(240000110, 240000111, {200090210}, 200000100)
             NA == {200000131, 200000132}
             NB == {240000110, 240000111}
  <1>8. Flight.rides = {A, B}
    BY SMT DEF Flight
  <1>9. \A x \in Flight.npcs : (x.at \in NA => x.to \in NA) /\ (x.at \in NB => x.to \in NB)
    BY SMT DEF Flight, FlightOrbisUsher, FlightLeafreUsher, FlightOrbisExit, FlightLeafreExit, Npc
  <1>10. /\ A.from = 200000131 /\ A.room = 200000132 /\ A.decks = {200090200} /\ A.to = 240000100
         /\ B.from = 240000110 /\ B.room = 240000111 /\ B.decks = {200090210} /\ B.to = 200000100
    BY SMT DEF Ride
  <1> HIDE DEF A, B
  <1>11. /\ Timetabled(Flight)
         /\ \A x, y : Warps(Flight, x, y) =>
               <<x, y>> \in {<<200000132, 200090200>>, <<240000111, 200090210>>,
                             <<200090200, A.to>>, <<200090210, B.to>>}
    BY <1>1, <1>2, <1>6, <1>7, <1>10, TwoWayLine
  <1>12. Apartness(A, B, 200000132, 200090200, 240000111, 200090210, NA, NB)
    BY <1>10, SMT DEF Apartness
  <1> HIDE DEF NA, NB
  <1>13. Charted(Flight)
    BY <1>1, <1>8, <1>9, <1>10, <1>11, <1>12, TwoRidesCharted
  <1> QED BY <1>11, <1>13

LEMMA GeenieTimetabled == Timetabled(Geenie) /\ Charted(Geenie)
  <1> DEFINE yes == TRUE
             no == FALSE
             off == <<Warp(200000152, 200090400), Warp(260000110, 200090410),
                      Set("docked", no), Schedule("arrived", 7)>>
             arr == <<Warp(200090400, 260000100), Warp(200090410, 200000100)>>
  <1>1. /\ DocksWith(yes, no)
        /\ Geenie.code = Timetable(off, arr) /\ Geenie.doors = {}
    BY SMT DEF DocksWith, Dock, StopEntry, Geenie, GeenieTakeoff, GeenieArrived
  <1>2. Answers(yes, no)
    BY DEF Answers, Affirms
  <1> HIDE DEF yes, no
  <1>3. DecksOf(Geenie) = {200090400, 200090410}
    BY SMT DEF DecksOf, Geenie, Ride
  <1>4. {x.to : x \in Geenie.npcs} = {200000152, 260000301, 200000151, 260000100}
    BY SMT DEF Geenie, GeenieOrbisUsher, GeenieAriantUsher, GeenieOrbisExit, GeenieAriantExit, Npc
  <1>5. {r.from : r \in Geenie.rides} = {200000151, 260000100}
    BY SMT DEF Geenie, Ride
  <1>6. Usual(Geenie, off, arr)
    BY <1>1, <1>3, <1>4, <1>5, SMT DEF Usual
  <1>7. TwoWay(Geenie, off, arr, no, 200000152, 200090400, 260000110, 200090410,
               260000100, 200000100, 7)
    BY <1>3, SMT DEF TwoWay
  <1> HIDE DEF off, arr
  <1> DEFINE A == Ride(200000151, 200000152, {200090400}, 260000100)
             B == Ride(260000100, 260000301, {200090410}, 200000100)
             NA == {200000151, 200000152}
             NB == {260000100, 260000301, 260000110}
  <1>8. Geenie.rides = {A, B}
    BY SMT DEF Geenie
  <1>9. \A x \in Geenie.npcs : (x.at \in NA => x.to \in NA) /\ (x.at \in NB => x.to \in NB)
    BY SMT DEF Geenie, GeenieOrbisUsher, GeenieAriantUsher, GeenieOrbisExit, GeenieAriantExit, Npc
  <1>10. /\ A.from = 200000151 /\ A.room = 200000152 /\ A.decks = {200090400} /\ A.to = 260000100
         /\ B.from = 260000100 /\ B.room = 260000301 /\ B.decks = {200090410} /\ B.to = 200000100
    BY SMT DEF Ride
  <1> HIDE DEF A, B
  <1>11. /\ Timetabled(Geenie)
         /\ \A x, y : Warps(Geenie, x, y) =>
               <<x, y>> \in {<<200000152, 200090400>>, <<260000110, 200090410>>,
                             <<200090400, A.to>>, <<200090410, B.to>>}
    BY <1>1, <1>2, <1>6, <1>7, <1>10, TwoWayLine
  <1>12. Apartness(A, B, 200000152, 200090400, 260000110, 200090410, NA, NB)
    BY <1>10, SMT DEF Apartness
  <1> HIDE DEF NA, NB
  <1>13. Charted(Geenie)
    BY <1>1, <1>8, <1>9, <1>10, <1>11, <1>12, TwoRidesCharted
  <1> QED BY <1>11, <1>13

LEMMA AirPlaneTimetabled == Timetabled(AirPlane) /\ Charted(AirPlane)
  <1> DEFINE yes == TRUE
             no == FALSE
             off == <<Set("docked", no), Warp(540010100, 540010101),
                      Warp(540010001, 540010002), Schedule("arrived", 1)>>
             arr == <<Warp(540010002, 103000000), Warp(540010101, 540010000)>>
  <1>1. /\ DocksWith(yes, no)
        /\ AirPlane.code = Timetable(off, arr) /\ AirPlane.doors = {}
    BY SMT DEF DocksWith, Dock, StopEntry, AirPlane, AirPlaneTakeoff, AirPlaneArrived
  <1>2. Answers(yes, no)
    BY DEF Answers, Affirms
  <1> HIDE DEF yes, no
  <1>3. DecksOf(AirPlane) = {540010101, 540010002}
    BY SMT DEF DecksOf, AirPlane, Ride
  <1>4. {x.to : x \in AirPlane.npcs} = {540010001, 540010100}
    BY SMT DEF AirPlane, AirPlaneSingaporeUsher, AirPlaneKerningUsher, Npc
  <1>5. {r.from : r \in AirPlane.rides} = {540010000, 103000000}
    BY SMT DEF AirPlane, Ride
  <1>6. Usual(AirPlane, off, arr)
    BY <1>1, <1>3, <1>4, <1>5, SMT DEF Usual
  <1>7. TwoWay(AirPlane, off, arr, no, 540010100, 540010101, 540010001, 540010002,
               540010000, 103000000, 1)
    BY <1>3, SMT DEF TwoWay
  <1> HIDE DEF off, arr
  <1> DEFINE A == Ride(103000000, 540010100, {540010101}, 540010000)
             B == Ride(540010000, 540010001, {540010002}, 103000000)
             NA == {103000000, 540010100}
             NB == {540010000, 540010001}
  <1>8. AirPlane.rides = {A, B}
    BY SMT DEF AirPlane
  <1>9. \A x \in AirPlane.npcs : (x.at \in NA => x.to \in NA) /\ (x.at \in NB => x.to \in NB)
    BY SMT DEF AirPlane, AirPlaneSingaporeUsher, AirPlaneKerningUsher, Npc
  <1>10. /\ A.from = 103000000 /\ A.room = 540010100 /\ A.decks = {540010101} /\ A.to = 540010000
         /\ B.from = 540010000 /\ B.room = 540010001 /\ B.decks = {540010002} /\ B.to = 103000000
    BY SMT DEF Ride
  <1> HIDE DEF A, B
  <1>11. /\ Timetabled(AirPlane)
         /\ \A x, y : Warps(AirPlane, x, y) =>
               <<x, y>> \in {<<540010100, 540010101>>, <<540010001, 540010002>>,
                             <<540010101, A.to>>, <<540010002, B.to>>}
    BY <1>1, <1>2, <1>6, <1>7, <1>10, TwoWayLine
  <1>12. Apartness(A, B, 540010100, 540010101, 540010001, 540010002, NA, NB)
    BY <1>10, SMT DEF Apartness
  <1> HIDE DEF NA, NB
  <1>13. Charted(AirPlane)
    BY <1>1, <1>8, <1>9, <1>10, <1>11, <1>12, TwoRidesCharted
  <1> QED BY <1>11, <1>13

LEMMA SubwayTimetabled == Timetabled(Subway) /\ Charted(Subway)
  <1> DEFINE yes == TRUE
             no == FALSE
             off == <<Set("docked", no), Warp(600010004, 600010005),
                      Warp(600010002, 600010003), Schedule("arrived", 1)>>
             arr == <<Warp(600010005, 600010001), Warp(600010003, 103000100)>>
  <1>1. /\ DocksWith(yes, no)
        /\ Subway.code = Timetable(off, arr) /\ Subway.doors = {}
    BY SMT DEF DocksWith, Dock, StopEntry, Subway, SubwayTakeoff, SubwayArrived
  <1>2. Answers(yes, no)
    BY DEF Answers, Affirms
  <1> HIDE DEF yes, no
  <1>3. DecksOf(Subway) = {600010003}
    BY SMT DEF DecksOf, Subway, Ride
  <1>4. {x.to : x \in Subway.npcs} = {600010002, 600010001}
    BY SMT DEF Subway, SubwayUsher, SubwayExit, Npc
  <1>5. {r.from : r \in Subway.rides} = {600010001}
    BY SMT DEF Subway, Ride
  <1>6. Usual(Subway, off, arr)
    BY <1>1, <1>3, <1>4, <1>5, SMT DEF Usual
  <1>7. TwoWay(Subway, off, arr, no, 600010004, 600010005, 600010002, 600010003,
               600010001, 103000100, 1)
    BY <1>3, SMT DEF TwoWay
  <1> HIDE DEF off, arr
  <1> DEFINE R == Ride(600010001, 600010002, {600010003}, 103000100)
  <1>8. Subway.rides = {R}
    BY SMT DEF Subway
  <1>9. \A x \in Subway.npcs : x.to \in {600010001, 600010002}
    BY <1>4
  <1>10. R.from = 600010001 /\ R.room = 600010002 /\ R.decks = {600010003} /\ R.to = 103000100
    BY SMT DEF Ride
  <1> HIDE DEF R
  <1>11. /\ Timetabled(Subway)
         /\ \A x, y : Warps(Subway, x, y) =>
               <<x, y>> \in {<<600010004, 600010005>>, <<600010002, 600010003>>,
                             <<600010005, 600010001>>, <<600010003, 103000100>>}
    BY <1>1, <1>2, <1>6, <1>7, TwoWayLine
  <1>12. \A x : Launch(Subway, x) => x = 600010002
    BY <1>3, <1>11, SMT DEF Launch
  <1>13. Apart(Subway)
    <2>1. ASSUME NEW x, NEW y, Warps(Subway, x, y)
          PROVE  /\ ~ Launch(Subway, y) /\ \A r \in Subway.rides : y # r.room
                 /\ y \in DecksOf(Subway) => x \notin DecksOf(Subway)
                 /\ y \notin DecksOf(Subway) => \A r \in Subway.rides : x \in r.decks => y = r.to
      <3>1. \/ x = 600010004 /\ y = 600010005
            \/ x = 600010002 /\ y = 600010003
            \/ x = 600010005 /\ y = 600010001
            \/ x = 600010003 /\ y = 103000100
        BY <1>11, <2>1
      <3>2. ~ Launch(Subway, y)
        BY <1>12, <3>1, SMT
      <3> QED BY <1>3, <1>8, <1>10, <3>1, <3>2, SMT
    <2>2. \A r \in Subway.rides : ~ Launch(Subway, r.from) /\ ~ Launch(Subway, r.to)
      BY <1>8, <1>10, <1>12, SMT
    <2>3. \A r, s \in Subway.rides : /\ \A x : x \in Berths(r) /\ x \in Berths(s) => r = s
                                     /\ r.from \notin Berths(s) /\ r.to \notin Berths(s)
      BY <1>8, <1>10, SMT DEF Berths
    <2> QED BY <1>1, <2>1, <2>2, <2>3 DEF Apart
  <1>14. Shores(Subway, [x \in {600010002} |-> {600010001, 600010002}])
    <2>1. \A x, y : Warps(Subway, x, y) /\ y \in R.decks => x = 600010002
      BY <1>10, <1>11, SMT
    <2> QED BY <1>3, <1>8, <1>9, <1>10, <2>1, SMT DEF Shores
  <1> QED BY <1>11, <1>13, <1>14 DEF Charted

\* The ship has no stopEntry, an invasion of monsters, and cabins.
LEMMA BoatsTimetabled == Timetabled(Boats) /\ Charted(Boats)
  <1> DEFINE yes == TRUE
             no == FALSE
             dock == <<Set("docked", yes), Set("entry", yes), Set("haveBalrog", no),
                       Schedule("stopentry", 10), Schedule("takeoff", 5),
                       KillAll(200090000), KillAll(200090010)>>
             land == <<Warp(200090010, 200000100), Warp(200090011, 200000100),
                       Warp(200090000, 104020110), Warp(200090001, 104020110),
                       KillAll(200090010), KillAll(200090000), Set("haveBalrog", no)>>
             off == <<Warp(200000112, 200090000), Warp(104020111, 200090010),
                      Set("docked", no), Schedule("invasion", 10), Schedule("arrived", 10)>>
             raid == <<Spawn(200090000), Spawn(200090010), Set("haveBalrog", yes)>>
             shut == <<Set("entry", no)>>
             decks == {200090000, 200090001, 200090010, 200090011}
             S == Items(dock) \cup Items(land)
             c == Boats.code
  <1>1. c = [init |-> dock, stopentry |-> shut, takeoff |-> off, arrived |-> land \o dock,
             invasion |-> raid]
    BY SMT DEF Boats, BoatsDock, BoatsStopEntry, BoatsTakeoff, BoatsArrived, BoatsInvasion
  <1>2. Answers(yes, no)
    BY DEF Answers, Affirms
  <1> HIDE DEF yes, no
  <1>3. /\ Items(dock) = {Set("docked", yes), Set("entry", yes), Set("haveBalrog", no),
                          Schedule("stopentry", 10), Schedule("takeoff", 5),
                          KillAll(200090000), KillAll(200090010)}
        /\ Len(dock) = 7
    BY ItemsOf7, SMT
  <1>4. /\ Items(land) = {Warp(200090010, 200000100), Warp(200090011, 200000100),
                          Warp(200090000, 104020110), Warp(200090001, 104020110),
                          KillAll(200090010), KillAll(200090000), Set("haveBalrog", no)}
        /\ Len(land) = 7
    BY ItemsOf7, SMT
  <1>5. /\ Items(off) = {Warp(200000112, 200090000), Warp(104020111, 200090010),
                         Set("docked", no), Schedule("invasion", 10), Schedule("arrived", 10)}
        /\ Len(off) = 5
    BY ItemsOf5, SMT
  <1>6. /\ Items(raid) = {Spawn(200090000), Spawn(200090010), Set("haveBalrog", yes)}
        /\ Len(raid) = 3
    BY ItemsOf3, SMT
  <1>7. Items(shut) = {Set("entry", no)} /\ Len(shut) = 1
    BY ItemsOf1, SMT
  <1>8. dock \in Seq(S) /\ land \in Seq(S)
    <2>1. ASSUME NEW X, NEW p, NEW q, NEW r, NEW t, NEW u, NEW v, NEW w
          PROVE  <<p, q, r, t, u, v, w>> \in Seq(X \cup {p, q, r, t, u, v, w})
      BY SMT
    <2>2. S = Items(dock) \cup Items(land) /\ S = Items(land) \cup Items(dock)
      BY SMT
    <2> HIDE DEF S
    <2>3. dock \in Seq(Items(land) \cup Items(dock))
      BY <1>3, <2>1, SMT
    <2>4. land \in Seq(Items(dock) \cup Items(land))
      BY <1>4, <2>1, SMT
    <2> QED BY <2>2, <2>3, <2>4
  <1> HIDE DEF dock, land, off, raid, shut, S
  <1>9. /\ c["init"] = dock /\ c["stopentry"] = shut /\ c["takeoff"] = off
        /\ c["arrived"] = land \o dock /\ c["invasion"] = raid
        /\ DOMAIN c = {"init", "stopentry", "takeoff", "arrived", "invasion"}
    BY <1>1, SMT
  <1>10. Items(land \o dock) = Items(land) \cup Items(dock) /\ Len(land \o dock) = 14
    <2>1. Items(land \o dock) = Items(land) \cup Items(dock)
          /\ Len(land \o dock) = Len(land) + Len(dock)
      BY ONLY <1>8, ItemsOfConcatenation
    <2>2. Len(land) = 7 /\ Len(dock) = 7
      BY <1>3, <1>4
    <2> QED BY ONLY <2>1, <2>2
  <1>11. \A t \in DOMAIN c : Statements(Boats, t) = Items(c[t])
    BY DEF Statements, Items
  <1>12. /\ Statements(Boats, "init") = Items(dock)
         /\ Statements(Boats, "stopentry") = Items(shut)
         /\ Statements(Boats, "takeoff") = Items(off)
         /\ Statements(Boats, "arrived") = Items(land) \cup Items(dock)
         /\ Statements(Boats, "invasion") = Items(raid)
    BY <1>9, <1>10, <1>11
  <1>13. DecksOf(Boats) = decks
    BY SMT DEF DecksOf, Boats, Ride
  <1>14. {x.to : x \in Boats.npcs} = {200000112, 104020111, 200000111, 104020110}
    BY SMT DEF Boats, BoatsOrbisUsher, BoatsVictoriaUsher, BoatsOrbisExit, BoatsVictoriaExit, Npc
  <1>15. {r.from : r \in Boats.rides} = {200000111, 104020110}
    BY SMT DEF Boats, Ride
  <1>16. \A d \in Boats.doors : d[1] \in decks /\ d[2] \in Nat
    BY SMT DEF Boats, BoatsEastDoor, BoatsWestDoor
  <1>17. ASSUME NEW s \in Items(dock)
         PROVE  \/ s[1] = "set" /\ s[2] \in {"docked", "entry"} /\ s[3] = yes
                \/ s[1] = "set" /\ s[2] = "haveBalrog" /\ s[3] = no
                \/ s[1] = "schedule" /\ s[2] = "stopentry" /\ s[3] \in Nat \ {0}
                \/ s[1] = "schedule" /\ s[2] = "takeoff" /\ s[3] \in Nat \ {0}
                \/ s[1] = "killAll"
    BY <1>3, <1>17, Parts, SMT
  <1>18. ASSUME NEW s \in Items(land)
         PROVE  \/ s[1] = "warp" /\ s[3] \in Nat /\ s[3] \notin decks
                \/ s[1] = "killAll"
                \/ s[1] = "set" /\ s[2] = "haveBalrog" /\ s[3] = no
    BY <1>4, <1>18, Parts, SMT
  <1>19. ASSUME NEW s \in Items(off)
         PROVE  \/ s[1] = "warp" /\ s[3] \in Nat
                \/ s[1] = "set" /\ s[2] = "docked" /\ s[3] = no
                \/ s[1] = "schedule" /\ s[2] \in {"invasion", "arrived"} /\ s[3] \in Nat \ {0}
    BY <1>5, <1>19, Parts, SMT
  <1>20. ASSUME NEW s \in Items(raid)
         PROVE  \/ s[1] = "spawn" /\ s[2] \in decks
                \/ s[1] = "set" /\ s[2] = "haveBalrog" /\ s[3] = yes
    BY <1>6, <1>20, Parts, SMT
  <1>21. ASSUME NEW s \in Items(shut)
         PROVE  s[1] = "set" /\ s[2] = "entry" /\ s[3] = no
    BY <1>7, <1>21, Parts, SMT
  <1>22. \A m \in decks : \E s \in Items(land) : s[1] = "warp" /\ s[2] = m
    <2>1. \A m \in decks : \E y : Warp(m, y) \in Items(land)
      BY <1>4, SMT
    <2> QED BY <2>1, Parts
  <1>23. /\ \E s \in Items(dock) : Sets(s, "docked")
         /\ \E s \in Items(dock) : Schedules(s, "takeoff")
         /\ \E s \in Items(off) : Sets(s, "docked")
         /\ \E s \in Items(off) : Schedules(s, "arrived")
    BY <1>3, <1>5, Parts, SMT DEF Sets, Schedules
  <1>24. Boats.name = "Boats"
    BY SMT DEF Boats
  <1> HIDE DEF decks
  <1>25. WellFormed(Boats)
    <2>1. ASSUME NEW t \in DOMAIN c PROVE Len(c[t]) \in Nat \ {0}
      <3>1. /\ Len(c["init"]) \in Nat \ {0} /\ Len(c["stopentry"]) \in Nat \ {0}
            /\ Len(c["takeoff"]) \in Nat \ {0} /\ Len(c["arrived"]) \in Nat \ {0}
            /\ Len(c["invasion"]) \in Nat \ {0}
        BY <1>9, <1>3, <1>5, <1>6, <1>7, <1>10, SMT
      <3> QED BY <1>9, <3>1, Zenon
    <2>2. ASSUME NEW t \in DOMAIN c, NEW s \in Statements(Boats, t)
          PROVE  \/ s[1] = "set" /\ s[2] \in Properties /\ s[3] \in BOOLEAN
                 \/ s[1] = "schedule" /\ s[2] \in DOMAIN c /\ s[3] \in Nat \ {0}
                 \/ s[1] = "warp" /\ s[3] \in Nat
                 \/ s[1] = "killAll"
                 \/ s[1] = "spawn" /\ s[2] \in decks
      BY <1>9, <1>2, <1>12, <1>17, <1>18, <1>19, <1>20, <1>21, <2>2, SMT DEF Answers, Properties
    <2>3. \A n \in Boats.npcs : n.to \in Nat /\ n.to \notin decks
      BY <1>14, SMT DEF decks
    <2>4. \A r \in Boats.rides : r.from \in Nat /\ r.from \notin decks
      BY <1>15, SMT DEF decks
    <2> QED BY <1>13, <1>16, <2>1, <2>2, <2>3, <2>4, Zenon DEF WellFormed
  <1>26. Rounds(Boats)
    <2>1. ASSUME NEW t \in DOMAIN c, NEW s \in Statements(Boats, t)
          PROVE  /\ Sets(s, "docked") => IF Affirms(s[3]) THEN t \in Docks ELSE t = "takeoff"
                 /\ ~ Schedules(s, "init")
                 /\ Schedules(s, "takeoff") => t \in Docks
                 /\ Schedules(s, "arrived") => t = "takeoff"
                 /\ s[1] = "warp" => \/ t = "takeoff"
                                     \/ t = "arrived" /\ s[3] \notin decks
      <3>1. CASE t = "init"
        BY <1>2, <1>12, <1>17, <2>1, <3>1, SMT DEF Answers, Sets, Schedules, Docks
      <3>2. CASE t = "arrived"
        BY <1>2, <1>12, <1>17, <1>18, <2>1, <3>2, SMT DEF Answers, Sets, Schedules, Docks
      <3>3. CASE t = "takeoff"
        BY <1>2, <1>12, <1>19, <2>1, <3>3, SMT DEF Answers, Sets, Schedules, Docks
      <3>4. CASE t = "stopentry"
        BY <1>2, <1>12, <1>21, <2>1, <3>4, SMT DEF Answers, Sets, Schedules, Docks
      <3>5. CASE t = "invasion"
        BY <1>2, <1>12, <1>20, <2>1, <3>5, SMT DEF Answers, Sets, Schedules, Docks
      <3> QED BY <1>9, <3>1, <3>2, <3>3, <3>4, <3>5
    <2>2. \A t \in Docks : /\ \E s \in Statements(Boats, t) : Sets(s, "docked")
                           /\ \E s \in Statements(Boats, t) : Schedules(s, "takeoff")
      BY <1>12, <1>23, SMT DEF Docks
    <2>3. MainTasks \subseteq DOMAIN c
      BY <1>9 DEF MainTasks
    <2> QED BY <1>12, <1>13, <1>22, <1>23, <2>1, <2>2, <2>3, Zenon DEF Rounds, Affirms
  <1> DEFINE A == Ride(200000111, 200000112, {200090000, 200090001}, 104020110)
             B == Ride(104020110, 104020111, {200090010, 200090011}, 200000100)
             NA == {200000111, 200000112}
             NB == {104020110, 104020111}
  <1>27. Boats.rides = {A, B}
    BY SMT DEF Boats
  <1>28. \A x \in Boats.npcs : (x.at \in NA => x.to \in NA) /\ (x.at \in NB => x.to \in NB)
    BY SMT DEF Boats, BoatsOrbisUsher, BoatsVictoriaUsher, BoatsOrbisExit, BoatsVictoriaExit, Npc
  <1>29. /\ A.from = 200000111 /\ A.room = 200000112 /\ A.to = 104020110
         /\ A.decks = {200090000, 200090001}
         /\ B.from = 104020110 /\ B.room = 104020111 /\ B.to = 200000100
         /\ B.decks = {200090010, 200090011}
    BY SMT DEF Ride
  <1> HIDE DEF A, B
  <1>30. ASSUME NEW x, NEW y, Warps(Boats, x, y)
         PROVE  \/ x = 200000112 /\ y = 200090000
                \/ x = 104020111 /\ y = 200090010
                \/ x \in B.decks /\ y = B.to
                \/ x \in A.decks /\ y = A.to
    <2>1. PICK t \in DOMAIN c : \E s \in Statements(Boats, t) : s[1] = "warp" /\ s[2] = x /\ s[3] = y
      BY <1>30 DEF Warps
    <2>2. PICK s \in Statements(Boats, t) : s[1] = "warp" /\ s[2] = x /\ s[3] = y
      BY <2>1
    <2>3. s \in Items(land) \cup Items(off)
      BY <1>9, <1>12, <1>17, <1>20, <1>21, <2>2
    <2>4. CASE s \in Items(off)
      <3>1. s = Warp(200000112, 200090000) \/ s = Warp(104020111, 200090010)
        BY <1>5, <2>2, <2>4, Parts
      <3> QED BY <2>2, <3>1, Parts
    <2>5. CASE s \in Items(land)
      <3>1. \/ s = Warp(200090010, 200000100)
            \/ s = Warp(200090011, 200000100)
            \/ s = Warp(200090000, 104020110)
            \/ s = Warp(200090001, 104020110)
        BY <1>4, <2>2, <2>5, Parts
      <3>2. \/ x \in {200090010, 200090011} /\ y = 200000100
            \/ x \in {200090000, 200090001} /\ y = 104020110
        BY <2>2, <3>1, Parts
      <3> QED BY <1>29, <3>2
    <2> QED BY <2>3, <2>4, <2>5
  <1>31. \A x : Launch(Boats, x) => x \in {200000112, 104020111}
    BY <1>13, <1>29, <1>30, SMT DEF Launch, decks
  <1>32. Apart(Boats)
    <2>1. ASSUME NEW x, NEW y, Warps(Boats, x, y)
          PROVE  /\ ~ Launch(Boats, y) /\ \A r \in Boats.rides : y # r.room
                 /\ y \in DecksOf(Boats) => x \notin DecksOf(Boats)
                 /\ y \notin DecksOf(Boats) => \A r \in Boats.rides : x \in r.decks => y = r.to
      <3>1. \/ x = 200000112 /\ y = 200090000
            \/ x = 104020111 /\ y = 200090010
            \/ x \in B.decks /\ y = B.to
            \/ x \in A.decks /\ y = A.to
        BY <1>30, <2>1
      <3>2. ~ Launch(Boats, y)
        BY <1>29, <1>31, <3>1, SMT
      <3> QED BY <1>13, <1>27, <1>29, <3>1, <3>2, SMT DEF decks
    <2>2. \A r \in Boats.rides : ~ Launch(Boats, r.from) /\ ~ Launch(Boats, r.to)
      BY <1>27, <1>29, <1>31, SMT
    <2>3. \A r, s \in Boats.rides : /\ \A x : x \in Berths(r) /\ x \in Berths(s) => r = s
                                    /\ r.from \notin Berths(s) /\ r.to \notin Berths(s)
      BY <1>27, <1>29, SMT DEF Berths
    <2>4. \A d \in Boats.doors, r \in Boats.rides : d[1] \in r.decks => d[2] \in r.decks
      <3>1. \A d \in Boats.doors :
               \/ d[1] \in {200090000, 200090001} /\ d[2] \in {200090000, 200090001}
               \/ d[1] \in {200090010, 200090011} /\ d[2] \in {200090010, 200090011}
        BY SMT DEF Boats, BoatsEastDoor, BoatsWestDoor
      <3> QED BY <1>27, <1>29, <3>1, SMT
    <2> QED BY <2>1, <2>2, <2>3, <2>4 DEF Apart
  <1>33. \E N : Shores(Boats, N)
    <2>1. A.room # B.room
      BY <1>29, SMT
    <2>2. ShoreOf(Boats, A, NA)
      <3>1. ASSUME NEW x, NEW y, Warps(Boats, x, y), y \in A.decks
            PROVE  x \in NA
        BY <1>29, <1>30, <3>1, SMT
      <3> QED BY <1>13, <1>27, <1>28, <1>29, <3>1, SMT DEF ShoreOf, decks
    <2>3. ShoreOf(Boats, B, NB)
      <3>1. ASSUME NEW x, NEW y, Warps(Boats, x, y), y \in B.decks
            PROVE  x \in NB
        BY <1>29, <1>30, <3>1, SMT
      <3> QED BY <1>13, <1>27, <1>28, <1>29, <3>1, SMT DEF ShoreOf, decks
    <2> HIDE DEF NA, NB
    <2> QED BY <1>27, <2>1, <2>2, <2>3, TwoShores
  <1> QED BY <1>24, <1>25, <1>26, <1>32, <1>33 DEF Timetabled, Gated, Charted

LEMMA AllTimetabled == \A l \in AllLines : Timetabled(l) /\ Charted(l)
  BY BoatsTimetabled, TrainsTimetabled, FlightTimetabled, GeenieTimetabled, AirPlaneTimetabled,
     SubwayTimetabled DEF AllLines

-----------------------------------------------------------------------------
(* The theorems.                                                           *)

LEMMA TransportInvHolds ==
    ASSUME \A l \in Lines : Timetabled(l)
    PROVE  Spec => []TransportInv
  <1>1. Init => TransportInv
    BY InitTransportInv
  <1>2. TransportInv /\ [Next]_vars => TransportInv'
    BY NextTransportInv
  <1> QED BY <1>1, <1>2, PTL DEF Spec

LEMMA InvShuts == TransportInv => GateShutOnRide
  <1>1. SUFFICES ASSUME TransportInv, Quiet, ~ prop["docked"], line.name # "Boats"
                 PROVE  ~ prop["entry"]
    BY DEF GateShutOnRide
  <1>2. \A t \in Task : ~ Running(t)
    BY <1>1 DEF Quiet, Running
  <1>3. MainTasks \subseteq Task /\ Docks \subseteq Task /\ "stopEntry" \in Task
    BY <1>1, MainTasksAre DEF TransportInv
  <1>4. "takeoff" \notin armed
    BY <1>1, <1>2, <1>3 DEF TransportInv, Round, Between
  <1> QED BY <1>1, <1>2, <1>3, <1>4 DEF TransportInv, Gate, GateShuts

LEMMA InvSweeps == TransportInv => NoStowaway
  <1>1. SUFFICES ASSUME TransportInv, Quiet, prop["docked"], NEW p \in Passenger
                 PROVE  online[p] /\ Aboard(p) => own[p]
    BY DEF NoStowaway
  <1>2. \A t \in MainTasks : ~ Running(t)
    BY <1>1, MainTasksAre DEF TransportInv, Quiet, Running
  <1>3. "takeoff" \in armed
    BY <1>1, <1>2 DEF TransportInv, Round, Between
  <1> QED BY <1>1, <1>2, <1>3 DEF TransportInv, Swept, Left

LEMMA TransportInvOfScripts ==
    ASSUME Lines \subseteq AllLines
    PROVE  Spec => []TransportInv
  BY AllTimetabled, TransportInvHolds

\* The state of EventManager, of its timers and of its passengers keeps its
\* types, and no function runs past its last statement.
THEOREM TransportTyped ==
    ASSUME Lines \subseteq AllLines
    PROVE  Spec => []TypeOK
  <1>1. TransportInv => TypeOK
    BY DEF TransportInv
  <1> QED BY <1>1, TransportInvOfScripts, PTL

\* While the vehicle is away its usher lets nobody in: on every line but the
\* ship's, stopEntry has run before takeoff is due, whatever the pool's threads
\* do in between.
THEOREM GateStaysShut ==
    ASSUME Lines \subseteq AllLines
    PROVE  Spec => []GateShutOnRide
  BY InvShuts, TransportInvOfScripts, PTL

\* When a ship has docked, on any of the lines and for any number of
\* passengers, only those are aboard who came by a door or a login while it
\* landed, or whose warp was refused.
THEOREM NobodyStowsAway ==
    ASSUME Lines \subseteq AllLines
    PROVE  Spec => []NoStowaway
  BY InvSweeps, TransportInvOfScripts, PTL

\* Whoever the script sets down at an end of a line is where its usher said
\* that the ride would take it, on any of the six lines, the genie included:
\* though a warp takes whom its list names wherever it is by then, nobody on a
\* list has got to another ride.
THEOREM RidesEndAsPromised ==
    ASSUME Lines \subseteq AllLines
    PROVE  Spec => Delivered
  <1> DEFINE Delivers ==
        \A p \in Passenger :
          /\ talk'[p] = talk[p]
          /\ Aboard(p)
          /\ place'[p] # place[p]
          /\ place'[p] \notin Decks
          => bound[p] \in {Nowhere, place'[p]}
  <1>1. Init => RideInv
    BY AllTimetabled, InitRideInv
  <1>2. RideInv /\ [Next]_vars => RideInv'
    BY NextRideInv
  <1>3. RideInv /\ [Next]_vars => Delivers
    BY StepDelivers
  <1>4. Spec => [][Delivers]_vars
    BY <1>1, <1>2, <1>3, PTL DEF Spec
  <1> QED BY <1>4 DEF Delivered
=============================================================================
