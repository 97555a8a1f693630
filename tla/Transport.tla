------------------------------ MODULE Transport ------------------------------
(***************************************************************************)
(* Ships, trains and planes: an event script whose functions schedule one  *)
(* another (EventManager.schedule), the passengers they warp               *)
(* (EventManager.warpAllPlayer), and the conversations that let passengers *)
(* in and out.  The scripts are data (TransportScripts); this module runs  *)
(* them.  A due function runs on a thread of EventTimer's pool, so two     *)
(* that are due together overlap, and a warp goes through a copy of the    *)
(* list of the map's characters.  Time is counted in minutes.              *)
(***************************************************************************)
EXTENDS Naturals, Sequences, FiniteSets

CONSTANTS Passenger,   \* the players
          Lines,       \* the scripts considered, records of TransportScripts
          MaxTests,    \* bound: lie detector tests per passenger
          MaxLogouts   \* bound: disconnections per passenger

ASSUME BoundsAssumption == MaxTests \in Nat /\ MaxLogouts \in Nat

VARIABLES line,      \* the script of this behaviour, chosen once
          prop,      \* EventManager.props, as Booleans
          monsters,  \* the maps with monsters on board
          armed,     \* the functions that are scheduled
          due,       \* minutes until a scheduled function runs
          pc,        \* the statement a running function is at, 0 if none
          caught,    \* characters in the list of the warp under way
          place,     \* the map of each passenger
          online,    \* whether it is on the channel
          talk,      \* the person whose question it has not answered
          testing,   \* antiMacro.inProgress
          tests, logouts,
          bound,     \* history: the end that its usher promised, or Nowhere
          own        \* history: it came or stayed aboard while the ship landed

timerVars == << armed, due >>
passengerVars == << place, online, talk, testing, tests, logouts, bound, own >>
vars == << line, prop, monsters, armed, due, pc, caught, passengerVars >>

Nowhere == 0
NoTalk == [at |-> Nowhere, asks |-> "any", admits |-> "any", to |-> Nowhere]
Properties == {"docked", "entry", "haveBalrog"}
Task == DOMAIN line.code
Statement(t) == line.code[t][pc[t]]
Doing(t, what) == pc[t] # 0 /\ Statement(t)[1] = what

Rooms == {r.room : r \in line.rides}
Decks == UNION {r.decks : r \in line.rides}
Ends == {r.to : r \in line.rides}
Starts == {r.from : r \in line.rides}
Aboard(p) == place[p] \in Decks

\* The ship is docked or about to be.
Landing == prop["docked"] \/ (pc["arrived"] # 0)

\* Where the usher who sends to map m promises the ride will end.
Promised(m) ==
    IF m \in Rooms THEN (CHOOSE r \in line.rides : r.room = m).to ELSE Nowhere

\* No function of the script is running or due.
Quiet == \A t \in Task : pc[t] = 0 /\ (t \in armed => due[t] > 0)

TypeOK ==
    /\ line \in Lines
    /\ prop \in [Properties -> BOOLEAN]
    /\ monsters \subseteq Decks
    /\ armed \subseteq Task
    /\ due \in [Task -> Nat]
    /\ pc \in [Task -> Nat]
    /\ \A t \in Task : pc[t] <= Len(line.code[t])
    /\ caught \in [Task -> SUBSET Passenger]
    /\ place \in [Passenger -> Nat]
    /\ talk \in [Passenger -> line.npcs \cup {NoTalk}]
    /\ online \in [Passenger -> BOOLEAN]
    /\ testing \in [Passenger -> BOOLEAN]
    /\ tests \in [Passenger -> 0 .. MaxTests]
    /\ logouts \in [Passenger -> 0 .. MaxLogouts]
    /\ bound \in [Passenger -> Ends \cup {Nowhere}]
    /\ own \in [Passenger -> BOOLEAN]

Init ==
    /\ line \in Lines
    /\ prop = [x \in Properties |-> FALSE]
    /\ monsters = {}
    /\ armed = {}
    /\ due = [t \in Task |-> 0]
    /\ pc = [t \in Task |-> IF t = "init" THEN 1 ELSE 0]
    /\ caught = [t \in Task |-> {}]
    /\ place \in [Passenger -> Starts]
    /\ online = [p \in Passenger |-> TRUE]
    /\ talk = [p \in Passenger |-> NoTalk]
    /\ testing = [p \in Passenger |-> FALSE]
    /\ tests = [p \in Passenger |-> 0]
    /\ logouts = [p \in Passenger |-> 0]
    /\ bound = [p \in Passenger |-> Nowhere]
    /\ own = [p \in Passenger |-> FALSE]

-----------------------------------------------------------------------------
(* The timer and the statements of the scripts.                            *)

\* A minute passes.  A due function runs at once, and in much less than one.
Tick ==
    /\ Quiet
    /\ due' = [t \in Task |-> IF t \in armed THEN due[t] - 1 ELSE due[t]]
    /\ UNCHANGED << line, prop, monsters, armed, pc, caught, passengerVars >>

Fire(t) ==
    /\ t \in armed /\ due[t] = 0 /\ pc[t] = 0
    /\ armed' = armed \ {t}
    /\ pc' = [pc EXCEPT ![t] = 1]
    /\ UNCHANGED << line, prop, monsters, due, caught, passengerVars >>

AdvanceTooFar(t) ==
    pc' = [pc EXCEPT ![t] = IF @ > Len(line.code[t]) THEN 0 ELSE @ + 1]

\* The program counter of t after its statement: the next one, or the end.
Advance(t) ==
    pc' = [pc EXCEPT ![t] = IF @ = Len(line.code[t]) THEN 0 ELSE @ + 1]

SetProperty(t) ==
    /\ Doing(t, "set")
    /\ prop' = [prop EXCEPT ![Statement(t)[2]] = Statement(t)[3]]
    /\ Advance(t)
    /\ UNCHANGED << line, monsters, timerVars, caught, passengerVars >>

ScheduleTask(t) ==
    /\ Doing(t, "schedule")
    /\ armed' = armed \cup {Statement(t)[2]}
    /\ due' = [due EXCEPT ![Statement(t)[2]] = Statement(t)[3]]
    /\ Advance(t)
    /\ UNCHANGED << line, prop, monsters, caught, passengerVars >>

KillAllMonsters(t) ==
    /\ Doing(t, "killAll")
    /\ monsters' = monsters \ {Statement(t)[2]}
    /\ Advance(t)
    /\ UNCHANGED << line, prop, timerVars, caught, passengerVars >>

SpawnMonsters(t) ==
    /\ Doing(t, "spawn")
    /\ monsters' = monsters \cup {Statement(t)[2]}
    /\ Advance(t)
    /\ UNCHANGED << line, prop, timerVars, caught, passengerVars >>

\* warpAllPlayer copies the list of those who are on the map now.
CopyCharacters(t) ==
    /\ Doing(t, "warp") /\ caught[t] = {}
    /\ LET there == {p \in Passenger : online[p] /\ place[p] = Statement(t)[2]} IN
       /\ caught' = [caught EXCEPT ![t] = there]
       /\ IF there = {} THEN Advance(t) ELSE UNCHANGED pc
    /\ UNCHANGED << line, prop, monsters, timerVars, passengerVars >>

\* changeMap of one of them, wherever it is by now: refused during a test, and
\* without effect on somebody who has left the channel.
WarpOne(t, p) ==
    /\ Doing(t, "warp") /\ p \in caught[t]
    /\ caught' = [caught EXCEPT ![t] = @ \ {p}]
    /\ IF caught[t] = {p} THEN Advance(t) ELSE UNCHANGED pc
    /\ IF online[p] /\ ~testing[p]
       THEN /\ place' = [place EXCEPT ![p] = Statement(t)[3]]
            /\ bound' = [bound EXCEPT ![p] =
                           IF Statement(t)[3] \in Decks THEN @ ELSE Nowhere]
            /\ own' = [own EXCEPT ![p] = FALSE]
       ELSE /\ own' = [own EXCEPT ![p] = Landing]
            /\ UNCHANGED << place, bound >>
    /\ UNCHANGED << line, prop, monsters, timerVars, online, talk, testing,
                    tests, logouts >>

TaskStep(t) ==
    \/ Fire(t)
    \/ SetProperty(t)
    \/ ScheduleTask(t)
    \/ KillAllMonsters(t)
    \/ SpawnMonsters(t)
    \/ CopyCharacters(t)
    \/ \E p \in Passenger : WarpOne(t, p)

-----------------------------------------------------------------------------
(* The passengers.                                                         *)

scriptVars == << line, prop, monsters, armed, due, pc, caught >>

\* Status 0 of a conversation.  It stays open when the player is moved.
Ask(p, n) ==
    /\ online[p] /\ talk[p] = NoTalk
    /\ n.at = place[p]
    /\ n.asks = "open" => prop["entry"]
    /\ talk' = [talk EXCEPT ![p] = n]
    /\ UNCHANGED << scriptVars, place, online, testing, tests, logouts, bound, own >>

Admitted(n) == n.admits = "closed" => ~prop["entry"]

\* "Yes": cm.warp, wherever the player is by now.
Yes(p) ==
    /\ online[p] /\ talk[p] # NoTalk
    /\ talk' = [talk EXCEPT ![p] = NoTalk]
    /\ IF Admitted(talk[p]) /\ ~testing[p]
       THEN /\ place' = [place EXCEPT ![p] = talk[p].to]
            /\ bound' = [bound EXCEPT ![p] = Promised(talk[p].to)]
       ELSE UNCHANGED << place, bound >>
    /\ UNCHANGED << scriptVars, online, testing, tests, logouts, own >>

No(p) ==
    /\ online[p] /\ talk[p] # NoTalk
    /\ talk' = [talk EXCEPT ![p] = NoTalk]
    /\ UNCHANGED << scriptVars, place, online, testing, tests, logouts, bound, own >>

\* Through a door between deck and cabin.
Door(p) ==
    /\ online[p] /\ ~testing[p]
    /\ \E d \in line.doors : place[p] = d[1] /\ place' = [place EXCEPT ![p] = d[2]]
    /\ own' = [own EXCEPT ![p] = Landing]
    /\ UNCHANGED << scriptVars, online, talk, testing, tests, logouts, bound >>

\* On foot from where one ride ends to where another begins (map data).
Walk(p) ==
    /\ online[p] /\ ~testing[p]
    /\ \E r, s \in line.rides : /\ r.to # s.to /\ place[p] = r.to
                                /\ place' = [place EXCEPT ![p] = s.from]
    /\ UNCHANGED << scriptVars, online, talk, testing, tests, logouts, bound, own >>

StartTest(p) ==
    /\ online[p] /\ ~testing[p] /\ tests[p] < MaxTests
    /\ testing' = [testing EXCEPT ![p] = TRUE]
    /\ tests' = [tests EXCEPT ![p] = @ + 1]
    /\ UNCHANGED << scriptVars, place, online, talk, logouts, bound, own >>

EndTest(p) ==
    /\ testing[p]
    /\ testing' = [testing EXCEPT ![p] = FALSE]
    /\ UNCHANGED << scriptVars, place, online, talk, tests, logouts, bound, own >>

\* The connection ends; conversation and test end with it, the map is saved.
LogOut(p) ==
    /\ online[p] /\ logouts[p] < MaxLogouts
    /\ online' = [online EXCEPT ![p] = FALSE]
    /\ talk' = [talk EXCEPT ![p] = NoTalk]
    /\ testing' = [testing EXCEPT ![p] = FALSE]
    /\ logouts' = [logouts EXCEPT ![p] = @ + 1]
    /\ UNCHANGED << scriptVars, place, tests, bound, own >>

LogIn(p) ==
    /\ ~online[p]
    /\ online' = [online EXCEPT ![p] = TRUE]
    /\ own' = [own EXCEPT ![p] = Landing]
    /\ UNCHANGED << scriptVars, place, talk, testing, tests, logouts, bound >>

Next ==
    \/ Tick
    \/ \E t \in Task : TaskStep(t)
    \/ \E p \in Passenger :
          \/ \E n \in line.npcs : Ask(p, n)
          \/ Yes(p)
          \/ No(p)
          \/ Door(p)
          \/ Walk(p)
          \/ StartTest(p)
          \/ EndTest(p)
          \/ LogOut(p)
          \/ LogIn(p)

\* All tasks a script may have; WF needs a constant set.
TaskNames == {"init", "stopEntry", "stopentry", "takeoff", "arrived", "invasion"}

\* The timer's clock and threads run; a test has a time limit of its own.  The
\* passengers owe nothing.
Fairness ==
    /\ WF_vars(Tick)
    /\ \A t \in TaskNames : WF_vars(t \in Task /\ TaskStep(t))
    /\ \A p \in Passenger : WF_vars(EndTest(p))

Spec == Init /\ [][Next]_vars /\ Fairness

-----------------------------------------------------------------------------
(* Properties.                                                             *)

\* Whoever waits in a waiting room or rides on a deck does not stay there for
\* ever: takeoff and arrived find it at the latest in the next round, whatever
\* it missed while its warp was refused, it was offline or it opened a door.
Travels(p) == online[p] /\ place[p] \in Rooms \cup Decks
Served ==
    \A p \in Passenger :
        []<>~Travels(p) \/ []<><<place'[p] # place[p]>>_vars

\* A passenger the script sets down at an end of the line is where its usher
\* said the ride would take it.
Delivered ==
    [][\A p \in Passenger :
          /\ talk'[p] = talk[p]
          /\ Aboard(p)
          /\ place'[p] # place[p]
          /\ place'[p] \notin Decks
          => bound[p] \in {Nowhere, place'[p]}]_vars

\* When a ship has docked, nobody is left on it whom the script brought there:
\* only who opened a door or logged in while it landed, or whose warp was
\* refused.
NoStowaway ==
    Quiet /\ prop["docked"] =>
        \A p \in Passenger : online[p] /\ Aboard(p) => own[p]

\* The gate is closed while the vehicle is away: the usher lets nobody into a
\* room that takeoff has just emptied.  Not so on the ship to Victoria Island,
\* whose stopentry is due five minutes after its takeoff.
GateShutOnRide ==
    Quiet /\ ~prop["docked"] /\ line.name # "Boats" => ~prop["entry"]

-----------------------------------------------------------------------------
(* What the code does not keep: these are stated for the reader, and fail.  *)

\* The monsters are announced only while the ship is away.  Violated: they are
\* due when the ship arrives (Boats.js).
BalrogAtSea == Quiet /\ prop["haveBalrog"] => ~prop["docked"]

\* Nobody is let into a waiting room from outside while the gate is shut and
\* was shut when it was asked.  Violated by the usher in Singapore, who tests
\* the gate the other way round (9270038.js).
LetInByOpenGate ==
    [][\A p \in Passenger :
          /\ talk[p] # NoTalk
          /\ talk[p].asks # "open"
          /\ place[p] \in Starts
          /\ place'[p] \in Rooms
          => prop["entry"]]_vars
=============================================================================
