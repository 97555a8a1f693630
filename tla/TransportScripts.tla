-------------------------- MODULE TransportScripts --------------------------
(***************************************************************************)
(* The scripts of the scheduled lines (scripts/event/Boats.js and its      *)
(* likes), each with the people who let passengers in and out              *)
(* (scripts/npc) and the doors on board (scripts/portal), as data for      *)
(* module Transport.  A map is its number.  A task is the sequence of its  *)
(* statements; what only the clients see (broadcastShip, the music) and    *)
(* the reactors are left out.  A minute is 60000 in em.schedule.           *)
(***************************************************************************)
EXTENDS Naturals, Sequences

Set(property, value) == <<"set", property, value>>
Schedule(task, minutes) == <<"schedule", task, minutes>>
Warp(from, to) == <<"warp", from, to>>
KillAll(map) == <<"killAll", map>>
Spawn(map) == <<"spawn", map>>

\* A person a passenger can talk to on the map "at", who sends it to "to".
\* asks: on which side of the gate the question is put at all ("open", "any").
\* admits: on which side of the gate a "yes" is honoured ("any", "closed").
Npc(at, asks, admits, to) ==
    [at |-> at, asks |-> asks, admits |-> admits, to |-> to]

\* What the ushers of a line promise: who is let in at "from" waits in "room",
\* rides on "decks" and gets off at "to".
Ride(from, room, decks, to) ==
    [from |-> from, room |-> room, decks |-> decks, to |-> to]

-----------------------------------------------------------------------------
\* The ship between Orbis and Victoria Island.

BoatsDock ==
    << Set("docked", TRUE), Set("entry", TRUE), Set("haveBalrog", FALSE),
       Schedule("stopentry", 10), Schedule("takeoff", 5),
       KillAll(200090000), KillAll(200090010) >>

BoatsStopEntry == << Set("entry", FALSE) >>

BoatsTakeoffOneWay ==
    << Warp(200000112, 200090000), Set("docked", FALSE),
       Schedule("invasion", 10), Schedule("arrived", 10) >>

BoatsTakeoff ==
    << Warp(200000112, 200090000), Warp(104020111, 200090010),
       Set("docked", FALSE), Schedule("invasion", 10), Schedule("arrived", 10) >>

BoatsArrivedCrossed ==
    << Warp(200090010, 104020110), Warp(200090011, 104020110),
       Warp(200090000, 200000100), Warp(200090001, 200000100),
       KillAll(200090010), KillAll(200090000), Set("haveBalrog", FALSE) >>
    \o BoatsDock

BoatsArrivedDecksOnly ==
    << Warp(200090010, 200000100), Warp(200090000, 104020110),
       KillAll(200090010), KillAll(200090000), Set("haveBalrog", FALSE) >>
    \o BoatsDock

BoatsArrived ==
    << Warp(200090010, 200000100), Warp(200090011, 200000100),
       Warp(200090000, 104020110), Warp(200090001, 104020110),
       KillAll(200090010), KillAll(200090000), Set("haveBalrog", FALSE) >>
    \o BoatsDock

BoatsInvasion ==
    << Spawn(200090000), Spawn(200090010), Set("haveBalrog", TRUE) >>

BoatsOrbisUsher == Npc(200000111, "open", "any", 200000112)
BoatsVictoriaUsher == Npc(104020110, "open", "any", 104020111)
BoatsOrbisExit == Npc(200000112, "any", "any", 200000111)
BoatsVictoriaExit == Npc(104020111, "any", "any", 104020110)

\* The doors between deck and cabin; those to the cabin are map data.
BoatsEastDoor == << 200090001, 200090000 >>
BoatsWestDoor == << 200090011, 200090010 >>

Boats ==
    [ name |-> "Boats",
      code |-> [ init |-> BoatsDock, stopentry |-> BoatsStopEntry,
                 takeoff |-> BoatsTakeoff, arrived |-> BoatsArrived,
                 invasion |-> BoatsInvasion ],
      npcs |-> {BoatsOrbisUsher, BoatsVictoriaUsher,
                BoatsOrbisExit, BoatsVictoriaExit},
      doors |-> {BoatsEastDoor, BoatsWestDoor,
                 << 200090000, 200090001 >>, << 200090010, 200090011 >>},
      rides |-> {Ride(200000111, 200000112, {200090000, 200090001}, 104020110),
                 Ride(104020110, 104020111, {200090010, 200090011}, 200000100)} ]

-----------------------------------------------------------------------------
\* The other lines differ in their maps and in the length of the ride.

DockGateLate ==
    << Set("docked", TRUE), Set("entry", TRUE),
       Schedule("stopEntry", 6), Schedule("takeoff", 5) >>

\* What scheduleNew does on all of them.
Dock ==
    << Set("docked", TRUE), Set("entry", TRUE),
       Schedule("stopEntry", 4), Schedule("takeoff", 5) >>

StopEntry == << Set("entry", FALSE) >>

Timetable(takeoff, arrived) ==
    [ init |-> Dock, stopEntry |-> StopEntry, takeoff |-> takeoff,
      arrived |-> arrived \o Dock ]

\* The train between Orbis and Ludibrium.
TrainsTakeoff ==
    << Warp(200000122, 200090100), Warp(220000111, 200090110),
       Set("docked", FALSE), Schedule("arrived", 7) >>
TrainsArrivedCrossed ==
    << Warp(200090100, 200000121), Warp(200090110, 220000110) >>
TrainsArrived == << Warp(200090100, 220000110), Warp(200090110, 200000121) >>
TrainsOrbisUsher == Npc(200000121, "open", "any", 200000122)
TrainsLudiUsher == Npc(220000110, "open", "any", 220000111)
\* One person works in both rooms, and sends everybody of the one in Orbis to
\* 220000121.
TrainsExits == { Npc(220000111, "any", "any", 220000110),
                 Npc(200000122, "any", "any", 220000121) }
Trains ==
    [ name |-> "Trains",
      code |-> Timetable(TrainsTakeoff, TrainsArrived),
      npcs |-> {TrainsOrbisUsher, TrainsLudiUsher} \cup TrainsExits,
      doors |-> {},
      rides |-> {Ride(200000121, 200000122, {200090100}, 220000110),
                 Ride(220000110, 220000111, {200090110}, 200000121)} ]

\* The cabin between Orbis and Leafre.
FlightTakeoffOneWay ==
    << Warp(200000132, 200090200), Set("docked", FALSE), Schedule("arrived", 7) >>
FlightTakeoff ==
    << Warp(200000132, 200090200), Warp(240000111, 200090210),
       Set("docked", FALSE), Schedule("arrived", 7) >>
FlightArrived == << Warp(200090200, 240000100), Warp(200090210, 200000100) >>
FlightOrbisUsher == Npc(200000131, "open", "any", 200000132)
FlightLeafreUsher == Npc(240000110, "open", "any", 240000111)
FlightOrbisExit == Npc(200000132, "any", "any", 200000131)
FlightLeafreExit == Npc(240000111, "any", "any", 240000110)
Flight ==
    [ name |-> "Flight",
      code |-> Timetable(FlightTakeoff, FlightArrived),
      npcs |-> {FlightOrbisUsher, FlightLeafreUsher,
                FlightOrbisExit, FlightLeafreExit},
      doors |-> {},
      rides |-> {Ride(200000131, 200000132, {200090200}, 240000100),
                 Ride(240000110, 240000111, {200090210}, 200000100)} ]

\* The genie between Orbis and Ariant.
GeenieTakeoff ==
    << Warp(200000152, 200090400), Warp(260000110, 200090410),
       Set("docked", FALSE), Schedule("arrived", 7) >>
GeenieArrived == << Warp(200090400, 260000100), Warp(200090410, 200000100) >>
GeenieOrbisUsher == Npc(200000151, "open", "any", 200000152)
GeenieAriantUsher == Npc(260000100, "open", "any", 260000301)
GeenieOrbisExit == Npc(200000152, "any", "any", 200000151)
GeenieAriantExit == Npc(260000110, "any", "any", 260000100)
Geenie ==
    [ name |-> "Geenie",
      code |-> Timetable(GeenieTakeoff, GeenieArrived),
      npcs |-> {GeenieOrbisUsher, GeenieAriantUsher,
                GeenieOrbisExit, GeenieAriantExit},
      doors |-> {},
      rides |-> {Ride(200000151, 200000152, {200090400}, 260000100),
                 Ride(260000100, 260000301, {200090410}, 200000100)} ]

\* The plane between Singapore and Kerning City.
AirPlaneTakeoff ==
    << Set("docked", FALSE), Warp(540010100, 540010101),
       Warp(540010001, 540010002), Schedule("arrived", 1) >>
AirPlaneArrived == << Warp(540010002, 103000000), Warp(540010101, 540010000) >>
AirPlaneSingaporeUsher == Npc(540010000, "any", "closed", 540010001)
AirPlaneKerningUsher == Npc(103000000, "open", "any", 540010100)
AirPlane ==
    [ name |-> "AirPlane",
      code |-> Timetable(AirPlaneTakeoff, AirPlaneArrived),
      npcs |-> {AirPlaneSingaporeUsher, AirPlaneKerningUsher},
      doors |-> {},
      rides |-> {Ride(540010000, 540010001, {540010002}, 103000000),
                 Ride(103000000, 540010100, {540010101}, 540010000)} ]

\* The subway to Kerning City.  The usher of the other direction sends a
\* passenger all the way without a ride, and is left out.
SubwayTakeoff ==
    << Set("docked", FALSE), Warp(600010004, 600010005),
       Warp(600010002, 600010003), Schedule("arrived", 1) >>
SubwayArrivedOneWay == << Warp(600010005, 600010001) >>
SubwayArrived == << Warp(600010005, 600010001), Warp(600010003, 103000100) >>
SubwayUsher == Npc(600010001, "open", "any", 600010002)
SubwayExit == Npc(600010002, "any", "any", 600010001)
Subway ==
    [ name |-> "Subway",
      code |-> Timetable(SubwayTakeoff, SubwayArrived),
      npcs |-> {SubwayUsher, SubwayExit},
      doors |-> {},
      rides |-> {Ride(600010001, 600010002, {600010003}, 103000100)} ]

AllLines == {Boats, Trains, Flight, Geenie, AirPlane, Subway}
=============================================================================
