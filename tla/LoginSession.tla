---------------------------- MODULE LoginSession ----------------------------
(***************************************************************************)
(* How an account gets from the login server to a channel, from channel to *)
(* channel, to the cash shop and back: client/MapleClient.java, the        *)
(* handlers of handling/login, InterServerHandler, CashShopOperation,      *)
(* PlayerStorage and World.Find.                                           *)
(*                                                                         *)
(* Every connection has a MapleClient (a session here) with its own flags; *)
(* what connections of one account share is the row of the table accounts, *)
(* the login authorisations, the transfers waiting at each server, the     *)
(* storages of the servers and World.Find.  A player is an account with    *)
(* the one character it plays, and runs one game client: it opens the next *)
(* connection when a server told it to, or afresh at the login server      *)
(* after the last one broke.  When a server notices that a connection is   *)
(* gone is another matter, and so are the tails of handlers that have      *)
(* already answered.                                                       *)
(***************************************************************************)
EXTENDS Integers, FiniteSets

CONSTANTS
    Player,       \* accounts, each with the character it plays
    Address,      \* addresses of machines
    AddressOf,    \* the address a player connects from
    Session,      \* connections: a released one may be used again
    Channel,      \* channel servers
    LoginServer, CashShop,
    Nowhere,      \* no server: what World.Find answers -1 for
    NoSession, NoPlayer,
    MaxBreaks     \* how many times a player's client may break or leave

Server == Channel \cup {LoginServer, CashShop}
Place == Channel \cup {CashShop}     \* the servers with a PlayerStorage

ASSUME SessionAssumption ==
    /\ AddressOf \in [Player -> Address]
    /\ LoginServer \notin Channel \cup {CashShop, Nowhere}
    /\ CashShop \notin Channel \cup {Nowhere}
    /\ Nowhere \notin Channel
    /\ NoSession \notin Session
    /\ NoPlayer \notin Player
    /\ MaxBreaks \in Nat

\* The character's data, wherever a copy of it is kept: nothing, as it is now,
\* or as it was before something happened to the character elsewhere.
Copy == {"none", "current", "old"}

\* Where a session is: just connected; its PLAYER_LOGGEDIN under way; with its
\* player in the game; told where to go but not done; without a player; refused
\* before it had an account; or given up by the server but not yet closed.
Phase == {"new", "entering", "playing", "leaving", "left", "refused", "dropped"}

VARIABLES
    \* the row of the account in the database
    loggedin,      \* 0 out, 1 on the way to a channel, 2 in, 3 changing servers
    lapsed,        \* lastlogin is more than 20 seconds ago (with loggedin 1 or 3)
    saved,         \* the character's rows are as the character is now
    \* shared by all servers
    loginAuth,     \* LoginServer.loginAuth: the players with an entry
    loginIPAuth,   \* LoginServer.loginIPAuth
    pending,       \* PlayerStorage.PendingCharacter of each place
    origin,        \* the channel in the transfer that waits at the cash shop
    idToChar,      \* PlayerStorage.idToChar: the players of each place
    idToChannel,   \* World.Find: where a player is
    \* the connections, and the players' game clients
    client,        \* the MapleClient of each session
    at,            \* the connection the game client uses
    told,          \* where it was told to connect
    breaks,        \* how often it broke
    \* history
    leftover,      \* a transfer was waiting when the player logged in anew
    overtaken      \* the player came back or was saved while an earlier
                   \* connection of it was not done

row == <<loggedin, lapsed, saved>>
find == <<idToChar, idToChannel>>
transfers == <<pending, origin>>
shared == <<loginAuth, loginIPAuth, transfers, find>>
game == <<at, told, breaks>>
vars == <<row, shared, client, game, leftover, overtaken>>

NoClient == [on |-> Nowhere, of |-> NoPlayer, phase |-> "new", copy |-> "none",
             loggedIn |-> FALSE, serverTransition |-> FALSE, open |-> FALSE,
             channel |-> Nowhere]

Client ==
    [on : Server \cup {Nowhere}, of : Player \cup {NoPlayer}, phase : Phase,
     copy : Copy, loggedIn : BOOLEAN, serverTransition : BOOLEAN,
     open : BOOLEAN, channel : Channel \cup {Nowhere}]

\* The type invariant: among the rest, updateLoginState and getLoginState leave
\* no value but 0 to 3 in the row, and World.Find answers with a server that
\* has a storage or with none.
TypeOK ==
    /\ loggedin \in [Player -> 0..3]
    /\ lapsed \in [Player -> BOOLEAN]
    /\ saved \in [Player -> BOOLEAN]
    /\ loginAuth \subseteq Player
    /\ loginIPAuth \subseteq Address
    /\ pending \in [Place -> [Player -> Copy]]
    /\ origin \in [Player -> Channel \cup {Nowhere}]
    /\ idToChar \in [Place -> SUBSET Player]
    /\ idToChannel \in [Player -> Place \cup {Nowhere}]
    /\ client \in [Session -> Client]
    /\ at \in [Player -> Session \cup {NoSession}]
    /\ told \in [Player -> Place \cup {Nowhere}]
    /\ breaks \in [Player -> 0..MaxBreaks]
    /\ leftover \subseteq Player
    /\ overtaken \subseteq Player

Init ==
    /\ loggedin = [p \in Player |-> 0]
    /\ lapsed = [p \in Player |-> FALSE]
    /\ saved = [p \in Player |-> TRUE]
    /\ loginAuth = {} /\ loginIPAuth = {}
    /\ pending = [c \in Place |-> [p \in Player |-> "none"]]
    /\ origin = [p \in Player |-> Nowhere]
    /\ idToChar = [c \in Place |-> {}]
    /\ idToChannel = [p \in Player |-> Nowhere]
    /\ client = [s \in Session |-> NoClient]
    /\ at = [p \in Player |-> NoSession]
    /\ told = [p \in Player |-> Nowhere]
    /\ breaks = [p \in Player |-> 0]
    /\ leftover = {} /\ overtaken = {}

-----------------------------------------------------------------------------
\* MapleClient.updateLoginState and getLoginState.

\* updateLoginState writes the row, the time with it, and sets the flags.
SetRow(p, n) ==
    /\ loggedin' = [loggedin EXCEPT ![p] = n]
    /\ lapsed' = [lapsed EXCEPT ![p] = FALSE]

Flags(c, n) ==
    [c EXCEPT !.serverTransition = n \in {1, 3}, !.loggedIn = n \notin {0, 1, 3}]

\* A slip in the code: an account that timed out is neither out nor in.
LoginStateUnset(p) == IF lapsed[p] THEN -1 ELSE loggedin[p]

\* What getLoginState returns: a change of servers older than 20 seconds is
\* over, and the row is reset.
LoginState(p) == IF lapsed[p] THEN 0 ELSE loggedin[p]

\* What it leaves in the row: it resets a 1 as well, without the time.
RowAfter(p) == IF LoginState(p) = 1 THEN 0 ELSE LoginState(p)

\* What it does to the flags of the session that asks.
FlagsAfter(c, p) ==
    CASE lapsed[p] -> Flags(c, 0)
      [] LoginState(p) = 2 -> [c EXCEPT !.loggedIn = TRUE]
      [] LoginState(p) = 1 -> c
      [] OTHER -> [c EXCEPT !.loggedIn = FALSE]

Read(p) ==
    /\ loggedin' = [loggedin EXCEPT ![p] = RowAfter(p)]
    /\ lapsed' = [lapsed EXCEPT ![p] = FALSE]

-----------------------------------------------------------------------------
\* State of a connection.

Playing(s) == client[s].phase = "playing"
Idle(s) == client[s].open /\ client[s].phase \in {"new", "playing"}
Others(s) == {t \in Session \ {s} : client[t].of = client[s].of}
InChannel(p) == \E c \in Channel : p \in idToChar[c]

\* The session s of p writes the character: history.
Overtakes(s) == \E t \in Others(s) : client[t].phase = "leaving"
Mark(set, p, b) == IF b THEN set \cup {p} ELSE set

\* The game client of p sees that its connection s is closed.
Loses(p, s) == at' = IF at[p] = s THEN [at EXCEPT ![p] = NoSession] ELSE at

-----------------------------------------------------------------------------
\* The game client: connecting, breaking.

\* MapleServerHandler.channelActive: a channel takes only an address that was
\* announced, and any accepted connection uses the announcement up.
Connect(p, s, srv) ==
    /\ client[s] = NoClient
    /\ client' = [t \in Session |->
          IF t = s THEN [NoClient EXCEPT !.on = srv, !.of = p, !.open = TRUE,
                             !.channel = IF srv \in Channel THEN srv ELSE Nowhere]
          ELSE IF t = at[p] THEN [client[t] EXCEPT !.open = FALSE]
          ELSE client[t]]
    /\ at' = [at EXCEPT ![p] = s]
    /\ told' = [told EXCEPT ![p] = Nowhere]
    /\ loginIPAuth' = loginIPAuth \ {AddressOf[p]}
    /\ UNCHANGED <<row, loginAuth, transfers, find, breaks,
                   leftover, overtaken>>

OpenLogin(p, s) ==
    /\ at[p] = NoSession /\ told[p] = Nowhere
    /\ Connect(p, s, LoginServer)

Accepts(p, srv) == srv = CashShop \/ AddressOf[p] \in loginIPAuth

OpenTold(p, s) ==
    /\ told[p] # Nowhere
    /\ Accepts(p, told[p])
    /\ Connect(p, s, told[p])

\* Turned away by channelActive, before it has a MapleClient.
TurnedAway(p) ==
    /\ told[p] # Nowhere
    /\ ~Accepts(p, told[p])
    /\ client' = [t \in Session |->
          IF t = at[p] THEN [client[t] EXCEPT !.open = FALSE] ELSE client[t]]
    /\ at' = [at EXCEPT ![p] = NoSession]
    /\ told' = [told EXCEPT ![p] = Nowhere]
    /\ UNCHANGED <<row, shared, breaks, leftover, overtaken>>

\* The game client stops or loses its connection, at any moment.
Break(p) ==
    /\ breaks[p] < MaxBreaks
    /\ at[p] # NoSession \/ told[p] # Nowhere
    /\ breaks' = [breaks EXCEPT ![p] = @ + 1]
    /\ client' = [t \in Session |->
          IF t = at[p] THEN [client[t] EXCEPT !.open = FALSE] ELSE client[t]]
    /\ at' = [at EXCEPT ![p] = NoSession]
    /\ told' = [told EXCEPT ![p] = Nowhere]
    /\ UNCHANGED <<row, shared, leftover, overtaken>>

-----------------------------------------------------------------------------
\* The login server.

\* LoginPasswordHandler: MapleClient.login, then LoginWorker.registerClient and
\* finishLogin.  A refusal clears the session (clearInformation).
Login(s) ==
    LET p == client[s].of IN
    /\ client[s].on = LoginServer /\ Idle(s)
    /\ ~client[s].loggedIn /\ ~client[s].serverTransition
    /\ IF LoginState(p) = 0
       THEN /\ SetRow(p, 2)
            /\ client' = [client EXCEPT ![s] = Flags(@, 2)]
            /\ leftover' = Mark(leftover, p,
                                \E c \in Place : pending[c][p] # "none")
            /\ overtaken' = Mark(overtaken, p, \E t \in Others(s) :
                                client[t].phase \in {"entering", "leaving", "dropped"})
       ELSE /\ Read(p)
            /\ client' = [client EXCEPT ![s].loggedIn = FALSE]
            /\ UNCHANGED <<leftover, overtaken>>
    /\ UNCHANGED <<saved, shared, game>>

\* CharSelectedHandler and its variants with a second password.
SelectChar(s, c) ==
    LET p == client[s].of IN
    /\ client[s].on = LoginServer /\ Idle(s) /\ client[s].loggedIn
    /\ loginAuth' = loginAuth \cup {p}
    /\ loginIPAuth' = loginIPAuth \cup {AddressOf[p]}
    /\ SetRow(p, 1)
    /\ client' = [client EXCEPT ![s] = Flags(@, 1)]
    /\ told' = [told EXCEPT ![p] = c]
    /\ UNCHANGED <<saved, transfers, find, at, breaks,
                   leftover, overtaken>>

-----------------------------------------------------------------------------
\* Entering a channel (InterServerHandler.Loggedin) and the cash shop
\* (CashShopOperation.EnterCS): the character is taken over or loaded first,
\* which takes a while, then the account is let in or not.

TakeOver(s) ==
    LET p == client[s].of  here == client[s].on IN
    /\ here \in Place /\ Idle(s) /\ client[s].phase = "new"
    /\ pending[here][p] # "none"
    /\ pending' = [pending EXCEPT ![here][p] = "none"]
    /\ origin' = [origin EXCEPT ![p] = IF here = CashShop THEN Nowhere ELSE @]
    /\ client' = [client EXCEPT ![s].phase = "entering",
          ![s].copy = pending[here][p],
          ![s].channel = IF here = CashShop THEN origin[p] ELSE @]
    /\ UNCHANGED <<row, loginAuth, loginIPAuth, find, game,
                   leftover, overtaken>>

Load(s) ==
    LET p == client[s].of  here == client[s].on IN
    /\ here \in Channel /\ Idle(s) /\ client[s].phase = "new"
    /\ pending[here][p] = "none" /\ p \in loginAuth
    /\ loginAuth' = loginAuth \ {p}
    /\ client' = [client EXCEPT ![s].phase = "entering",
                      ![s].copy = IF saved[p] THEN "current" ELSE "old"]
    /\ UNCHANGED <<row, loginIPAuth, transfers, find, game,
                   leftover, overtaken>>

\* Neither a transfer nor an authorisation: the connection is closed.
Unknown(s) ==
    LET p == client[s].of  here == client[s].on IN
    /\ here \in Place /\ Idle(s) /\ client[s].phase = "new"
    /\ pending[here][p] = "none" /\ (here = CashShop \/ p \notin loginAuth)
    /\ client' = [client EXCEPT ![s].phase = "refused", ![s].open = FALSE]
    /\ Loses(p, s)
    /\ UNCHANGED <<row, shared, told, breaks, leftover, overtaken>>

MayEnter(p, here) ==
    /\ LoginState(p) \in IF here = CashShop THEN {1, 3} ELSE {0, 1, 3}
    /\ ~InChannel(p)

Admit(s) ==
    LET p == client[s].of  here == client[s].on IN
    /\ client[s].phase = "entering"
    /\ MayEnter(p, here)
    /\ SetRow(p, 2)
    /\ client' = [client EXCEPT ![s] = [Flags(@, 2) EXCEPT !.phase = "playing"]]
    /\ idToChar' = [idToChar EXCEPT ![here] = @ \cup {p}]
    /\ idToChannel' = [idToChannel EXCEPT ![p] = here]
    /\ UNCHANGED <<saved, loginAuth, loginIPAuth, transfers, game, leftover, overtaken>>

Reject(s) ==
    LET p == client[s].of  here == client[s].on IN
    /\ client[s].phase = "entering"
    /\ ~MayEnter(p, here)
    /\ Read(p)
    /\ client' = [client EXCEPT ![s] = [FlagsAfter(@, p) EXCEPT
                      !.phase = "left", !.copy = "none", !.open = FALSE]]
    /\ Loses(p, s)
    /\ UNCHANGED <<saved, shared, told, breaks, leftover, overtaken>>

-----------------------------------------------------------------------------
\* Leaving a server.

\* Something happens to the character in the game.
Play(s) ==
    LET p == client[s].of IN
    /\ Playing(s) /\ Idle(s)
    /\ saved' = [saved EXCEPT ![p] = FALSE]
    /\ pending' = [c \in Place |-> [pending[c] EXCEPT ![p] =
                      IF @ = "none" THEN @ ELSE "old"]]
    /\ client' = [t \in Session |->
          IF t = s THEN [client[t] EXCEPT !.copy = "current"]
          ELSE IF client[t].of = p /\ client[t].copy # "none"
               THEN [client[t] EXCEPT !.copy = "old"]
          ELSE client[t]]
    /\ UNCHANGED <<origin, loggedin, lapsed, loginAuth, loginIPAuth, find,
                   game, leftover, overtaken>>

\* A slip: nothing is written when a player leaves.
SaveNothing(s) == UNCHANGED saved

\* MapleCharacter.saveToDB: the rows become the copy of this session.
Save(s) ==
    saved' = [saved EXCEPT ![client[s].of] = client[s].copy = "current"]

\* MapleCharacter.changeChannel up to the packet that sends the game client on.
ChangeChannel(s, c) ==
    LET p == client[s].of  here == client[s].on IN
    /\ Playing(s) /\ Idle(s)
    /\ here \in Channel /\ c # here
    /\ pending' = [pending EXCEPT ![c][p] = client[s].copy]
    /\ idToChar' = [idToChar EXCEPT ![here] = @ \ {p}]
    /\ idToChannel' = [idToChannel EXCEPT ![p] = Nowhere]
    /\ SetRow(p, 3)
    /\ loginIPAuth' = loginIPAuth \cup {AddressOf[p]}
    /\ client' = [client EXCEPT ![s] = [Flags(@, 3) EXCEPT !.phase = "leaving"]]
    /\ told' = [told EXCEPT ![p] = c]
    /\ UNCHANGED <<origin, saved, loginAuth, at, breaks, leftover, overtaken>>

\* CashShopOperation.LeaveCS up to that packet, back to the channel it came from.
LeaveCS(s) ==
    LET p == client[s].of IN
    /\ Playing(s) /\ Idle(s) /\ client[s].on = CashShop
    /\ idToChar' = [idToChar EXCEPT ![CashShop] = @ \ {p}]
    /\ idToChannel' = [idToChannel EXCEPT ![p] = Nowhere]
    /\ SetRow(p, 1)
    /\ pending' = [pending EXCEPT ![client[s].channel][p] = client[s].copy]
    /\ client' = [client EXCEPT ![s] = [Flags(@, 1) EXCEPT !.phase = "leaving"]]
    /\ told' = [told EXCEPT ![p] = client[s].channel]
    /\ UNCHANGED <<origin, saved, loginAuth, loginIPAuth, at, breaks, leftover, overtaken>>

\* The rest of either: the save; from the cash shop the address is announced
\* only now, and the server closes the connection.
FinishLeaving(s) ==
    LET p == client[s].of  shop == client[s].on = CashShop IN
    /\ client[s].phase = "leaving"
    /\ Save(s)
    /\ client' = [client EXCEPT ![s].phase = "left", ![s].copy = "none",
                                ![s].open = @ /\ ~shop]
    /\ loginIPAuth' = IF shop THEN loginIPAuth \cup {AddressOf[p]} ELSE loginIPAuth
    /\ IF shop THEN Loses(p, s) ELSE UNCHANGED at
    /\ overtaken' = Mark(overtaken, p, Overtakes(s))
    /\ UNCHANGED <<loggedin, lapsed, loginAuth, transfers, find,
                   told, breaks, leftover>>

\* InterServerHandler.EnterCS: here the save comes before the packet.
EnterCS(s) ==
    LET p == client[s].of  here == client[s].on IN
    /\ Playing(s) /\ Idle(s) /\ here \in Channel
    /\ pending' = [pending EXCEPT ![CashShop][p] = client[s].copy]
    /\ origin' = [origin EXCEPT ![p] = here]
    /\ idToChar' = [idToChar EXCEPT ![here] = @ \ {p}]
    /\ idToChannel' = [idToChannel EXCEPT ![p] = Nowhere]
    /\ SetRow(p, 3)
    /\ Save(s)
    /\ client' = [client EXCEPT ![s] = [Flags(@, 3) EXCEPT
                      !.phase = "left", !.copy = "none"]]
    /\ told' = [told EXCEPT ![p] = CashShop]
    /\ overtaken' = Mark(overtaken, p, Overtakes(s))
    /\ UNCHANGED <<loginAuth, loginIPAuth, at, breaks, leftover>>

-----------------------------------------------------------------------------
\* The end of a connection.

\* MapleClient.disconnect of a session whose client is c.  A player that
\* World.Find does not know is dropped without a word to the row, unless the
\* cash shop calls; one that it finds in the cash shop is taken out of no storage.
Silent(c, fromCS) ==
    c.phase = "playing" /\ idToChannel[c.of] = Nowhere /\ ~fromCS

\* Slips: a session takes the character out of the storages although it has
\* handed it over; or it never does.
RemovesByName(c, fromCS) == c.phase \in {"playing", "left"}
RemovesNever(c, fromCS) == FALSE

Removes(c, fromCS) ==
    c.phase = "playing" /\ (idToChannel[c.of] \in Channel \/ Silent(c, fromCS))

\* Slips: a session resets the row although it has sent its player on; or it
\* never does.
LogsOutMoving(c, fromCS) == ~Silent(c, fromCS) /\ c.loggedIn
LogsOutNever(c, fromCS) == FALSE

LogsOut(c, fromCS) ==
    ~Silent(c, fromCS) /\ c.loggedIn /\ ~c.serverTransition

\* n is what the row holds by now, if it was looked at first.
Disconnect(s, c, fromCS, n) ==
    LET p == c.of
        out == LogsOut(c, fromCS)
    IN  /\ IF c.phase = "playing"
           THEN Save(s) /\ loginAuth' = loginAuth \ {p}
           ELSE UNCHANGED <<saved, loginAuth>>
        /\ IF Removes(c, fromCS)
           THEN /\ idToChar' = [idToChar EXCEPT ![c.channel] = @ \ {p}]
                /\ idToChannel' = [idToChannel EXCEPT ![p] = Nowhere]
           ELSE UNCHANGED find
        /\ loggedin' = [loggedin EXCEPT ![p] = IF out THEN 0 ELSE n]
        /\ lapsed' = [lapsed EXCEPT ![p] = @ /\ ~out /\ n = loggedin[p]]
        /\ overtaken' = Mark(overtaken, p, c.phase = "playing" /\ Overtakes(s))

Closed(s) ==
    client[s] # NoClient /\ ~client[s].open
    /\ client[s].phase \notin {"entering", "leaving"}

\* MapleServerHandler.channelInactive: a channel looks at the row first, which
\* fails for a session that has no account yet.
Inactive(s) ==
    LET p == client[s].of  c == client[s] IN
    /\ Closed(s)
    /\ IF c.on \in Channel /\ c.phase \in {"new", "refused"}
       THEN UNCHANGED <<row, loginAuth, find, overtaken>>
       ELSE IF c.on \in Channel
            THEN Disconnect(s, FlagsAfter(c, p), FALSE, RowAfter(p))
            ELSE Disconnect(s, c, c.on = CashShop, loggedin[p])
    /\ client' = [client EXCEPT ![s] = NoClient]
    /\ UNCHANGED <<loginIPAuth, transfers, game, leftover>>

\* The server gives a player up (sendPing's task, a ban, a kick): disconnect,
\* then close.  channelInactive follows.
Drop(s) ==
    LET p == client[s].of  c == client[s] IN
    /\ Playing(s)
    /\ Disconnect(s, c, FALSE, loggedin[p])
    /\ client' = [client EXCEPT ![s] =
          [(IF LogsOut(c, FALSE) THEN Flags(c, 0) ELSE c) EXCEPT
              !.phase = "dropped", !.copy = "none", !.open = FALSE]]
    /\ Loses(p, s)
    /\ UNCHANGED <<loginIPAuth, transfers, told, breaks, leftover>>

-----------------------------------------------------------------------------
\* Time.

\* A slip: every state of the row expires, being in the game included.
LapseAny(p) ==
    /\ loggedin[p] # 0 /\ ~lapsed[p]
    /\ lapsed' = [lapsed EXCEPT ![p] = TRUE]
    /\ UNCHANGED <<loggedin, saved, shared, client, game, leftover, overtaken>>

Lapse(p) ==
    /\ loggedin[p] \in {1, 3} /\ ~lapsed[p]
    /\ lapsed' = [lapsed EXCEPT ![p] = TRUE]
    /\ UNCHANGED <<loggedin, saved, shared, client, game, leftover, overtaken>>

\* PlayerStorage.PersistingTask drops a transfer that waited over 40 seconds:
\* not while the change of servers it belongs to is the one the row is in and
\* is less than 20 seconds old.
Persisting(c, p) ==
    /\ pending[c][p] # "none"
    /\ lapsed[p] \/ loggedin[p] \notin {1, 3} \/ p \in leftover
    /\ pending' = [pending EXCEPT ![c][p] = "none"]
    /\ origin' = [origin EXCEPT ![p] = IF c = CashShop THEN Nowhere ELSE @]
    /\ UNCHANGED <<row, loginAuth, loginIPAuth, find, client,
                   game, leftover, overtaken>>

-----------------------------------------------------------------------------
ClientStep(p) ==
    \/ \E s \in Session : OpenLogin(p, s)
    \/ \E s \in Session : OpenTold(p, s)
    \/ TurnedAway(p)
    \/ Break(p)

Move(s) ==
    \/ \E c \in Channel : ChangeChannel(s, c)
    \/ LeaveCS(s)
    \/ EnterCS(s)

Handle(s) ==
    \/ Login(s)
    \/ \E c \in Channel : SelectChar(s, c)
    \/ TakeOver(s) \/ Load(s) \/ Unknown(s) \/ Admit(s) \/ Reject(s)
    \/ Play(s) \/ Move(s) \/ FinishLeaving(s)
    \/ Inactive(s) \/ Drop(s)

Pass(p) ==
    \/ Lapse(p)
    \/ \E c \in Place : Persisting(c, p)

Next ==
    \/ \E p \in Player : ClientStep(p)
    \/ \E s \in Session : Handle(s)
    \/ \E p \in Player : Pass(p)

Spec == Init /\ [][Next]_vars

-----------------------------------------------------------------------------
\* Properties.

\* A character is in the game on one connection at most, wherever that is:
\* finishLogin, Loggedin and EnterCS of the cash shop look at the row and at the
\* storages before they let anybody in.  (Not for a player who came back while
\* an earlier handler or connection of it was still at work.)
OnePlace ==
    \A s, t \in Session :
        /\ Playing(s) /\ Playing(t) /\ s # t
        /\ client[s].of \notin overtaken
        => client[t].of # client[s].of

\* Who is in the game is where World.Find and the storages say: the late end of
\* an old connection (disconnect) does not take the player out of the server it
\* has moved on to.
Found ==
    \A s \in Session :
        Playing(s) /\ client[s].of \notin overtaken =>
            /\ idToChannel[client[s].of] = client[s].on
            /\ client[s].of \in idToChar[client[s].on]

\* No channel keeps a character nobody plays there: changeChannel, EnterCS and
\* disconnect take it out of PlayerStorage on every way out, so the account can
\* get in again (isCharacterListConnected).
NoGhost ==
    \A p \in Player, c \in Channel : p \in idToChar[c] =>
        \E s \in Session : Playing(s) /\ client[s].of = p /\ client[s].on = c

\* A connection that will reset the row when it ends: its flags say that it is
\* logged in and not moving, at the login server or with a player in the game.
Holds(s) ==
    /\ client[s].loggedIn /\ ~client[s].serverTransition
    /\ client[s].on = LoginServer \/ Playing(s)

\* The row says 2 as long as some connection will see to it that it is reset,
\* and no longer: an account is not locked out for good (the 2 never expires),
\* and is not open to a second login while it is played (updateLoginState,
\* getLoginState, disconnect).
RowTrue ==
    \A p \in Player \ overtaken :
        loggedin[p] = 2 <=> \E s \in Session : client[s].of = p /\ Holds(s)

\* What is played on is the character as it was left last: changeChannel and
\* LeaveCS hand it over before they save it, loadCharFromDB reads what is saved.
\* (Not for a player for whom a transfer was left over at a new login, see
\* leftover.)
PlaysOnCurrent ==
    \A s \in Session :
        Playing(s) /\ client[s].of \notin overtaken \cup leftover =>
            client[s].copy = "current"

\* Fairness.  A handler that started runs to its end, and netty reports every
\* connection that is closed; the game client connects where it is told to and
\* logs in again after it was turned away, as long as its user wants to play;
\* and the 20 seconds of a change of servers pass.  Nothing says that a player
\* moves on, that the server gives a session up, or that the storages are
\* cleaned.
FairSpec ==
    /\ Spec
    /\ \A p \in Player :
        /\ WF_vars(\E s \in Session : OpenLogin(p, s))
        /\ WF_vars(\E s \in Session : OpenTold(p, s))
        /\ WF_vars(TurnedAway(p))
        /\ WF_vars(Lapse(p))
    /\ \A s \in Session :
        /\ WF_vars(Login(s))
        /\ WF_vars(\E c \in Channel : SelectChar(s, c))
        /\ WF_vars(TakeOver(s) \/ Load(s) \/ Unknown(s))
        /\ WF_vars(Admit(s) \/ Reject(s))
        /\ WF_vars(FinishLeaving(s))
        /\ WF_vars(Inactive(s))

\* Whatever breaks, a player who keeps trying gets into the game again, and no
\* row, storage or authorisation that is left behind keeps it out for ever
\* (getLoginState's 20 seconds, disconnect, isCharacterListConnected).
Comeback ==
    \A p \in Player : []<>(\E s \in Session : Playing(s) /\ client[s].of = p)

=============================================================================
