------------------------- MODULE LoginSessionProofs -------------------------
(* What is proved of the connections of any players to any channels, with   *)
(* any number of connections at a time: types; that no storage keeps a      *)
(* player nobody plays; that a player is in one place, is found there and   *)
(* its row says so; and that it is played on as it was left.                *)
EXTENDS LoginSession, TLAPS

-----------------------------------------------------------------------------
(* A connection in use belongs to a player and to a server; its player is   *)
(* on the way into the game, or in it, on a server with a storage; and on a *)
(* channel its MapleClient knows which channel that is.                     *)

Good(c) ==
    /\ c \in Client
    /\ c = NoClient \/ (c.of \in Player /\ c.on \in Server)
    /\ c.phase \in {"entering", "playing"} => c.on \in Place
    /\ c.on \in Channel => c.channel = c.on

Connections == \A s \in Session : Good(client[s])
TypeInv == TypeOK /\ Connections

LEMMA ServerFacts ==
    ASSUME SessionAssumption
    PROVE  /\ LoginServer # Nowhere /\ CashShop # Nowhere
           /\ LoginServer \notin Channel /\ CashShop \notin Channel
           /\ Nowhere \notin Channel /\ LoginServer # CashShop
           /\ LoginServer \notin Place /\ Nowhere \notin Place
           /\ Channel \subseteq Place /\ CashShop \in Place
           /\ Place \subseteq Server /\ LoginServer \in Server
BY DEF SessionAssumption, Place, Server

LEMMA NoClientGood ==
    ASSUME SessionAssumption
    PROVE  Good(NoClient)
<1>1. NoClient \in Client
  BY DEF NoClient, Client, Phase, Copy
<1>2. NoClient.phase = "new" /\ NoClient.on = Nowhere
  BY DEF NoClient
<1> QED BY <1>1, <1>2, ServerFacts DEF Good

\* Whoever has a packet to handle or a handler under way is in use.
LEMMA InUse ==
    ASSUME SessionAssumption, TypeInv, NEW s \in Session,
           client[s].open \/ client[s].phase # "new"
    PROVE  /\ client[s].of \in Player /\ client[s].on \in Server
           /\ client[s] # NoClient /\ client[s] \in Client /\ Good(client[s])
<1>1. client[s] # NoClient
  BY DEF NoClient
<1> QED BY <1>1 DEF TypeInv, Connections, Good

\* What a handler may do to its own MapleClient.
LEMMA Kept ==
    ASSUME NEW c, NEW d, Good(c), c # NoClient, d \in Client,
           d.on = c.on, d.of = c.of, c.on \in Channel => d.channel = c.channel,
           d.phase \in {"entering", "playing"} => c.on \in Place
    PROVE  Good(d)
BY DEF Good

\* A handler on the connection s leaves the others as they are.
LEMMA OneGood ==
    ASSUME TypeInv, NEW s \in Session, NEW d, Good(d),
           client' = [client EXCEPT ![s] = d]
    PROVE  client' \in [Session -> Client] /\ Connections'
<1>1. d \in Client /\ client \in [Session -> Client]
  BY DEF TypeInv, TypeOK, Good
<1>2. \A t \in Session : client'[t] = IF t = s THEN d ELSE client[t]
  BY <1>1
<1> QED BY <1>1, <1>2 DEF TypeInv, Connections

LEMMA FlagsType ==
    ASSUME NEW c \in Client, NEW n
    PROVE  /\ Flags(c, n) \in Client
           /\ Flags(c, n).on = c.on /\ Flags(c, n).of = c.of
           /\ Flags(c, n).phase = c.phase /\ Flags(c, n).channel = c.channel
           /\ Flags(c, n).copy = c.copy
<1> DEFINE moving == n \in {1, 3}
           in == n \notin {0, 1, 3}
<1>1. moving \in BOOLEAN /\ in \in BOOLEAN
  OBVIOUS
<1>2. Flags(c, n) = [c EXCEPT !.serverTransition = moving, !.loggedIn = in]
  BY DEF Flags
<1> HIDE DEF moving, in
<1> QED BY <1>1, <1>2 DEF Client

LEMMA FlagsAfterType ==
    ASSUME NEW c \in Client, NEW p
    PROVE  /\ FlagsAfter(c, p) \in Client
           /\ FlagsAfter(c, p).on = c.on /\ FlagsAfter(c, p).of = c.of
           /\ FlagsAfter(c, p).phase = c.phase
           /\ FlagsAfter(c, p).channel = c.channel
<1> DEFINE Same(d) == /\ d \in Client /\ d.on = c.on /\ d.of = c.of
                      /\ d.phase = c.phase /\ d.channel = c.channel
<1>1. Same(Flags(c, 0)) /\ Same(c)
  BY FlagsType
<1>2. Same([c EXCEPT !.loggedIn = TRUE]) /\ Same([c EXCEPT !.loggedIn = FALSE])
  BY DEF Client
<1> HIDE DEF Same
<1>3. Same(FlagsAfter(c, p))
  BY <1>1, <1>2 DEF FlagsAfter
<1> QED BY <1>3 DEF Same

LEMMA RowType ==
    ASSUME TypeOK, NEW p \in Player
    PROVE  LoginState(p) \in 0..3 /\ RowAfter(p) \in 0..3
BY DEF TypeOK, LoginState, RowAfter

LEMMA SetRowType ==
    ASSUME TypeOK, NEW p, NEW n \in 0..3, SetRow(p, n)
    PROVE  loggedin' \in [Player -> 0..3] /\ lapsed' \in [Player -> BOOLEAN]
BY DEF TypeOK, SetRow

LEMMA ReadType ==
    ASSUME TypeOK, NEW p \in Player, Read(p)
    PROVE  loggedin' \in [Player -> 0..3] /\ lapsed' \in [Player -> BOOLEAN]
<1>1. RowAfter(p) \in 0..3
  BY RowType
<1> QED BY <1>1 DEF TypeOK, Read

LEMMA MarkType ==
    ASSUME NEW set \in SUBSET Player, NEW p \in Player, NEW b
    PROVE  Mark(set, p, b) \subseteq Player
BY DEF Mark

LEMMA LosesType ==
    ASSUME TypeOK, NEW p, NEW s, Loses(p, s)
    PROVE  at' \in [Player -> Session \cup {NoSession}]
BY DEF TypeOK, Loses

LEMMA SaveType ==
    ASSUME TypeOK, NEW s, Save(s)
    PROVE  saved' \in [Player -> BOOLEAN]
<1> DEFINE b == client[s].copy = "current"
<1>1. b \in BOOLEAN
  OBVIOUS
<1> HIDE DEF b
<1>2. saved' = [saved EXCEPT ![client[s].of] = b]
  BY DEF Save, b
<1> QED BY <1>1, <1>2 DEF TypeOK

-----------------------------------------------------------------------------
(* Type correctness, one handler after the other.                           *)

\* A game client that opens a connection, or gives one up, closes the old one.
LEMMA HangUpGood ==
    ASSUME NEW c, Good(c), c # NoClient
    PROVE  Good([c EXCEPT !.open = FALSE])
<1>1. c \in Client /\ [c EXCEPT !.open = FALSE] \in Client
  BY DEF Good, Client
<1> QED BY <1>1, Kept DEF Good, Client

LEMMA HangUpAny ==
    ASSUME SessionAssumption, NEW c, Good(c)
    PROVE  Good([c EXCEPT !.open = FALSE])
<1>1. CASE c = NoClient
  <2>1. c \in Client /\ c.open = FALSE
    BY <1>1, NoClientGood DEF Good, NoClient
  <2>2. [c EXCEPT !.open = FALSE] = c
    BY <2>1 DEF Client
  <2> QED BY <2>2
<1> QED BY <1>1, HangUpGood

LEMMA LoginType ==
    ASSUME SessionAssumption, TypeInv, NEW s \in Session, Login(s)
    PROVE  TypeInv'
<1> DEFINE c == client[s]
           p == client[s].of
<1>1. c.open
  BY DEF Login, Idle
<1>2. p \in Player /\ c # NoClient /\ c \in Client /\ Good(c)
  BY <1>1, InUse
<1>3. CASE LoginState(p) = 0
  <2>1. SetRow(p, 2) /\ client' = [client EXCEPT ![s] = Flags(c, 2)]
    BY <1>3 DEF Login
  <2>2. Good(Flags(c, 2))
    BY <1>2, FlagsType, Kept DEF Good
  <2>3. client' \in [Session -> Client] /\ Connections'
    BY <2>1, <2>2, OneGood
  <2>4. loggedin' \in [Player -> 0..3] /\ lapsed' \in [Player -> BOOLEAN]
    BY <2>1, SetRowType DEF TypeInv
  <2>5. leftover' \subseteq Player /\ overtaken' \subseteq Player
    BY <1>2, <1>3 DEF Login, Mark, TypeInv, TypeOK
  <2> QED BY <2>3, <2>4, <2>5 DEF Login, TypeInv, TypeOK, shared, game, transfers, find
<1>4. CASE LoginState(p) # 0
  <2>1. Read(p) /\ client' = [client EXCEPT ![s] = [c EXCEPT !.loggedIn = FALSE]]
    BY <1>4 DEF Login
  <2>2. Good([c EXCEPT !.loggedIn = FALSE])
    BY <1>2, Kept DEF Good, Client
  <2>3. client' \in [Session -> Client] /\ Connections'
    BY <2>1, <2>2, OneGood
  <2>4. loggedin' \in [Player -> 0..3] /\ lapsed' \in [Player -> BOOLEAN]
    BY <1>2, <2>1, ReadType DEF TypeInv
  <2> QED BY <1>4, <2>3, <2>4 DEF Login, TypeInv, TypeOK, shared, game, transfers, find
<1> QED BY <1>3, <1>4

LEMMA SelectCharType ==
    ASSUME SessionAssumption, TypeInv, NEW s \in Session, NEW ch \in Channel,
           SelectChar(s, ch)
    PROVE  TypeInv'
<1> DEFINE c == client[s]
           p == client[s].of
<1>1. c.open /\ SetRow(p, 1) /\ client' = [client EXCEPT ![s] = Flags(c, 1)]
  BY DEF SelectChar, Idle
<1>2. p \in Player /\ c # NoClient /\ c \in Client /\ Good(c)
  BY <1>1, InUse
<1>3. Good(Flags(c, 1))
  BY <1>2, FlagsType, Kept DEF Good
<1>4. client' \in [Session -> Client] /\ Connections'
  BY <1>1, <1>3, OneGood
<1>5. loggedin' \in [Player -> 0..3] /\ lapsed' \in [Player -> BOOLEAN]
  BY <1>1, SetRowType DEF TypeInv
<1>6. AddressOf[p] \in Address /\ ch \in Place
  BY <1>2 DEF SessionAssumption, Place
<1>7. told' \in [Player -> Place \cup {Nowhere}]
  BY <1>6 DEF SelectChar, TypeInv, TypeOK
<1> QED BY <1>2, <1>4, <1>5, <1>6, <1>7 DEF SelectChar, TypeInv, TypeOK, transfers, find

LEMMA TakeOverType ==
    ASSUME SessionAssumption, TypeInv, NEW s \in Session, TakeOver(s)
    PROVE  TypeInv'
<1> DEFINE c == client[s]
           p == client[s].of
           via == IF c.on = CashShop THEN origin[p] ELSE c.channel
           d == [c EXCEPT !.phase = "entering", !.copy = pending[c.on][p],
                          !.channel = via]
<1>1. c.open /\ c.on \in Place
  BY DEF TakeOver, Idle
<1>2. p \in Player /\ c # NoClient /\ c \in Client /\ Good(c)
  BY <1>1, InUse
<1>3. client' = [client EXCEPT ![s] = d]
  BY DEF TakeOver
<1>4. pending[c.on][p] \in Copy /\ origin[p] \in Channel \cup {Nowhere}
  BY <1>1, <1>2 DEF TypeInv, TypeOK
<1>5. via \in Channel \cup {Nowhere} /\ (c.on \in Channel => via = c.channel)
  BY <1>2, <1>4, ServerFacts DEF Client
<1> HIDE DEF via
<1>6. d \in Client /\ d.on = c.on /\ d.of = c.of /\ d.channel = via
  BY <1>2, <1>4, <1>5 DEF Client, Phase
<1>7. Good(d)
  BY <1>1, <1>2, <1>5, <1>6, Kept
<1>8. client' \in [Session -> Client] /\ Connections'
  BY <1>3, <1>7, OneGood
<1>9. pending' \in [Place -> [Player -> Copy]]
  BY DEF TakeOver, TypeInv, TypeOK, Copy
<1>10. origin' \in [Player -> Channel \cup {Nowhere}]
  BY <1>4 DEF TakeOver, TypeInv, TypeOK
<1> QED BY <1>8, <1>9, <1>10 DEF TakeOver, TypeInv, TypeOK, row, game, find

LEMMA LoadType ==
    ASSUME SessionAssumption, TypeInv, NEW s \in Session, Load(s)
    PROVE  TypeInv'
<1> DEFINE c == client[s]
           p == client[s].of
           copy == IF saved[p] THEN "current" ELSE "old"
           d == [c EXCEPT !.phase = "entering", !.copy = copy]
<1>1. c.open /\ c.on \in Place
  BY ServerFacts DEF Load, Idle
<1>2. p \in Player /\ c # NoClient /\ c \in Client /\ Good(c)
  BY <1>1, InUse
<1>3. client' = [client EXCEPT ![s] = d]
  BY DEF Load
<1>4. copy \in Copy
  BY DEF Copy
<1> HIDE DEF copy
<1>5. d \in Client /\ d.on = c.on /\ d.of = c.of /\ d.channel = c.channel
  BY <1>2, <1>4 DEF Client, Phase
<1>6. Good(d)
  BY <1>1, <1>2, <1>5, Kept
<1>7. client' \in [Session -> Client] /\ Connections'
  BY <1>3, <1>6, OneGood
<1> QED BY <1>7 DEF Load, TypeInv, TypeOK, row, game, find, transfers

LEMMA UnknownType ==
    ASSUME SessionAssumption, TypeInv, NEW s \in Session, Unknown(s)
    PROVE  TypeInv'
<1> DEFINE c == client[s]
           d == [c EXCEPT !.phase = "refused", !.open = FALSE]
<1>1. c.open
  BY DEF Unknown, Idle
<1>2. c # NoClient /\ c \in Client /\ Good(c)
  BY <1>1, InUse
<1>3. client' = [client EXCEPT ![s] = d]
  BY DEF Unknown
<1>4. d \in Client /\ d.on = c.on /\ d.of = c.of /\ d.channel = c.channel
      /\ d.phase = "refused"
  BY <1>2 DEF Client, Phase
<1>5. Good(d)
  BY <1>2, <1>4, Kept
<1>6. client' \in [Session -> Client] /\ Connections'
  BY <1>3, <1>5, OneGood
<1>7. at' \in [Player -> Session \cup {NoSession}]
  BY LosesType DEF Unknown, TypeInv
<1> QED BY <1>6, <1>7 DEF Unknown, TypeInv, TypeOK, row, shared, find, transfers

LEMMA AdmitType ==
    ASSUME SessionAssumption, TypeInv, NEW s \in Session, Admit(s)
    PROVE  TypeInv'
<1> DEFINE c == client[s]
           p == client[s].of
           d == [Flags(c, 2) EXCEPT !.phase = "playing"]
<1>1. c.phase = "entering" /\ c.phase # "new"
  BY DEF Admit
<1>2. p \in Player /\ c # NoClient /\ c \in Client /\ Good(c)
  BY <1>1, InUse
<1>3. c.on \in Place
  BY <1>1, <1>2 DEF Good
<1>4. SetRow(p, 2) /\ client' = [client EXCEPT ![s] = d]
  BY DEF Admit
<1>5. d \in Client /\ d.on = c.on /\ d.of = c.of /\ d.channel = c.channel
  <2> DEFINE e == Flags(c, 2)
  <2>1. e \in Client /\ e.on = c.on /\ e.of = c.of /\ e.channel = c.channel
    BY <1>2, FlagsType
  <2> HIDE DEF e
  <2>2. [e EXCEPT !.phase = "playing"] \in Client
    BY <2>1 DEF Client, Phase
  <2>3. /\ [e EXCEPT !.phase = "playing"].on = e.on
        /\ [e EXCEPT !.phase = "playing"].of = e.of
        /\ [e EXCEPT !.phase = "playing"].channel = e.channel
    BY <2>1 DEF Client
  <2> QED BY <2>1, <2>2, <2>3 DEF e
<1>6. Good(d)
  BY <1>2, <1>3, <1>5, Kept
<1>7. client' \in [Session -> Client] /\ Connections'
  BY <1>4, <1>6, OneGood
<1>8. loggedin' \in [Player -> 0..3] /\ lapsed' \in [Player -> BOOLEAN]
  BY <1>4, SetRowType DEF TypeInv
<1>9. idToChar' \in [Place -> SUBSET Player]
  BY <1>2 DEF Admit, TypeInv, TypeOK
<1>10. idToChannel' \in [Player -> Place \cup {Nowhere}]
  BY <1>3 DEF Admit, TypeInv, TypeOK
<1> QED BY <1>7, <1>8, <1>9, <1>10 DEF Admit, TypeInv, TypeOK, game, transfers

\* What a refusal leaves of a MapleClient.
LEMMA RefusedGood ==
    ASSUME NEW c, NEW e \in Client, Good(c), c # NoClient,
           e.on = c.on, e.of = c.of, e.channel = c.channel,
           NEW ph \in Phase \ {"entering", "playing"}, NEW o \in BOOLEAN
    PROVE  Good([e EXCEPT !.phase = ph, !.copy = "none", !.open = o])
<1> DEFINE d == [e EXCEPT !.phase = ph, !.copy = "none", !.open = o]
<1>1. d \in Client /\ d.on = e.on /\ d.of = e.of /\ d.channel = e.channel
      /\ d.phase = ph
  BY DEF Client, Copy
<1> HIDE DEF d
<1>2. Good(d)
  BY <1>1, Kept
<1> QED BY <1>2 DEF d

LEMMA RejectType ==
    ASSUME SessionAssumption, TypeInv, NEW s \in Session, Reject(s)
    PROVE  TypeInv'
<1> DEFINE c == client[s]
           p == client[s].of
           d == [FlagsAfter(c, p) EXCEPT !.phase = "left", !.copy = "none",
                                         !.open = FALSE]
<1>1. c.phase # "new" /\ Read(p) /\ client' = [client EXCEPT ![s] = d]
  BY DEF Reject
<1>2. p \in Player /\ c # NoClient /\ c \in Client /\ Good(c)
  BY <1>1, InUse
<1>3. "left" \in Phase \ {"entering", "playing"}
  BY DEF Phase
<1>4. Good(d)
  BY <1>2, <1>3, FlagsAfterType, RefusedGood
<1>5. client' \in [Session -> Client] /\ Connections'
  BY <1>1, <1>4, OneGood
<1>6. loggedin' \in [Player -> 0..3] /\ lapsed' \in [Player -> BOOLEAN]
  BY <1>1, <1>2, ReadType DEF TypeInv
<1>7. at' \in [Player -> Session \cup {NoSession}]
  BY LosesType DEF Reject, TypeInv
<1> QED BY <1>5, <1>6, <1>7 DEF Reject, TypeInv, TypeOK, shared, transfers, find

\* Several connections at once may see their data change, or be closed.
LEMMA AllGood ==
    ASSUME TypeInv, NEW f, client' = [t \in Session |-> f[t]],
           \A t \in Session : Good(f[t])
    PROVE  client' \in [Session -> Client] /\ Connections'
BY DEF Connections, Good

LEMMA PlayType ==
    ASSUME SessionAssumption, TypeInv, NEW s \in Session, Play(s)
    PROVE  TypeInv'
<1> DEFINE p == client[s].of
           f == [t \in Session |->
                   IF t = s THEN [client[t] EXCEPT !.copy = "current"]
                   ELSE IF client[t].of = p /\ client[t].copy # "none"
                        THEN [client[t] EXCEPT !.copy = "old"]
                   ELSE client[t]]
<1>1. client' = f /\ client[s].open
  BY DEF Play, Idle
<1>2. ASSUME NEW t \in Session, NEW x \in Copy, client[t] # NoClient
      PROVE  Good([client[t] EXCEPT !.copy = x])
  <2>1. Good(client[t]) /\ client[t] \in Client
    BY DEF TypeInv, Connections, Good
  <2>2. [client[t] EXCEPT !.copy = x] \in Client
    BY <2>1 DEF Client
  <2> QED BY <1>2, <2>1, <2>2, Kept DEF Client, Good
<1>3. client[s] # NoClient
  BY <1>1, InUse
<1>4. \A t \in Session : client[t].copy # "none" => client[t] # NoClient
  BY DEF NoClient
<1>5. "current" \in Copy /\ "old" \in Copy
  BY DEF Copy
<1>6. \A t \in Session : Good(f[t])
  BY <1>2, <1>3, <1>4, <1>5 DEF TypeInv, Connections
<1>7. client' = [t \in Session |-> f[t]]
  BY <1>1
<1> HIDE DEF f
<1>8. client' \in [Session -> Client] /\ Connections'
  BY <1>6, <1>7, AllGood
<1>9. saved' \in [Player -> BOOLEAN]
  BY DEF Play, TypeInv, TypeOK
<1>10. pending' \in [Place -> [Player -> Copy]]
  BY DEF Play, TypeInv, TypeOK, Copy
<1> QED BY <1>8, <1>9, <1>10 DEF Play, TypeInv, TypeOK, game, find

\* A MapleClient whose player was sent on or given up.
LEMMA SentGood ==
    ASSUME NEW c, NEW e \in Client, Good(c), c # NoClient,
           e.on = c.on, e.of = c.of, e.channel = c.channel,
           NEW ph \in Phase \ {"entering", "playing"}, NEW x \in Copy
    PROVE  Good([e EXCEPT !.phase = ph, !.copy = x])
<1> DEFINE d == [e EXCEPT !.phase = ph, !.copy = x]
<1>1. d \in Client /\ d.on = e.on /\ d.of = e.of /\ d.channel = e.channel
      /\ d.phase = ph
  BY DEF Client
<1> HIDE DEF d
<1>2. Good(d)
  BY <1>1, Kept
<1> QED BY <1>2 DEF d

LEMMA SentOnGood ==
    ASSUME NEW c, Good(c), c # NoClient, NEW n,
           NEW ph \in Phase \ {"entering", "playing"}
    PROVE  /\ Good([Flags(c, n) EXCEPT !.phase = ph])
           /\ Good([Flags(c, n) EXCEPT !.phase = ph, !.copy = "none"])
<1> DEFINE e == Flags(c, n)
<1>1. c \in Client
  BY DEF Good
<1>2. e \in Client /\ e.on = c.on /\ e.of = c.of /\ e.channel = c.channel
  BY <1>1, FlagsType
<1> HIDE DEF e
<1>3. "none" \in Copy /\ e.copy \in Copy
  BY <1>2 DEF Copy, Client
<1>4. [e EXCEPT !.phase = ph] = [e EXCEPT !.phase = ph, !.copy = e.copy]
  BY <1>2 DEF Client
<1>5. Good([e EXCEPT !.phase = ph, !.copy = "none"])
  BY <1>2, <1>3, SentGood
<1>6. Good([e EXCEPT !.phase = ph, !.copy = e.copy])
  BY <1>2, <1>3, SentGood
<1> QED BY <1>4, <1>5, <1>6 DEF e

LEMMA ChangeChannelType ==
    ASSUME SessionAssumption, TypeInv, NEW s \in Session, NEW ch \in Channel,
           ChangeChannel(s, ch)
    PROVE  TypeInv'
<1> DEFINE c == client[s]
           p == client[s].of
           d == [Flags(c, 3) EXCEPT !.phase = "leaving"]
<1>1. c.open /\ SetRow(p, 3) /\ client' = [client EXCEPT ![s] = d]
  BY DEF ChangeChannel, Idle
<1>2. p \in Player /\ c # NoClient /\ c \in Client /\ Good(c)
  BY <1>1, InUse
<1>3. "leaving" \in Phase \ {"entering", "playing"}
  BY DEF Phase
<1>4. Good(d)
  BY <1>2, <1>3, SentOnGood
<1>5. client' \in [Session -> Client] /\ Connections'
  BY <1>1, <1>4, OneGood
<1>6. loggedin' \in [Player -> 0..3] /\ lapsed' \in [Player -> BOOLEAN]
  BY <1>1, SetRowType DEF TypeInv
<1>7. AddressOf[p] \in Address /\ ch \in Place
  BY <1>2 DEF SessionAssumption, Place
<1>8. c.copy \in Copy
  BY <1>2 DEF Client
<1>9. pending' \in [Place -> [Player -> Copy]]
  BY <1>8 DEF ChangeChannel, TypeInv, TypeOK
<1>10. /\ told' \in [Player -> Place \cup {Nowhere}]
       /\ idToChannel' \in [Player -> Place \cup {Nowhere}]
  BY <1>7 DEF ChangeChannel, TypeInv, TypeOK
<1>11. idToChar' \in [Place -> SUBSET Player]
  BY DEF ChangeChannel, TypeInv, TypeOK
<1>12. loginIPAuth' \subseteq Address
  BY <1>7 DEF ChangeChannel, TypeInv, TypeOK
<1> QED BY <1>5, <1>6, <1>9, <1>10, <1>11, <1>12 DEF ChangeChannel, TypeInv, TypeOK

LEMMA LeaveCSType ==
    ASSUME SessionAssumption, TypeInv, NEW s \in Session, LeaveCS(s)
    PROVE  TypeInv'
<1> DEFINE c == client[s]
           p == client[s].of
           d == [Flags(c, 1) EXCEPT !.phase = "leaving"]
<1>1. c.open /\ SetRow(p, 1) /\ client' = [client EXCEPT ![s] = d]
  BY DEF LeaveCS, Idle
<1>2. p \in Player /\ c # NoClient /\ c \in Client /\ Good(c)
  BY <1>1, InUse
<1>3. "leaving" \in Phase \ {"entering", "playing"}
  BY DEF Phase
<1>4. Good(d)
  BY <1>2, <1>3, SentOnGood
<1>5. client' \in [Session -> Client] /\ Connections'
  BY <1>1, <1>4, OneGood
<1>6. loggedin' \in [Player -> 0..3] /\ lapsed' \in [Player -> BOOLEAN]
  BY <1>1, SetRowType DEF TypeInv
<1>7. c.copy \in Copy /\ c.channel \in Place \cup {Nowhere}
  BY <1>2 DEF Client, Place
<1>8. pending' \in [Place -> [Player -> Copy]]
  BY <1>7 DEF LeaveCS, TypeInv, TypeOK
<1>9. /\ told' \in [Player -> Place \cup {Nowhere}]
      /\ idToChannel' \in [Player -> Place \cup {Nowhere}]
  BY <1>7 DEF LeaveCS, TypeInv, TypeOK
<1>10. idToChar' \in [Place -> SUBSET Player]
  BY DEF LeaveCS, TypeInv, TypeOK
<1> QED BY <1>5, <1>6, <1>8, <1>9, <1>10 DEF LeaveCS, TypeInv, TypeOK

LEMMA FinishLeavingType ==
    ASSUME SessionAssumption, TypeInv, NEW s \in Session, FinishLeaving(s)
    PROVE  TypeInv'
<1> DEFINE c == client[s]
           p == client[s].of
           o == c.open /\ ~(c.on = CashShop)
           d == [c EXCEPT !.phase = "left", !.copy = "none", !.open = o]
<1>1. c.phase = "leaving" /\ Save(s) /\ client' = [client EXCEPT ![s] = d]
  BY DEF FinishLeaving
<1>2. p \in Player /\ c # NoClient /\ c \in Client /\ Good(c)
  BY <1>1, InUse
<1>3. "left" \in Phase \ {"entering", "playing"} /\ o \in BOOLEAN
  BY DEF Phase
<1> HIDE DEF o
<1>4. Good(d)
  BY <1>2, <1>3, RefusedGood
<1>5. client' \in [Session -> Client] /\ Connections'
  BY <1>1, <1>4, OneGood
<1>6. saved' \in [Player -> BOOLEAN]
  BY <1>1, SaveType DEF TypeInv
<1>7. at' \in [Player -> Session \cup {NoSession}]
  BY LosesType DEF FinishLeaving, TypeInv, TypeOK
<1>8. overtaken' \subseteq Player
  BY <1>2 DEF FinishLeaving, Mark, TypeInv, TypeOK
<1>9. AddressOf[p] \in Address
  BY <1>2 DEF SessionAssumption
<1>10. loginIPAuth' \subseteq Address
  BY <1>9 DEF FinishLeaving, TypeInv, TypeOK
<1> QED BY <1>5, <1>6, <1>7, <1>8, <1>10
        DEF FinishLeaving, TypeInv, TypeOK, transfers, find

LEMMA EnterCSType ==
    ASSUME SessionAssumption, TypeInv, NEW s \in Session, EnterCS(s)
    PROVE  TypeInv'
<1> DEFINE c == client[s]
           p == client[s].of
           d == [Flags(c, 3) EXCEPT !.phase = "left", !.copy = "none"]
<1>1. /\ c.open /\ c.on \in Channel
      /\ SetRow(p, 3) /\ Save(s) /\ client' = [client EXCEPT ![s] = d]
  BY DEF EnterCS, Idle
<1>2. p \in Player /\ c # NoClient /\ c \in Client /\ Good(c)
  BY <1>1, InUse
<1>3. "left" \in Phase \ {"entering", "playing"}
  BY DEF Phase
<1>4. Good(d)
  BY <1>2, <1>3, SentOnGood
<1>5. client' \in [Session -> Client] /\ Connections'
  BY <1>1, <1>4, OneGood
<1>6. loggedin' \in [Player -> 0..3] /\ lapsed' \in [Player -> BOOLEAN]
  BY <1>1, SetRowType DEF TypeInv
<1>7. c.copy \in Copy /\ CashShop \in Place
  BY <1>2 DEF Client, Place
<1>8. pending' \in [Place -> [Player -> Copy]]
  BY <1>7 DEF EnterCS, TypeInv, TypeOK
<1>9. /\ told' \in [Player -> Place \cup {Nowhere}]
      /\ idToChannel' \in [Player -> Place \cup {Nowhere}]
  BY <1>7 DEF EnterCS, TypeInv, TypeOK
<1>10. idToChar' \in [Place -> SUBSET Player]
  BY DEF EnterCS, TypeInv, TypeOK
<1>11. origin' \in [Player -> Channel \cup {Nowhere}]
  BY <1>1 DEF EnterCS, TypeInv, TypeOK
<1>12. saved' \in [Player -> BOOLEAN]
  BY <1>1, SaveType DEF TypeInv
<1>13. overtaken' \subseteq Player
  BY <1>2 DEF EnterCS, Mark, TypeInv, TypeOK
<1> QED BY <1>5, <1>6, <1>8, <1>9, <1>10, <1>11, <1>12, <1>13
        DEF EnterCS, TypeInv, TypeOK

\* What disconnect may write, whoever calls it.
LEMMA DisconnectType ==
    ASSUME SessionAssumption, TypeInv, NEW s \in Session, NEW c, c.of \in Player,
           NEW fromCS, NEW n \in 0..3, Disconnect(s, c, fromCS, n)
    PROVE  /\ saved' \in [Player -> BOOLEAN] /\ loginAuth' \subseteq Player
           /\ idToChar' \in [Place -> SUBSET Player]
           /\ idToChannel' \in [Player -> Place \cup {Nowhere}]
           /\ loggedin' \in [Player -> 0..3] /\ lapsed' \in [Player -> BOOLEAN]
           /\ overtaken' \subseteq Player
<1> USE DEF TypeInv
<1>1. saved' \in [Player -> BOOLEAN] /\ loginAuth' \subseteq Player
  BY SaveType DEF Disconnect, TypeOK
<1>2. /\ idToChar' \in [Place -> SUBSET Player]
      /\ idToChannel' \in [Player -> Place \cup {Nowhere}]
  <2>1. CASE Removes(c, fromCS)
    <3>1. /\ idToChar' = [idToChar EXCEPT ![c.channel] = idToChar[c.channel] \ {c.of}]
          /\ idToChannel' = [idToChannel EXCEPT ![c.of] = Nowhere]
      BY <2>1 DEF Disconnect
    <3>2. idToChar' \in [Place -> SUBSET Player]
      BY <3>1 DEF TypeOK
    <3>3. idToChannel' \in [Player -> Place \cup {Nowhere}]
      BY <3>1 DEF TypeOK
    <3> QED BY <3>2, <3>3
  <2>2. CASE ~Removes(c, fromCS)
    BY <2>2 DEF Disconnect, TypeOK, find
  <2> QED BY <2>1, <2>2
<1>3. loggedin' \in [Player -> 0..3]
  BY DEF Disconnect, TypeOK
<1>4. lapsed' \in [Player -> BOOLEAN]
  <2> DEFINE b == lapsed[c.of] /\ ~LogsOut(c, fromCS) /\ n = loggedin[c.of]
  <2>1. b \in BOOLEAN /\ lapsed' = [lapsed EXCEPT ![c.of] = b]
    BY DEF Disconnect
  <2> HIDE DEF b
  <2> QED BY <2>1 DEF TypeOK
<1>5. overtaken' \subseteq Player
  BY DEF Disconnect, Mark, TypeOK
<1> QED BY <1>1, <1>2, <1>3, <1>4, <1>5

LEMMA InactiveType ==
    ASSUME SessionAssumption, TypeInv, NEW s \in Session, Inactive(s)
    PROVE  TypeInv'
<1> DEFINE c == client[s]
           p == client[s].of
<1>1. c # NoClient /\ client' = [client EXCEPT ![s] = NoClient]
  BY DEF Inactive, Closed
<1>2. p \in Player /\ c \in Client
  BY <1>1 DEF TypeInv, Connections, Good
<1>3. client' \in [Session -> Client] /\ Connections'
  BY <1>1, NoClientGood, OneGood
<1>4. FlagsAfter(c, p).of = p /\ RowAfter(p) \in 0..3 /\ loggedin[p] \in 0..3
  BY <1>2, FlagsAfterType, RowType DEF TypeInv, TypeOK
<1>5. /\ saved' \in [Player -> BOOLEAN] /\ loginAuth' \subseteq Player
      /\ idToChar' \in [Place -> SUBSET Player]
      /\ idToChannel' \in [Player -> Place \cup {Nowhere}]
      /\ loggedin' \in [Player -> 0..3] /\ lapsed' \in [Player -> BOOLEAN]
      /\ overtaken' \subseteq Player
  <2>1. CASE UNCHANGED <<row, loginAuth, find, overtaken>>
    BY <2>1 DEF row, find, TypeInv, TypeOK
  <2>2. CASE Disconnect(s, FlagsAfter(c, p), FALSE, RowAfter(p))
    BY <1>2, <1>4, <2>2, DisconnectType
  <2>3. CASE Disconnect(s, c, c.on = CashShop, loggedin[p])
    <3> DEFINE b == c.on = CashShop
    <3>1. Disconnect(s, c, b, loggedin[p])
      BY <2>3
    <3> HIDE DEF b
    <3> QED BY <1>2, <1>4, <3>1, DisconnectType
  <2> QED BY <2>1, <2>2, <2>3 DEF Inactive
<1> QED BY <1>3, <1>5 DEF Inactive, TypeInv, TypeOK, game, transfers

LEMMA DropType ==
    ASSUME SessionAssumption, TypeInv, NEW s \in Session, Drop(s)
    PROVE  TypeInv'
<1> DEFINE c == client[s]
           p == client[s].of
           e == IF LogsOut(c, FALSE) THEN Flags(c, 0) ELSE c
           d == [e EXCEPT !.phase = "dropped", !.copy = "none", !.open = FALSE]
<1>1. /\ c.phase = "playing" /\ Disconnect(s, c, FALSE, loggedin[p])
      /\ client' = [client EXCEPT ![s] = d]
  BY DEF Drop, Playing
<1>2. p \in Player /\ c # NoClient /\ c \in Client /\ Good(c)
  BY <1>1, InUse
<1>3. e \in Client /\ e.on = c.on /\ e.of = c.of /\ e.channel = c.channel
  BY <1>2, FlagsType
<1>4. "dropped" \in Phase \ {"entering", "playing"}
  BY DEF Phase
<1> HIDE DEF e
<1>5. Good(d)
  BY <1>2, <1>3, <1>4, RefusedGood
<1>6. client' \in [Session -> Client] /\ Connections'
  BY <1>1, <1>5, OneGood
<1>7. loggedin[p] \in 0..3
  BY <1>2 DEF TypeInv, TypeOK
<1>8. /\ saved' \in [Player -> BOOLEAN] /\ loginAuth' \subseteq Player
      /\ idToChar' \in [Place -> SUBSET Player]
      /\ idToChannel' \in [Player -> Place \cup {Nowhere}]
      /\ loggedin' \in [Player -> 0..3] /\ lapsed' \in [Player -> BOOLEAN]
      /\ overtaken' \subseteq Player
  BY <1>1, <1>2, <1>7, DisconnectType
<1>9. at' \in [Player -> Session \cup {NoSession}]
  BY LosesType DEF Drop, TypeInv
<1> QED BY <1>6, <1>8, <1>9 DEF Drop, TypeInv, TypeOK, transfers

LEMMA ConnectType ==
    ASSUME SessionAssumption, TypeInv, NEW p \in Player, NEW s \in Session,
           NEW srv \in Server, Connect(p, s, srv)
    PROVE  TypeInv'
<1> DEFINE on == IF srv \in Channel THEN srv ELSE Nowhere
           new == [NoClient EXCEPT !.on = srv, !.of = p, !.open = TRUE,
                                   !.channel = on]
           f(t) == IF t = s THEN new
                   ELSE IF t = at[p] THEN [client[t] EXCEPT !.open = FALSE]
                   ELSE client[t]
<1>1. client' = [t \in Session |-> f(t)]
  BY DEF Connect
<1>2. NoClient \in Client /\ NoClient.phase = "new"
  BY NoClientGood DEF Good, NoClient
<1>3. on \in Channel \cup {Nowhere} /\ (srv \in Channel => on = srv)
  OBVIOUS
<1> HIDE DEF on
<1>4. /\ new \in Client /\ new.phase = "new" /\ new.on = srv /\ new.of = p
      /\ new.channel = on
  BY <1>2, <1>3 DEF Client, Server
<1> HIDE DEF new
<1>5. Good(new)
  BY <1>3, <1>4 DEF Good
<1>6. ASSUME NEW t \in Session PROVE Good(f(t))
  <2>1. Good(client[t])
    BY DEF TypeInv, Connections
  <2>2. Good([client[t] EXCEPT !.open = FALSE])
    BY <2>1, HangUpAny
  <2> QED BY <1>5, <2>1, <2>2
<1> HIDE DEF f
<1>7. client' \in [Session -> Client] /\ Connections'
  BY <1>1, <1>6, AllGood
<1>8. /\ at' \in [Player -> Session \cup {NoSession}]
      /\ told' \in [Player -> Place \cup {Nowhere}]
      /\ loginIPAuth' \subseteq Address
  BY DEF Connect, TypeInv, TypeOK
<1> QED BY <1>7, <1>8 DEF Connect, TypeInv, TypeOK, row, transfers, find

\* What TurnedAway and Break have in common.
HangsUp(p) ==
    /\ client' = [t \in Session |->
          IF t = at[p] THEN [client[t] EXCEPT !.open = FALSE] ELSE client[t]]
    /\ at' = [at EXCEPT ![p] = NoSession]
    /\ told' = [told EXCEPT ![p] = Nowhere]
    /\ UNCHANGED <<row, shared, leftover, overtaken>>

LEMMA HungUpType ==
    ASSUME SessionAssumption, TypeInv, NEW p \in Player, HangsUp(p),
           breaks' \in [Player -> 0..MaxBreaks]
    PROVE  TypeInv'
<1> DEFINE f(t) == IF t = at[p] THEN [client[t] EXCEPT !.open = FALSE] ELSE client[t]
<1>1. ASSUME NEW t \in Session PROVE Good(f(t))
  BY HangUpAny DEF TypeInv, Connections
<1>2. client' = [t \in Session |-> f(t)]
  BY DEF HangsUp
<1> HIDE DEF f
<1>3. client' \in [Session -> Client] /\ Connections'
  BY <1>1, <1>2, AllGood
<1>4. /\ at' \in [Player -> Session \cup {NoSession}]
      /\ told' \in [Player -> Place \cup {Nowhere}]
  BY DEF HangsUp, TypeInv, TypeOK
<1> QED BY <1>3, <1>4 DEF HangsUp, TypeInv, TypeOK, row, shared, transfers, find

LEMMA ClientStepType ==
    ASSUME SessionAssumption, TypeInv, NEW p \in Player, ClientStep(p)
    PROVE  TypeInv'
<1>1. ASSUME NEW s \in Session, OpenLogin(p, s) PROVE TypeInv'
  BY <1>1, ServerFacts, ConnectType DEF OpenLogin
<1>2. ASSUME NEW s \in Session, OpenTold(p, s) PROVE TypeInv'
  <2>1. told[p] \in Server
    BY <1>2, ServerFacts DEF OpenTold, TypeInv, TypeOK
  <2> QED BY <1>2, <2>1, ConnectType DEF OpenTold
<1>3. CASE TurnedAway(p)
  <2>1. breaks' \in [Player -> 0..MaxBreaks]
    BY <1>3 DEF TurnedAway, TypeInv, TypeOK
  <2> QED BY <1>3, <2>1, HungUpType DEF TurnedAway, HangsUp
<1>4. CASE Break(p)
  <2>1. breaks' \in [Player -> 0..MaxBreaks]
    BY <1>4, SessionAssumption DEF Break, TypeInv, TypeOK, SessionAssumption
  <2> QED BY <1>4, <2>1, HungUpType DEF Break, HangsUp
<1> QED BY <1>1, <1>2, <1>3, <1>4 DEF ClientStep

LEMMA HandleType ==
    ASSUME SessionAssumption, TypeInv, NEW s \in Session, Handle(s)
    PROVE  TypeInv'
BY LoginType, SelectCharType, TakeOverType, LoadType, UnknownType, AdmitType,
   RejectType, PlayType, ChangeChannelType, LeaveCSType, EnterCSType,
   FinishLeavingType, InactiveType, DropType
   DEF Handle, Move

LEMMA PassType ==
    ASSUME SessionAssumption, TypeInv, NEW p \in Player, Pass(p)
    PROVE  TypeInv'
<1>1. CASE Lapse(p)
  BY <1>1 DEF Lapse, TypeInv, TypeOK, Connections, shared, transfers, find, game
<1>2. ASSUME NEW c \in Place, Persisting(c, p) PROVE TypeInv'
  <2>1. pending' \in [Place -> [Player -> Copy]]
    BY <1>2 DEF Persisting, TypeInv, TypeOK, Copy
  <2>2. origin' \in [Player -> Channel \cup {Nowhere}]
    BY <1>2 DEF Persisting, TypeInv, TypeOK
  <2> QED BY <1>2, <2>1, <2>2
          DEF Persisting, TypeInv, TypeOK, Connections, row, find, game
<1> QED BY <1>1, <1>2 DEF Pass

LEMMA InitType ==
    ASSUME SessionAssumption, Init
    PROVE  TypeInv
<1>1. NoClient \in Client /\ Good(NoClient)
  BY NoClientGood DEF Good
<1>2. client \in [Session -> Client] /\ Connections
  BY <1>1 DEF Init, Connections
<1> QED BY <1>2 DEF Init, TypeInv, TypeOK, Copy, SessionAssumption

LEMMA StepType ==
    ASSUME SessionAssumption, TypeInv, [Next]_vars
    PROVE  TypeInv'
<1>1. CASE UNCHANGED vars
  BY <1>1 DEF vars, row, shared, transfers, find, game, TypeInv, TypeOK, Connections
<1> QED BY <1>1, ClientStepType, HandleType, PassType DEF Next

(* Every session, row, storage and transfer keeps its type, and a session   *)
(* that is in use belongs to a player and to a server (MapleClient, the     *)
(* table accounts, PlayerStorage).                                          *)
THEOREM SessionTypes == Spec => []TypeOK
<1>1. Init => TypeInv
  BY InitType, SessionAssumption
<1>2. TypeInv /\ [Next]_vars => TypeInv'
  BY StepType, SessionAssumption
<1>3. TypeInv => TypeOK
  BY DEF TypeInv
<1> QED BY <1>1, <1>2, <1>3, PTL DEF Spec

-----------------------------------------------------------------------------
(* No channel keeps a character nobody plays there.  What a closed session  *)
(* is found by is World.Find, and disconnect does nothing for a player that *)
(* it finds in the cash shop: so no player may be in a channel's storage    *)
(* while it is found there.                                                 *)

NotBoth == \A p \in Player : InChannel(p) => idToChannel[p] # CashShop
GhostInv == TypeInv /\ NoGhost /\ NotBoth

\* A session that goes on as it is; one whose player its channel let go of.
Stays(t) ==
    Playing(t) => /\ client'[t].phase = "playing"
                  /\ client'[t].of = client[t].of /\ client'[t].on = client[t].on
LetGo(t) == client[t].on \in Channel => client[t].of \notin idToChar'[client[t].on]

OnlyLeave == \A c \in Channel : idToChar'[c] \subseteq idToChar[c]

LEMMA KeepGhost ==
    ASSUME NoGhost, OnlyLeave, \A t \in Session : Stays(t) \/ LetGo(t)
    PROVE  NoGhost'
<1>1. SUFFICES ASSUME NEW p \in Player, NEW c \in Channel, p \in idToChar'[c]
               PROVE  \E t \in Session : /\ client'[t].phase = "playing"
                                         /\ client'[t].of = p /\ client'[t].on = c
  BY DEF NoGhost, Playing
<1>2. p \in idToChar[c]
  BY <1>1 DEF OnlyLeave
<1>3. PICK t \in Session : Playing(t) /\ client[t].of = p /\ client[t].on = c
  BY <1>2 DEF NoGhost
<1>4. ~LetGo(t)
  BY <1>1, <1>3 DEF LetGo
<1> QED BY <1>3, <1>4 DEF Stays

LEMMA KeepBoth ==
    ASSUME NotBoth, SessionAssumption, OnlyLeave,
           \A p \in Player : idToChannel'[p] \in {idToChannel[p], Nowhere}
    PROVE  NotBoth'
<1>1. SUFFICES ASSUME NEW p \in Player, NEW c \in Channel, p \in idToChar'[c]
               PROVE  idToChannel'[p] # CashShop
  BY DEF NotBoth, InChannel
<1>2. p \in idToChar[c]
  BY <1>1 DEF OnlyLeave
<1>3. idToChannel[p] # CashShop /\ Nowhere # CashShop
  BY <1>2, ServerFacts DEF NotBoth, InChannel
<1> QED BY <1>3

\* The steps that leave storages and World.Find alone and interrupt nobody.
LEMMA QuietStep ==
    ASSUME GhostInv, SessionAssumption, UNCHANGED find,
           \A t \in Session : Stays(t)
    PROVE  NoGhost' /\ NotBoth'
<1>1. OnlyLeave /\ \A p \in Player : idToChannel'[p] \in {idToChannel[p], Nowhere}
  BY DEF OnlyLeave, find
<1> QED BY <1>1, KeepGhost, KeepBoth DEF GhostInv

\* A step of one session, which others do not notice.
LEMMA OneStays ==
    ASSUME TypeInv, NEW s \in Session, NEW d,
           client' = [client EXCEPT ![s] = d],
           Playing(s) => /\ d.phase = "playing"
                         /\ d.of = client[s].of /\ d.on = client[s].on
    PROVE  \A t \in Session : Stays(t)
BY DEF TypeInv, TypeOK, Stays, Playing

\* A step of one session that takes its player out of the channel.
LEMMA OneLeaves ==
    ASSUME GhostInv, SessionAssumption, NEW s \in Session, NEW d,
           client' = [client EXCEPT ![s] = d], OnlyLeave, LetGo(s),
           \A p \in Player : idToChannel'[p] \in {idToChannel[p], Nowhere}
    PROVE  NoGhost' /\ NotBoth'
<1>1. \A t \in Session : t # s => client'[t] = client[t]
  BY DEF GhostInv, TypeInv, TypeOK
<1>2. \A t \in Session : t # s => Stays(t)
  BY <1>1 DEF Stays, Playing
<1> QED BY <1>2, KeepGhost, KeepBoth DEF GhostInv

\* On a channel, the channel of the session; elsewhere, no matter.
LEMMA LeavesHere ==
    ASSUME GhostInv, SessionAssumption, NEW s \in Session, NEW d,
           client[s].of \in Player, client[s].on \in Place,
           client' = [client EXCEPT ![s] = d],
           idToChar' = [idToChar EXCEPT ![client[s].on] =
                            idToChar[client[s].on] \ {client[s].of}],
           idToChannel' = [idToChannel EXCEPT ![client[s].of] = Nowhere]
    PROVE  NoGhost' /\ NotBoth'
<1>1. Channel \subseteq Place
  BY DEF Place
<1>2. OnlyLeave /\ LetGo(s)
  BY <1>1 DEF OnlyLeave, LetGo, GhostInv, TypeInv, TypeOK
<1>3. \A p \in Player : idToChannel'[p] \in {idToChannel[p], Nowhere}
  BY DEF GhostInv, TypeInv, TypeOK
<1> QED BY <1>2, <1>3, OneLeaves

LEMMA AdmitGhost ==
    ASSUME SessionAssumption, GhostInv, NEW s \in Session, Admit(s)
    PROVE  NoGhost' /\ NotBoth'
<1> DEFINE c == client[s]
           p == client[s].of
           e == Flags(c, 2)
           d == [e EXCEPT !.phase = "playing"]
<1>1. /\ c.phase = "entering" /\ ~InChannel(p)
      /\ client' = [client EXCEPT ![s] = d]
      /\ idToChar' = [idToChar EXCEPT ![c.on] = idToChar[c.on] \cup {p}]
      /\ idToChannel' = [idToChannel EXCEPT ![p] = c.on]
  BY DEF Admit, MayEnter
<1>2. p \in Player /\ c \in Client /\ c.on \in Place
  BY <1>1, InUse DEF GhostInv, Good
<1>3. e \in Client /\ e.of = p /\ e.on = c.on
  BY <1>2, FlagsType
<1> HIDE DEF e
<1>4. d.phase = "playing" /\ d.of = p /\ d.on = c.on
  BY <1>3 DEF Client
<1> HIDE DEF d
<1>5. client \in [Session -> Client] /\ Channel \subseteq Place
      /\ idToChar \in [Place -> SUBSET Player]
      /\ idToChannel \in [Player -> Place \cup {Nowhere}]
  BY DEF GhostInv, TypeInv, TypeOK, Place
<1>6. NoGhost'
  <2>1. SUFFICES ASSUME NEW q \in Player, NEW ch \in Channel, q \in idToChar'[ch]
                 PROVE  \E t \in Session : /\ client'[t].phase = "playing"
                                           /\ client'[t].of = q /\ client'[t].on = ch
    BY DEF NoGhost, Playing
  <2>2. CASE q = p /\ ch = c.on
    <3>1. client'[s] = d
      BY <1>1, <1>5
    <3> QED BY <1>4, <2>2, <3>1
  <2>3. CASE ~(q = p /\ ch = c.on)
    <3>1. q \in idToChar[ch]
      BY <1>1, <1>5, <2>1, <2>3
    <3>2. PICK t \in Session : Playing(t) /\ client[t].of = q /\ client[t].on = ch
      BY <3>1 DEF GhostInv, NoGhost
    <3>3. t # s
      BY <1>1, <3>2 DEF Playing
    <3>4. client'[t] = client[t]
      BY <1>1, <1>5, <3>3
    <3> QED BY <3>2, <3>4 DEF Playing
  <2> QED BY <2>2, <2>3
<1>7. NotBoth'
  <2>1. SUFFICES ASSUME NEW q \in Player, NEW ch \in Channel, q \in idToChar'[ch]
                 PROVE  idToChannel'[q] # CashShop
    BY DEF NotBoth, InChannel
  <2>2. CASE q = p
    <3>1. q \notin idToChar[ch]
      BY <1>1, <2>2 DEF InChannel
    <3>2. ch = c.on
      BY <1>1, <1>5, <2>1, <3>1
    <3> QED BY <1>1, <1>2, <1>5, <2>2, <3>2, ServerFacts
  <2>3. CASE q # p
    <3>1. q \in idToChar[ch] /\ idToChannel'[q] = idToChannel[q]
      BY <1>1, <1>5, <2>1, <2>3
    <3> QED BY <3>1 DEF GhostInv, NotBoth, InChannel
  <2> QED BY <2>2, <2>3
<1> QED BY <1>6, <1>7

\* disconnect, called with the session as it is but for its flags: a player is
\* left in its channel only if it is found in the cash shop, and it is not.
LEMMA DisconnectGhost ==
    ASSUME SessionAssumption, GhostInv, NEW s \in Session, NEW c, NEW d,
           NEW fromCS, NEW n,
           client[s] # NoClient, c.of = client[s].of, c.phase = client[s].phase,
           c.channel = client[s].channel,
           fromCS => client[s].on = CashShop,
           Disconnect(s, c, fromCS, n), client' = [client EXCEPT ![s] = d],
           Playing(s) \/ \A t \in Session : Stays(t)
    PROVE  NoGhost' /\ NotBoth'
<1> DEFINE b == client[s]
           p == client[s].of
<1>1. /\ p \in Player /\ (b.on \in Channel => b.channel = b.on)
      /\ idToChar \in [Place -> SUBSET Player]
      /\ idToChannel \in [Player -> Place \cup {Nowhere}]
      /\ Channel \subseteq Place
  BY DEF GhostInv, TypeInv, TypeOK, Connections, Good, Place
<1>2. CASE Removes(c, fromCS)
  <2>1. /\ idToChar' = [idToChar EXCEPT ![b.channel] = idToChar[b.channel] \ {p}]
        /\ idToChannel' = [idToChannel EXCEPT ![p] = Nowhere]
    BY <1>2 DEF Disconnect
  <2>2. OnlyLeave /\ LetGo(s)
    BY <1>1, <2>1 DEF OnlyLeave, LetGo
  <2>3. \A q \in Player : idToChannel'[q] \in {idToChannel[q], Nowhere}
    BY <1>1, <2>1
  <2> QED BY <2>2, <2>3, OneLeaves
<1>3. CASE ~Removes(c, fromCS)
  <2>1. UNCHANGED find
    BY <1>3 DEF Disconnect, find
  <2>2. CASE Playing(s) /\ b.on \in Channel
    <3>1. ~fromCS
      BY <2>2, ServerFacts
    <3>2. idToChannel[p] \notin Channel /\ idToChannel[p] # Nowhere
      BY <1>3, <2>2, <3>1 DEF Removes, Silent, Playing
    <3>3. idToChannel[p] = CashShop
      BY <1>1, <3>2 DEF Place
    <3>4. ~InChannel(p)
      BY <1>1, <3>3 DEF GhostInv, NotBoth
    <3>5. LetGo(s)
      BY <2>1, <2>2, <3>4 DEF LetGo, InChannel, find
    <3>6. OnlyLeave /\ \A q \in Player : idToChannel'[q] \in {idToChannel[q], Nowhere}
      BY <2>1 DEF OnlyLeave, find
    <3> QED BY <3>5, <3>6, OneLeaves
  <2>3. CASE Playing(s) /\ b.on \notin Channel
    <3>1. LetGo(s)
      BY <2>3 DEF LetGo
    <3>2. OnlyLeave /\ \A q \in Player : idToChannel'[q] \in {idToChannel[q], Nowhere}
      BY <2>1 DEF OnlyLeave, find
    <3> QED BY <3>1, <3>2, OneLeaves
  <2>4. CASE ~Playing(s)
    BY <2>1, <2>4, QuietStep
  <2> QED BY <2>2, <2>3, <2>4
<1> QED BY <1>2, <1>3

LEMMA ClientStepGhost ==
    ASSUME SessionAssumption, GhostInv, NEW p \in Player, ClientStep(p)
    PROVE  NoGhost' /\ NotBoth'
<1>1. \A t \in Session :
          [client[t] EXCEPT !.open = FALSE].phase = client[t].phase
          /\ [client[t] EXCEPT !.open = FALSE].of = client[t].of
          /\ [client[t] EXCEPT !.open = FALSE].on = client[t].on
  BY DEF GhostInv, TypeInv, TypeOK, Client
<1>2. ASSUME NEW s \in Session, NEW srv, Connect(p, s, srv)
      PROVE  UNCHANGED find /\ \A t \in Session : Stays(t)
  <2>1. ASSUME NEW t \in Session PROVE Stays(t)
    <3>1. CASE t = s
      BY <1>2, <3>1 DEF Connect, Stays, Playing, NoClient
    <3>2. CASE t # s
      <4>1. client'[t] = IF t = at[p] THEN [client[t] EXCEPT !.open = FALSE]
                         ELSE client[t]
        BY <1>2, <3>2 DEF Connect
      <4> QED BY <1>1, <4>1 DEF Stays, Playing
    <3> QED BY <3>1, <3>2
  <2> QED BY <1>2, <2>1 DEF Connect
<1>3. ASSUME HangsUp(p)
      PROVE  UNCHANGED find /\ \A t \in Session : Stays(t)
  <2>1. ASSUME NEW t \in Session PROVE Stays(t)
    <3>1. client'[t] = IF t = at[p] THEN [client[t] EXCEPT !.open = FALSE]
                       ELSE client[t]
      BY <1>3 DEF HangsUp
    <3> QED BY <1>1, <3>1 DEF Stays, Playing
  <2> QED BY <1>3, <2>1 DEF HangsUp, shared
<1>4. (\E s \in Session, srv \in Server : Connect(p, s, srv)) \/ HangsUp(p)
  BY ServerFacts DEF ClientStep, OpenLogin, OpenTold, TurnedAway, Break, HangsUp,
                     GhostInv, TypeInv, TypeOK
<1> QED BY <1>2, <1>3, <1>4, QuietStep

\* Login, SelectChar, TakeOver, Load, Unknown, Reject, FinishLeaving: nobody
\* comes or goes.
LEMMA BeforeGhost ==
    ASSUME SessionAssumption, GhostInv, NEW s \in Session,
           \/ Login(s) \/ (\E c \in Channel : SelectChar(s, c))
           \/ TakeOver(s) \/ Load(s) \/ Unknown(s) \/ Reject(s) \/ FinishLeaving(s)
    PROVE  NoGhost' /\ NotBoth'
<1> DEFINE c == client[s]
<1>1. UNCHANGED find
  BY DEF Login, SelectChar, TakeOver, Load, Unknown, Reject, FinishLeaving, shared
<1>2. c \in Client
  BY DEF GhostInv, TypeInv, TypeOK
<1>3. CASE Login(s) \/ \E ch \in Channel : SelectChar(s, ch)
  <2>1. PICK d \in {Flags(c, 2), Flags(c, 1), [c EXCEPT !.loggedIn = FALSE]} :
            client' = [client EXCEPT ![s] = d]
    BY <1>3 DEF Login, SelectChar
  <2>2. d.phase = c.phase /\ d.of = c.of /\ d.on = c.on
    <3>1. CASE d = [c EXCEPT !.loggedIn = FALSE]
      BY <1>2, <3>1 DEF Client
    <3>2. CASE d # [c EXCEPT !.loggedIn = FALSE]
      BY <1>2, <2>1, <3>2, FlagsType
    <3> QED BY <3>1, <3>2
  <2>3. \A t \in Session : Stays(t)
    BY <2>1, <2>2, OneStays DEF GhostInv, Playing
  <2> QED BY <1>1, <2>3, QuietStep
<1>4. CASE TakeOver(s) \/ Load(s) \/ Unknown(s) \/ Reject(s) \/ FinishLeaving(s)
  <2>1. c.phase # "playing" /\ \E d : client' = [client EXCEPT ![s] = d]
    <3>1. CASE TakeOver(s)
      BY <3>1 DEF TakeOver
    <3>2. CASE Load(s)
      BY <3>2 DEF Load
    <3>3. CASE Unknown(s)
      BY <3>3 DEF Unknown
    <3>4. CASE Reject(s)
      BY <3>4 DEF Reject
    <3>5. CASE FinishLeaving(s)
      BY <3>5 DEF FinishLeaving
    <3> QED BY <1>4, <3>1, <3>2, <3>3, <3>4, <3>5
  <2>2. \A t \in Session : Stays(t)
    BY <2>1, OneStays DEF GhostInv, Playing
  <2> QED BY <1>1, <2>2, QuietStep
<1> QED BY <1>3, <1>4

LEMMA PlayGhost ==
    ASSUME SessionAssumption, GhostInv, NEW s \in Session, Play(s)
    PROVE  NoGhost' /\ NotBoth'
<1>1. ASSUME NEW t \in Session PROVE Stays(t)
  <2>1. client[t] \in Client
    BY DEF GhostInv, TypeInv, TypeOK
  <2>2. PICK x \in {client[t].copy, "current", "old"} :
            client'[t] = [client[t] EXCEPT !.copy = x]
    <3>1. client[t] = [client[t] EXCEPT !.copy = client[t].copy]
      BY <2>1 DEF Client
    <3> QED BY <3>1 DEF Play
  <2>3. /\ client'[t].phase = client[t].phase
        /\ client'[t].of = client[t].of /\ client'[t].on = client[t].on
    BY <2>1, <2>2 DEF Client
  <2> QED BY <2>3 DEF Stays, Playing
<1> QED BY <1>1, QuietStep DEF Play

LEMMA MoveGhost ==
    ASSUME SessionAssumption, GhostInv, NEW s \in Session, Move(s)
    PROVE  NoGhost' /\ NotBoth'
<1>1. client[s].of \in Player /\ client[s].on \in Place
  BY InUse DEF Move, ChangeChannel, LeaveCS, EnterCS, Idle, GhostInv, Place
<1>2. /\ \E d : client' = [client EXCEPT ![s] = d]
      /\ idToChar' = [idToChar EXCEPT ![client[s].on] =
                          idToChar[client[s].on] \ {client[s].of}]
      /\ idToChannel' = [idToChannel EXCEPT ![client[s].of] = Nowhere]
  <2>1. CASE \E c \in Channel : ChangeChannel(s, c)
    BY <2>1 DEF ChangeChannel
  <2>2. CASE LeaveCS(s)
    BY <2>2 DEF LeaveCS
  <2>3. CASE EnterCS(s)
    BY <2>3 DEF EnterCS
  <2> QED BY <2>1, <2>2, <2>3 DEF Move
<1> QED BY <1>1, <1>2, LeavesHere

LEMMA InactiveGhost ==
    ASSUME SessionAssumption, GhostInv, NEW s \in Session, Inactive(s)
    PROVE  NoGhost' /\ NotBoth'
<1> DEFINE c == client[s]
           p == client[s].of
<1>1. c # NoClient /\ c \in Client /\ client' = [client EXCEPT ![s] = NoClient]
  BY DEF Inactive, Closed, GhostInv, TypeInv, TypeOK
<1>2. ~Playing(s) => \A t \in Session : Stays(t)
  BY <1>1, OneStays DEF GhostInv
<1>3. CASE c.on \in Channel /\ c.phase \in {"new", "refused"}
  <2>1. UNCHANGED find /\ ~Playing(s)
    BY <1>3 DEF Inactive, Playing
  <2> QED BY <1>2, <2>1, QuietStep
<1>4. CASE c.on \in Channel /\ c.phase \notin {"new", "refused"}
  <2> DEFINE e == FlagsAfter(c, p)
  <2>1. Disconnect(s, e, FALSE, RowAfter(p))
    BY <1>4 DEF Inactive
  <2>2. e.of = c.of /\ e.phase = c.phase /\ e.channel = c.channel
    BY <1>1, FlagsAfterType
  <2> HIDE DEF e
  <2> QED BY <1>1, <1>2, <2>1, <2>2, DisconnectGhost
<1>5. CASE c.on \notin Channel
  <2> DEFINE b == c.on = CashShop
  <2>1. Disconnect(s, c, b, loggedin[p])
    BY <1>5 DEF Inactive
  <2>2. b => c.on = CashShop
    OBVIOUS
  <2> HIDE DEF b
  <2> QED BY <1>1, <1>2, <2>1, <2>2, DisconnectGhost
<1> QED BY <1>3, <1>4, <1>5

LEMMA DropGhost ==
    ASSUME SessionAssumption, GhostInv, NEW s \in Session, Drop(s)
    PROVE  NoGhost' /\ NotBoth'
<1> DEFINE c == client[s]
<1>1. /\ Playing(s) /\ Disconnect(s, c, FALSE, loggedin[c.of])
      /\ \E d : client' = [client EXCEPT ![s] = d]
  BY DEF Drop
<1>2. c # NoClient
  BY <1>1 DEF Playing, NoClient
<1> QED BY <1>1, <1>2, DisconnectGhost

LEMMA StepGhost ==
    ASSUME SessionAssumption, GhostInv, [Next]_vars
    PROVE  GhostInv'
<1>1. TypeInv'
  BY StepType DEF GhostInv
<1>2. NoGhost' /\ NotBoth'
  <2>1. CASE UNCHANGED vars
    <3>1. UNCHANGED find /\ \A t \in Session : Stays(t)
      BY <2>1 DEF vars, shared, Stays, Playing
    <3> QED BY <3>1, QuietStep
  <2>2. ASSUME NEW p \in Player, ClientStep(p) PROVE NoGhost' /\ NotBoth'
    BY <2>2, ClientStepGhost
  <2>3. ASSUME NEW s \in Session, Handle(s) PROVE NoGhost' /\ NotBoth'
    BY <2>3, BeforeGhost, AdmitGhost, PlayGhost, MoveGhost, InactiveGhost,
       DropGhost DEF Handle
  <2>4. ASSUME NEW p \in Player, Pass(p) PROVE NoGhost' /\ NotBoth'
    <3>1. UNCHANGED find /\ UNCHANGED client
      BY <2>4 DEF Pass, Lapse, Persisting, shared
    <3>2. \A t \in Session : Stays(t)
      BY <3>1 DEF Stays, Playing
    <3> QED BY <3>1, <3>2, QuietStep
  <2> QED BY <2>1, <2>2, <2>3, <2>4 DEF Next
<1> QED BY <1>1, <1>2 DEF GhostInv

(* However connections break, close late or overlap, no channel's storage   *)
(* keeps a character that no session plays there: MapleClient.disconnect,   *)
(* changeChannel and EnterCS take out everybody who goes.                   *)
THEOREM NobodyLeftBehind == Spec => []NoGhost
<1>1. Init => GhostInv
  <2>1. Init => TypeInv
    BY InitType, SessionAssumption
  <2>2. Init => NoGhost /\ NotBoth
    BY DEF Init, NoGhost, NotBoth, InChannel, Place
  <2> QED BY <2>1, <2>2 DEF GhostInv
<1>2. GhostInv /\ [Next]_vars => GhostInv'
  BY StepGhost, SessionAssumption
<1>3. GhostInv => NoGhost
  BY DEF GhostInv
<1> QED BY <1>1, <1>2, <1>3, PTL DEF Spec

-----------------------------------------------------------------------------
(* One place, found there, row true.                                        *)
(*                                                                          *)
(* What keeps a player from being let in twice is that there is never more  *)
(* than one connection of it that is in the game, holds the row, or is      *)
(* about to be let in (Live), and none while the game client is between two *)
(* servers (OnTheWay).  What keeps the row and the storages true is that    *)
(* the connections that are left behind are none of these, and carry flags  *)
(* with which their late end changes nothing.                               *)

\* A connection that will reset the row, or whose player is let in soon.
Holding(c) ==
    /\ c.loggedIn /\ ~c.serverTransition
    /\ c.on = LoginServer \/ c.phase = "playing"
Live(c) == Holding(c) \/ c.phase = "entering"

\* At a server with a storage, its PLAYER_LOGGEDIN still to be handled.
Arriving(c) == c.open /\ c.phase = "new" /\ c.on \in Place

Belongs(s, p) == client[s].of = p
Busy(p) == \E s \in Session : Belongs(s, p) /\ Live(client[s])
OnTheWay(p) == told[p] # Nowhere \/ \E s \in Session : Belongs(s, p) /\ Arriving(client[s])

\* Of any player: only a change of servers times out; a game client uses one
\* connection; and which flags go with which phase.
Lapses == \A p \in Player : lapsed[p] => loggedin[p] \in {1, 3}

OneOpen ==
    /\ \A s \in Session : client[s].open => at[client[s].of] = s
    /\ \A p \in Player : at[p] # NoSession => Belongs(at[p], p) /\ client[at[p]].open

FlagsFit(c) ==
    /\ c.phase = "playing" => c.loggedIn /\ ~c.serverTransition
    /\ c.on = LoginServer => c.phase = "new" /\ (c.loggedIn => ~c.serverTransition)
    /\ c.phase \in {"new", "refused"} /\ c.on # LoginServer => ~c.loggedIn
AllFlagsFit == \A s \in Session : FlagsFit(client[s])

Base == Lapses /\ OneOpen /\ AllFlagsFit

\* Of a player that was not overtaken:
OneLive(p) ==
    \A s, t \in Session :
        Belongs(s, p) /\ Belongs(t, p) /\ Live(client[s]) /\ Live(client[t]) => s = t

Travels(p) ==
    /\ OnTheWay(p) => ~Busy(p)
    /\ told[p] # Nowhere => \A s \in Session :
          Belongs(s, p) /\ client[s].open =>
              /\ ~Arriving(client[s])
              /\ client[s].on = LoginServer => client[s].serverTransition

Behind(c) ==
    /\ c.phase \in {"leaving", "left"} =>
          ~c.loggedIn /\ (c.on \in Channel => c.serverTransition)
    /\ c.phase = "dropped" => ~c.loggedIn
LeftBehind(p) ==
    \A s \in Session : Belongs(s, p) =>
        /\ Behind(client[s])
        /\ client[s].phase = "dropped" => ~Busy(p) /\ ~OnTheWay(p)

RowOf(p) == loggedin[p] = 2 <=> \E s \in Session : Belongs(s, p) /\ Holding(client[s])

FoundOf(p) ==
    \A s \in Session : Belongs(s, p) /\ client[s].phase = "playing" =>
        idToChannel[p] = client[s].on /\ p \in idToChar[client[s].on]

Orderly(p) == OneLive(p) /\ Travels(p) /\ LeftBehind(p) /\ RowOf(p) /\ FoundOf(p)

AllOrderly == \A p \in Player \ overtaken : Orderly(p)
OrderInv == GhostInv /\ Base /\ AllOrderly

-----------------------------------------------------------------------------
\* Nothing about a player p has changed.
Untouched(p) ==
    /\ \A t \in Session : Belongs(t, p) \/ client'[t].of = p => client'[t] = client[t]
    /\ told'[p] = told[p] /\ loggedin'[p] = loggedin[p]
    /\ idToChannel'[p] = idToChannel[p]
    /\ \A c \in Place : p \in idToChar'[c] <=> p \in idToChar[c]

LEMMA UntouchedOrderly ==
    ASSUME SessionAssumption, TypeInv, NEW p \in Player, Orderly(p), Untouched(p)
    PROVE  Orderly(p)'
<1>1. \A t \in Session : Belongs(t, p)' <=> Belongs(t, p)
  BY DEF Untouched, Belongs
<1>2. \A t \in Session : Belongs(t, p) => client'[t] = client[t]
  BY DEF Untouched
<1>3. Busy(p)' <=> Busy(p)
  BY <1>1, <1>2 DEF Busy, Live, Holding
<1>4. OnTheWay(p)' <=> OnTheWay(p)
  BY <1>1, <1>2 DEF OnTheWay, Arriving, Untouched
<1>5. OneLive(p)'
  BY <1>1, <1>2 DEF Orderly, OneLive, Live, Holding
<1>6. Travels(p)'
  BY <1>1, <1>2, <1>3, <1>4 DEF Orderly, Travels, Untouched, Arriving
<1>7. LeftBehind(p)'
  BY <1>1, <1>2, <1>3, <1>4 DEF Orderly, LeftBehind, Behind
<1>8. RowOf(p)'
  BY <1>1, <1>2 DEF Orderly, RowOf, Untouched, Holding
<1>9. FoundOf(p)'
  <2> SUFFICES ASSUME NEW t \in Session, Belongs(t, p)', client'[t].phase = "playing"
               PROVE  idToChannel'[p] = client'[t].on /\ p \in idToChar'[client'[t].on]
    BY DEF FoundOf
  <2>1. Belongs(t, p) /\ client'[t] = client[t]
    BY <1>1, <1>2
  <2>2. client[t].on \in Place
    BY <2>1 DEF TypeInv, Connections, Good
  <2> QED BY <2>1, <2>2 DEF Orderly, FoundOf, Untouched
<1> QED BY <1>5, <1>6, <1>7, <1>8, <1>9 DEF Orderly

\* One connection of p goes from c to d.
Becomes(s, d) == client' = [client EXCEPT ![s] = d]

LEMMA OthersUntouched ==
    ASSUME TypeInv, NEW s \in Session, NEW d, Becomes(s, d), d.of \in {client[s].of, NoPlayer},
           NoPlayer \notin Player, NEW q \in Player, q # client[s].of,
           told'[q] = told[q], loggedin'[q] = loggedin[q], idToChannel'[q] = idToChannel[q],
           \A c \in Place : q \in idToChar'[c] <=> q \in idToChar[c]
    PROVE  Untouched(q)
<1>1. client'[s] = d /\ \A t \in Session : t # s => client'[t] = client[t]
  BY DEF Becomes, TypeInv, TypeOK
<1> QED BY <1>1 DEF Untouched, Belongs

\* The flags of one connection and the game client's choice of it.
LEMMA OneFits ==
    ASSUME TypeInv, Base, NEW s \in Session, NEW d, Becomes(s, d), FlagsFit(d),
           \/ d.open = client[s].open /\ d.of = client[s].of /\ UNCHANGED at
           \/ ~d.open /\ (client[s].of \in Player => Loses(client[s].of, s))
                     /\ (client[s].of \notin Player => UNCHANGED at)
    PROVE  OneOpen' /\ AllFlagsFit'
<1>1. /\ client'[s] = d /\ \A t \in Session : t # s => client'[t] = client[t]
      /\ at \in [Player -> Session \cup {NoSession}]
  BY DEF Becomes, TypeInv, TypeOK
<1>2. AllFlagsFit'
  BY <1>1 DEF Base, AllFlagsFit, FlagsFit
<1>3. OneOpen'
  <2>0. OneOpen
    BY DEF Base
  <2>1. CASE d.open = client[s].open /\ d.of = client[s].of /\ UNCHANGED at
    BY <1>1, <2>0, <2>1 DEF OneOpen, Belongs
  <2>2. CASE ~d.open /\ client[s].of \in Player /\ Loses(client[s].of, s)
    <3>1. \A p \in Player : at'[p] # NoSession => at'[p] = at[p] /\ at[p] # s
      BY <1>1, <2>0, <2>2 DEF Loses, OneOpen, Belongs
    <3>2. \A t \in Session : t # s /\ client[t].open => at'[client[t].of] = t
      BY <1>1, <2>0, <2>2 DEF Loses, OneOpen, Belongs
    <3> QED BY <1>1, <2>0, <2>2, <3>1, <3>2 DEF OneOpen, Belongs
  <2>3. CASE ~d.open /\ client[s].of \notin Player /\ UNCHANGED at
    BY <1>1, <2>0, <2>3 DEF OneOpen, Belongs
  <2> QED BY <2>1, <2>2, <2>3
<1> QED BY <1>2, <1>3

\* A step of one connection of p keeps p orderly, if: only what was on the way
\* or held the row comes to life, and alone; the game client is sent on by the
\* live one, which lives no longer; what is left behind is harmless; and the
\* row and the storages follow.
LEMMA OneOrderly ==
    ASSUME SessionAssumption, TypeInv, Base, NEW p \in Player, NEW s \in Session, NEW c, NEW d,
           c = client[s], Belongs(s, p), Orderly(p), Becomes(s, d), d.of = p \/ d = NoClient,
           Live(d) /\ ~Live(c) =>
              /\ c.open /\ told'[p] = Nowhere /\ ~Arriving(d) /\ ~Busy(p)
              /\ \A t \in Session : Belongs(t, p) => client[t].phase # "dropped",
           told'[p] # told[p] => c.open /\ Live(c) /\ ~Live(d),
           Arriving(d) => Arriving(c), d.open => c.open,
           told'[p] # Nowhere /\ d.open =>
              ~Arriving(d) /\ (d.on = LoginServer => d.serverTransition),
           Behind(d),
           d.phase = "dropped" =>
              c.phase = "dropped" \/ (Live(c) /\ ~Live(d) /\ told'[p] = told[p]),
           \/ (loggedin'[p] = 2 <=> loggedin[p] = 2) /\ (Holding(d) <=> Holding(c))
           \/ loggedin'[p] = 2 /\ Holding(d)
           \/ loggedin'[p] # 2 /\ ~Holding(d) /\ (Live(c) \/ loggedin[p] # 2),
           d.phase = "playing" => idToChannel'[p] = d.on /\ p \in idToChar'[d.on],
           \/ Live(c)
           \/ /\ idToChannel'[p] = idToChannel[p]
              /\ \A x \in Place : p \in idToChar'[x] <=> p \in idToChar[x]
    PROVE  Orderly(p)'
<1>1. client'[s] = d /\ \A t \in Session : t # s => client'[t] = client[t]
  BY DEF Becomes, TypeInv, TypeOK
<1>2. d = NoClient => d.of \notin Player /\ ~Live(d) /\ ~Arriving(d) /\ d.phase = "new"
  BY DEF NoClient, SessionAssumption, Live, Holding, Arriving
<1>3. /\ \A t \in Session : t # s => (Belongs(t, p)' <=> Belongs(t, p))
      /\ Belongs(s, p)' <=> d # NoClient
  BY <1>1, <1>2 DEF Belongs
<1>4. c.open => \A t \in Session : t # s /\ Belongs(t, p) => ~client[t].open
  BY DEF Base, OneOpen, Belongs
<1>5. Live(c) => \A t \in Session : t # s /\ Belongs(t, p) => ~Live(client[t])
  BY DEF Orderly, OneLive
<1>6. Live(c) => Busy(p)
  BY DEF Busy
<1>7. Live(c) /\ ~Live(d) => ~Busy(p)'
  BY <1>1, <1>3, <1>5 DEF Busy, Live, Holding
<1>8. Busy(p)' => Busy(p) \/ (Live(d) /\ ~Live(c))
  BY <1>1, <1>3, <1>6 DEF Busy, Live, Holding
<1>9. told'[p] = told[p] /\ OnTheWay(p)' => OnTheWay(p)
  BY <1>1, <1>3 DEF OnTheWay, Arriving
<1>10. OneLive(p)'
  <2> SUFFICES ASSUME NEW t \in Session, NEW u \in Session, Belongs(t, p)', Belongs(u, p)',
                      Live(client'[t]), Live(client'[u])
               PROVE  t = u
    BY DEF OneLive, Live, Holding
  <2>1. CASE t # s /\ u # s
    BY <1>1, <1>3, <2>1 DEF Orderly, OneLive
  <2>2. ASSUME NEW v \in Session, v # s, Belongs(v, p), Live(client[v])
        PROVE  ~Live(d)
    BY <1>5, <2>2 DEF Busy
  <2> QED BY <1>1, <1>3, <2>1, <2>2
<1>11. Travels(p)'
  <2>1. OnTheWay(p)' => ~Busy(p)'
    <3>1. CASE Live(d) /\ ~Live(c)
      <4>1. \A t \in Session : Belongs(t, p)' => ~Arriving(client'[t])
        BY <1>1, <1>3, <1>4, <3>1 DEF Arriving
      <4> QED BY <3>1, <4>1 DEF OnTheWay, Arriving
    <3>2. CASE told'[p] # told[p]
      BY <1>7, <3>2
    <3>3. CASE ~(Live(d) /\ ~Live(c)) /\ told'[p] = told[p]
      BY <1>8, <1>9, <3>3 DEF Orderly, Travels
    <3> QED BY <3>1, <3>2, <3>3
  <2>2. ASSUME told'[p] # Nowhere, NEW t \in Session, Belongs(t, p)', client'[t].open
        PROVE  ~Arriving(client'[t]) /\ (client'[t].on = LoginServer => client'[t].serverTransition)
    <3>1. CASE t = s
      BY <1>1, <2>2, <3>1
    <3>2. CASE t # s
      <4>1. Belongs(t, p) /\ client'[t] = client[t] /\ told'[p] = told[p]
        BY <1>1, <1>3, <1>4, <2>2, <3>2
      <4> QED BY <2>2, <4>1 DEF Orderly, Travels
    <3> QED BY <3>1, <3>2
  <2> QED BY <2>1, <2>2 DEF Travels, Arriving
<1>12. LeftBehind(p)'
  <2>1. ASSUME NEW t \in Session, Belongs(t, p), client[t].phase = "dropped"
        PROVE  ~Busy(p)' /\ ~OnTheWay(p)'
    <3>1. ~Busy(p) /\ ~OnTheWay(p)
      BY <2>1 DEF Orderly, LeftBehind
    <3>2. told'[p] = told[p] /\ ~(Live(d) /\ ~Live(c))
      BY <1>6, <2>1, <3>1
    <3> QED BY <1>8, <1>9, <3>1, <3>2
  <2>2. ASSUME d.phase = "dropped"
        PROVE  ~Busy(p)' /\ ~OnTheWay(p)'
    <3>1. CASE c.phase = "dropped"
      BY <2>1, <3>1
    <3>2. CASE Live(c) /\ ~Live(d) /\ told'[p] = told[p]
      <4>1. ~OnTheWay(p)
        BY <1>6, <3>2 DEF Orderly, Travels
      <4> QED BY <1>7, <1>9, <3>2, <4>1
    <3> QED BY <2>2, <3>1, <3>2
  <2>3. ASSUME NEW t \in Session, Belongs(t, p)'
        PROVE  Behind(client'[t]) /\ (client'[t].phase = "dropped" => ~Busy(p)' /\ ~OnTheWay(p)')
    <3>1. CASE t = s
      BY <1>1, <2>2, <3>1
    <3>2. CASE t # s
      <4>1. Belongs(t, p) /\ client'[t] = client[t]
        BY <1>1, <1>3, <2>3, <3>2
      <4> QED BY <2>1, <4>1 DEF Orderly, LeftBehind
    <3> QED BY <3>1, <3>2
  <2> QED BY <2>3 DEF LeftBehind, Behind
<1>13. RowOf(p)'
  <2>1. RowOf(p)
    BY DEF Orderly
  <2>2. Holding(c) => Live(c)
    BY DEF Live
  <2>3. \A t \in Session : Holding(client[t]) => Live(client[t])
    BY DEF Live
  <2>4. Holding(d) => d # NoClient
    BY <1>2 DEF Live
  <2>5. CASE (loggedin'[p] = 2 <=> loggedin[p] = 2) /\ (Holding(d) <=> Holding(c))
    <3>1. \A t \in Session : Belongs(t, p)' /\ Holding(client'[t]) <=> Belongs(t, p) /\ Holding(client[t])
      BY <1>1, <1>3, <2>4, <2>5
    <3> QED BY <2>1, <2>5, <3>1 DEF RowOf, Holding
  <2>6. CASE loggedin'[p] = 2 /\ Holding(d)
    BY <1>1, <1>3, <2>4, <2>6 DEF RowOf, Holding
  <2>7. CASE loggedin'[p] # 2 /\ ~Holding(d) /\ (Live(c) \/ loggedin[p] # 2)
    <3>1. \A t \in Session : t # s /\ Belongs(t, p) => ~Holding(client[t])
      BY <1>5, <2>1, <2>3, <2>7 DEF RowOf
    <3> QED BY <1>1, <1>3, <2>7, <3>1 DEF RowOf, Holding
  <2> QED BY <2>5, <2>6, <2>7
<1>14. FoundOf(p)'
  <2> SUFFICES ASSUME NEW t \in Session, Belongs(t, p)', client'[t].phase = "playing"
               PROVE  idToChannel'[p] = client'[t].on /\ p \in idToChar'[client'[t].on]
    BY DEF FoundOf
  <2>1. CASE t = s
    BY <1>1, <2>1
  <2>2. CASE t # s
    <3>1. Belongs(t, p) /\ client'[t] = client[t]
      BY <1>1, <1>3, <2>2
    <3>2. Live(client[t]) /\ client[t].on \in Place
      BY <3>1 DEF Base, AllFlagsFit, FlagsFit, Live, Holding, TypeInv, Connections, Good
    <3>3. ~Live(c)
      BY <1>5, <2>2, <3>1, <3>2
    <3> QED BY <3>1, <3>2, <3>3 DEF Orderly, FoundOf
  <2> QED BY <2>1, <2>2
<1> QED BY <1>10, <1>11, <1>12, <1>13, <1>14 DEF Orderly

-----------------------------------------------------------------------------
\* What updateLoginState and getLoginState leave in the flags and in the row.
LEMMA FlagsFields ==
    ASSUME NEW c \in Client, NEW n
    PROVE  /\ Flags(c, n).loggedIn = (n \notin {0, 1, 3})
           /\ Flags(c, n).serverTransition = (n \in {1, 3})
           /\ Flags(c, n).open = c.open
<1> DEFINE moving == n \in {1, 3}
           in == n \notin {0, 1, 3}
<1>1. Flags(c, n) = [c EXCEPT !.serverTransition = moving, !.loggedIn = in]
  BY DEF Flags
<1> HIDE DEF moving, in
<1>2. /\ Flags(c, n).loggedIn = in /\ Flags(c, n).serverTransition = moving
      /\ Flags(c, n).open = c.open
  BY <1>1 DEF Client
<1> QED BY <1>2 DEF moving, in

\* A session that asks for the state of the row learns that it is in only when
\* the row says 2, and its account is moving no longer only when it timed out.
LEMMA AfterFields ==
    ASSUME TypeOK, Lapses, NEW c \in Client, NEW p \in Player
    PROVE  /\ loggedin[p] = 2 => /\ FlagsAfter(c, p).loggedIn
                                 /\ FlagsAfter(c, p).serverTransition = c.serverTransition
           /\ loggedin[p] # 2 /\ ~c.loggedIn => ~FlagsAfter(c, p).loggedIn
           /\ LoginState(p) = 0 => ~FlagsAfter(c, p).loggedIn
           /\ RowAfter(p) = 2 <=> loggedin[p] = 2
           /\ LoginState(p) = 2 <=> loggedin[p] = 2
           /\ LoginState(p) \in 0..3
<1> DEFINE in == [c EXCEPT !.loggedIn = TRUE]
           out == [c EXCEPT !.loggedIn = FALSE]
<1>1. in.loggedIn /\ in.serverTransition = c.serverTransition /\ ~out.loggedIn
  BY DEF Client
<1>2. ~Flags(c, 0).loggedIn
  BY FlagsFields
<1>3. /\ RowAfter(p) = 2 <=> loggedin[p] = 2
      /\ LoginState(p) = 2 <=> loggedin[p] = 2
      /\ loggedin[p] = 2 => ~lapsed[p]
      /\ LoginState(p) \in 0..3
  BY DEF Lapses, LoginState, RowAfter, TypeOK
<1> HIDE DEF in, out
<1>4. /\ lapsed[p] => FlagsAfter(c, p) = Flags(c, 0)
      /\ ~lapsed[p] /\ LoginState(p) = 2 => FlagsAfter(c, p) = in
      /\ ~lapsed[p] /\ LoginState(p) = 1 => FlagsAfter(c, p) = c
      /\ ~lapsed[p] /\ LoginState(p) \notin {1, 2} => FlagsAfter(c, p) = out
  <2>1. in = [c EXCEPT !.loggedIn = TRUE] /\ out = [c EXCEPT !.loggedIn = FALSE]
    BY DEF in, out
  <2>2. CASE lapsed[p]
    BY <2>2 DEF FlagsAfter, LoginState
  <2>3. CASE ~lapsed[p] /\ LoginState(p) = 2
    BY <2>1, <2>3 DEF FlagsAfter
  <2>4. CASE ~lapsed[p] /\ LoginState(p) = 1
    BY <2>4 DEF FlagsAfter
  <2>5. CASE ~lapsed[p] /\ LoginState(p) \notin {1, 2}
    BY <2>1, <2>5 DEF FlagsAfter
  <2> QED BY <2>2, <2>3, <2>4, <2>5
<1>5. loggedin[p] = 2 => FlagsAfter(c, p) = in
  BY <1>3, <1>4
<1>6. loggedin[p] # 2 => FlagsAfter(c, p) \in {Flags(c, 0), c, out}
  BY <1>3, <1>4
<1>7. LoginState(p) = 0 => FlagsAfter(c, p) \in {Flags(c, 0), out}
  BY <1>3, <1>4
<1>8. loggedin[p] # 2 /\ ~c.loggedIn => ~FlagsAfter(c, p).loggedIn
  BY <1>1, <1>2, <1>6
<1>9. LoginState(p) = 0 => ~FlagsAfter(c, p).loggedIn
  BY <1>1, <1>2, <1>7
<1>10. loggedin[p] = 2 => FlagsAfter(c, p).loggedIn
  BY <1>1, <1>5
<1>11. loggedin[p] = 2 => FlagsAfter(c, p).serverTransition = c.serverTransition
  BY <1>1, <1>5
<1> QED BY <1>3, <1>8, <1>9, <1>10, <1>11

\* The row of p changes, to n; nobody else's does.
RowBecomes(p, n) ==
    /\ loggedin'[p] = n
    /\ \A q \in Player \ {p} : loggedin'[q] = loggedin[q]
    /\ Lapses'

LEMMA SetRowLapses ==
    ASSUME TypeOK, Lapses, NEW p \in Player, NEW n, SetRow(p, n)
    PROVE  RowBecomes(p, n)
BY DEF TypeOK, Lapses, SetRow, RowBecomes

LEMMA ReadLapses ==
    ASSUME TypeOK, Lapses, NEW p \in Player, Read(p)
    PROVE  RowBecomes(p, RowAfter(p))
<1>1. PICK n : n = RowAfter(p)
  OBVIOUS
<1>2. loggedin' = [loggedin EXCEPT ![p] = n] /\ lapsed' = [lapsed EXCEPT ![p] = FALSE]
  BY <1>1 DEF Read
<1> QED BY <1>1, <1>2 DEF TypeOK, Lapses, RowBecomes

LEMMA DisconnectLapses ==
    ASSUME TypeOK, Lapses, NEW s, NEW c, NEW p \in Player, c.of = p, NEW fromCS, NEW n,
           Disconnect(s, c, fromCS, n)
    PROVE  RowBecomes(p, IF LogsOut(c, fromCS) THEN 0 ELSE n)
<1>1. PICK m : m = IF LogsOut(c, fromCS) THEN 0 ELSE n
  OBVIOUS
<1>2. /\ loggedin' = [loggedin EXCEPT ![p] = m]
      /\ lapsed' = [lapsed EXCEPT ![p] = lapsed[p] /\ ~LogsOut(c, fromCS) /\ n = loggedin[p]]
  BY <1>1 DEF Disconnect
<1>3. lapsed'[p] => m = loggedin[p] /\ lapsed[p]
  BY <1>1, <1>2 DEF TypeOK
<1>4. \A q \in Player : q # p => lapsed'[q] = lapsed[q] /\ loggedin'[q] = loggedin[q]
  BY <1>2 DEF TypeOK
<1>5. loggedin'[p] = m
  BY <1>2 DEF TypeOK
<1>6. ASSUME NEW q \in Player, lapsed'[q] PROVE loggedin'[q] \in {1, 3}
  BY <1>3, <1>4, <1>5, <1>6 DEF Lapses
<1> QED BY <1>1, <1>4, <1>5, <1>6 DEF Lapses, RowBecomes

\* Other players than p are where they were.
OnlyMoves(p) ==
    \A q \in Player \ {p} :
        /\ told'[q] = told[q] /\ idToChannel'[q] = idToChannel[q]
        /\ \A c \in Place : q \in idToChar'[c] <=> q \in idToChar[c]

\* A step of one connection keeps every player orderly if it keeps its own.
LEMMA OneStep ==
    ASSUME SessionAssumption, OrderInv, NEW s \in Session, NEW p \in Player, NEW d, NEW n,
           p = client[s].of, Becomes(s, d), d.of = p \/ d = NoClient, FlagsFit(d),
           \/ d.open = client[s].open /\ d.of = p /\ UNCHANGED at
           \/ ~d.open /\ Loses(p, s),
           RowBecomes(p, n), OnlyMoves(p), overtaken \subseteq overtaken',
           p \notin overtaken' => Orderly(p)'
    PROVE  Base' /\ AllOrderly'
<1>1. TypeInv /\ Base /\ AllOrderly
  BY DEF OrderInv, GhostInv
<1>2. OneOpen' /\ AllFlagsFit'
  BY <1>1, OneFits
<1>3. ASSUME NEW q \in Player, q \notin overtaken', q # p
      PROVE  Orderly(q)'
  <2>1. d.of \in {client[s].of, NoPlayer} /\ NoPlayer \notin Player
    BY DEF NoClient, SessionAssumption
  <2>2. Untouched(q)
    BY <1>1, <1>3, <2>1, OthersUntouched DEF RowBecomes, OnlyMoves
  <2>3. Orderly(q)
    BY <1>1, <1>3 DEF AllOrderly
  <2> QED BY <1>1, <2>2, <2>3, UntouchedOrderly
<1>4. AllOrderly'
  BY <1>3 DEF AllOrderly
<1> QED BY <1>2, <1>4 DEF Base, RowBecomes

-----------------------------------------------------------------------------
(* One handler after the other.                                             *)

\* The connection that a handler works on.
LEMMA Own ==
    ASSUME SessionAssumption, OrderInv, NEW s \in Session,
           client[s].open \/ client[s].phase # "new"
    PROVE  /\ TypeOK /\ TypeInv /\ Base /\ Lapses
           /\ client[s].of \in Player /\ client[s] \in Client /\ Good(client[s])
           /\ FlagsFit(client[s]) /\ client[s] # NoClient
           /\ Belongs(s, client[s].of)
           /\ client[s].of \notin overtaken => Orderly(client[s].of)
<1>1. TypeInv /\ Base /\ AllOrderly
  BY DEF OrderInv, GhostInv
<1> QED BY <1>1, InUse DEF TypeInv, Base, AllFlagsFit, AllOrderly, Belongs

\* What the row says of a player that is not in the game.
LEMMA NobodyHolds ==
    ASSUME NEW p \in Player, RowOf(p), NEW t \in Session, loggedin[p] # 2
    PROVE  ~(Belongs(t, p) /\ Holding(client[t]))
BY DEF RowOf

\* The flags of a session that logs in, that sends its player on, that logs out.
LEMMA FlagsIn ==
    ASSUME NEW c \in Client, NEW d, d = Flags(c, 2)
    PROVE  /\ d.loggedIn /\ ~d.serverTransition /\ d \in Client
           /\ d.open = c.open /\ d.on = c.on /\ d.of = c.of /\ d.phase = c.phase
<1>1. 2 \notin {0, 1, 3} /\ 2 \notin {1, 3}
  OBVIOUS
<1> QED BY <1>1, FlagsFields, FlagsType

LEMMA FlagsOut ==
    ASSUME NEW c \in Client, NEW d, NEW n \in {0, 1, 3}, d = Flags(c, n)
    PROVE  /\ ~d.loggedIn /\ (n # 0 => d.serverTransition) /\ d \in Client
           /\ d.open = c.open /\ d.on = c.on /\ d.of = c.of /\ d.phase = c.phase
<1>1. ~(n \notin {0, 1, 3}) /\ (n # 0 => n \in {1, 3})
  OBVIOUS
<1> QED BY <1>1, FlagsFields, FlagsType

LEMMA LoginOrder ==
    ASSUME SessionAssumption, OrderInv, NEW s \in Session, Login(s)
    PROVE  Base' /\ AllOrderly'
<1>0. PICK c, p : c = client[s] /\ p = client[s].of
  OBVIOUS
<1>1. c.open /\ c.phase \in {"new", "playing"} /\ c.on = LoginServer
      /\ ~c.loggedIn /\ ~c.serverTransition
      /\ UNCHANGED game /\ UNCHANGED find
  BY <1>0 DEF Login, Idle, shared
<1>2. /\ TypeOK /\ TypeInv /\ Base /\ Lapses /\ p \in Player /\ c \in Client /\ FlagsFit(c)
      /\ Belongs(s, p) /\ (p \notin overtaken => Orderly(p))
  BY <1>0, <1>1, Own
<1>3. UNCHANGED at /\ told'[p] = told[p] /\ OnlyMoves(p)
      /\ idToChannel'[p] = idToChannel[p] /\ idToChar' = idToChar
  BY <1>0, <1>1 DEF game, find, OnlyMoves
<1>4. ~Live(c) /\ c.phase = "new" /\ LoginServer \notin Place
  BY <1>0, <1>1, <1>2, ServerFacts DEF FlagsFit, Live, Holding
<1>5. p \notin overtaken => told[p] = Nowhere
  BY <1>0, <1>1, <1>2 DEF Orderly, Travels
<1>6. CASE LoginState(p) = 0
  <2>1. PICK d : d = Flags(c, 2)
    OBVIOUS
  <2>2. /\ Becomes(s, d) /\ SetRow(p, 2)
        /\ overtaken' = Mark(overtaken, p, \E t \in Others(s) :
                            client[t].phase \in {"entering", "leaving", "dropped"})
    BY <1>0, <1>6, <2>1 DEF Login, Becomes
  <2>3. /\ d.loggedIn /\ ~d.serverTransition /\ d.open = c.open
        /\ d.on = LoginServer /\ d.of = p /\ d.phase = "new"
    BY <1>0, <1>1, <1>2, <1>4, <2>1, FlagsIn
  <2>4. RowBecomes(p, 2)
    BY <1>0, <1>2, <2>2, SetRowLapses
  <2>5. FlagsFit(d) /\ Live(d) /\ Holding(d) /\ ~Arriving(d) /\ Behind(d)
    BY <1>0, <1>4, <2>3, ServerFacts DEF FlagsFit, Live, Holding, Arriving, Behind
  <2>6. loggedin[p] # 2
    BY <1>0, <1>2, <1>6, AfterFields
  <2>7. overtaken \subseteq overtaken'
    BY <1>0, <2>2 DEF Mark
  <2>8. ASSUME p \notin overtaken' PROVE Orderly(p)'
    <3>1. p \notin overtaken /\ \A t \in Others(s) : client[t].phase \notin {"entering", "dropped"}
      BY <1>0, <2>2, <2>8 DEF Mark
    <3>2. Orderly(p) /\ RowOf(p)
      BY <1>0, <1>2, <3>1 DEF Orderly
    <3>3. \A t \in Session : Belongs(t, p) => client[t].phase \notin {"entering", "dropped"}
      BY <1>0, <1>4, <3>1 DEF Others, Belongs
    <3>4. ~Busy(p)
      BY <1>0, <1>2, <2>6, <3>2, <3>3, NobodyHolds DEF Busy, Live
    <3>5. told'[p] = Nowhere /\ loggedin'[p] = 2
      BY <1>0, <1>3, <1>5, <2>4, <3>1 DEF RowBecomes
    <3>6. d.phase # "dropped" /\ d.phase # "playing"
      BY <1>0, <2>3
    <3> QED BY <1>0, <1>1, <1>2, <1>3, <1>5, <2>2, <2>3, <2>5, <3>1, <3>2, <3>3, <3>4, <3>5, <3>6,
               OneOrderly
  <2> QED BY <1>0, <1>2, <1>3, <2>2, <2>3, <2>4, <2>5, <2>7, <2>8, OneStep
<1>7. CASE LoginState(p) # 0
  <2>1. PICK d : d = [c EXCEPT !.loggedIn = FALSE]
    OBVIOUS
  <2>2. Becomes(s, d) /\ Read(p) /\ overtaken' = overtaken
    BY <1>0, <1>7, <2>1 DEF Login, Becomes
  <2>3. /\ ~d.loggedIn /\ d.open = c.open
        /\ d.on = LoginServer /\ d.of = p /\ d.phase = "new"
    BY <1>0, <1>1, <1>2, <1>4, <2>1 DEF Client
  <2>4. RowBecomes(p, RowAfter(p)) /\ (loggedin'[p] = 2 <=> loggedin[p] = 2)
    BY <1>0, <1>2, <2>2, ReadLapses, AfterFields DEF RowBecomes
  <2>5. /\ FlagsFit(d) /\ ~Live(d) /\ ~Arriving(d) /\ Behind(d)
        /\ Holding(d) <=> Holding(c)
    BY <1>0, <1>4, <2>3, ServerFacts DEF FlagsFit, Live, Holding, Arriving, Behind
  <2>6. ASSUME p \notin overtaken' PROVE Orderly(p)'
    <3>1. Orderly(p) /\ told'[p] = Nowhere
      BY <1>0, <1>2, <1>3, <1>5, <2>2, <2>6
    <3>2. d.phase # "dropped" /\ d.phase # "playing"
      BY <1>0, <2>3
    <3> QED BY <1>0, <1>1, <1>2, <1>3, <2>2, <2>3, <2>4, <2>5, <3>1, <3>2, OneOrderly
  <2> QED BY <1>0, <1>2, <1>3, <2>2, <2>3, <2>4, <2>5, <2>6, OneStep
<1> QED BY <1>0, <1>6, <1>7

LEMMA SelectCharOrder ==
    ASSUME SessionAssumption, OrderInv, NEW s \in Session, NEW ch \in Channel,
           SelectChar(s, ch)
    PROVE  Base' /\ AllOrderly'
<1>0. PICK c, p : c = client[s] /\ p = client[s].of
  OBVIOUS
<1>1. /\ c.open /\ c.on = LoginServer /\ c.loggedIn /\ SetRow(p, 1)
      /\ told' = [told EXCEPT ![p] = ch]
      /\ UNCHANGED at /\ UNCHANGED find /\ overtaken' = overtaken
  BY <1>0 DEF SelectChar, Idle
<1>2. /\ TypeOK /\ TypeInv /\ Base /\ Lapses /\ p \in Player /\ c \in Client /\ FlagsFit(c)
      /\ Belongs(s, p) /\ (p \notin overtaken => Orderly(p))
  BY <1>0, <1>1, Own
<1>3. PICK d : d = Flags(c, 1)
  OBVIOUS
<1>4. Becomes(s, d)
  BY <1>0, <1>3 DEF SelectChar, Becomes
<1>5. /\ ~d.loggedIn /\ d.serverTransition /\ d.open = c.open
      /\ d.on = LoginServer /\ d.of = p /\ d.phase = "new"
  <2>1. c.phase = "new"
    BY <1>1, <1>2 DEF FlagsFit
  <2>2. 1 \in {0, 1, 3} /\ 1 # 0
    OBVIOUS
  <2> QED BY <1>0, <1>1, <1>2, <1>3, <2>1, <2>2, FlagsOut
<1>6. told'[p] = ch /\ OnlyMoves(p) /\ ch # Nowhere
  BY <1>0, <1>1, <1>2, ServerFacts DEF OnlyMoves, find, TypeOK
<1>7. RowBecomes(p, 1)
  BY <1>0, <1>1, <1>2, SetRowLapses
<1>8. /\ FlagsFit(d) /\ ~Live(d) /\ ~Holding(d) /\ ~Arriving(d) /\ Behind(d)
      /\ Holding(c) /\ Live(c)
  BY <1>0, <1>1, <1>2, <1>5, ServerFacts DEF FlagsFit, Live, Holding, Arriving, Behind
<1>9. ASSUME p \notin overtaken' PROVE Orderly(p)'
  <2>1. Orderly(p) /\ loggedin'[p] # 2
    BY <1>0, <1>1, <1>2, <1>7, <1>9 DEF RowBecomes
  <2>2. d.phase # "dropped" /\ d.phase # "playing"
    BY <1>0, <1>5
  <2> QED BY <1>0, <1>1, <1>2, <1>4, <1>5, <1>8, <2>1, <2>2, OneOrderly
<1> QED BY <1>0, <1>1, <1>2, <1>4, <1>5, <1>6, <1>7, <1>8, <1>9, OneStep

\* Nothing is written to the row, and nobody comes or goes.
LEMMA StillRow ==
    ASSUME TypeOK, Lapses, NEW p \in Player, UNCHANGED row
    PROVE  RowBecomes(p, loggedin[p]) /\ loggedin'[p] = loggedin[p]
BY DEF row, RowBecomes, Lapses

LEMMA ComeInOrder ==
    ASSUME SessionAssumption, OrderInv, NEW s \in Session, TakeOver(s) \/ Load(s)
    PROVE  Base' /\ AllOrderly'
<1>0. PICK c, p : c = client[s] /\ p = client[s].of
  OBVIOUS
<1>1. /\ c.open /\ c.phase = "new" /\ c.on \in Place /\ UNCHANGED row
      /\ UNCHANGED game /\ UNCHANGED find /\ overtaken' = overtaken
  BY <1>0, ServerFacts DEF TakeOver, Load, Idle
<1>2. /\ TypeOK /\ TypeInv /\ Base /\ Lapses /\ p \in Player /\ c \in Client /\ FlagsFit(c)
      /\ Belongs(s, p) /\ (p \notin overtaken => Orderly(p))
  BY <1>0, <1>1, Own
<1>3. PICK d : Becomes(s, d) /\ d.phase = "entering" /\ d.on = c.on /\ d.of = p
               /\ d.open = c.open
  <2>1. CASE TakeOver(s)
    <3> DEFINE x == pending[c.on][p]
               y == IF c.on = CashShop THEN origin[p] ELSE c.channel
    <3>1. Becomes(s, [c EXCEPT !.phase = "entering", !.copy = x, !.channel = y])
      BY <1>0, <2>1 DEF TakeOver, Becomes
    <3> HIDE DEF x, y
    <3>2. PICK d : d = [c EXCEPT !.phase = "entering", !.copy = x, !.channel = y]
      OBVIOUS
    <3>3. d.phase = "entering" /\ d.on = c.on /\ d.of = c.of /\ d.open = c.open
      BY <1>2, <3>2 DEF Client
    <3> QED BY <1>0, <3>1, <3>2, <3>3
  <2>2. CASE Load(s)
    <3> DEFINE x == IF saved[p] THEN "current" ELSE "old"
    <3>1. Becomes(s, [c EXCEPT !.phase = "entering", !.copy = x])
      BY <1>0, <2>2 DEF Load, Becomes
    <3> HIDE DEF x
    <3>2. PICK d : d = [c EXCEPT !.phase = "entering", !.copy = x]
      OBVIOUS
    <3>3. d.phase = "entering" /\ d.on = c.on /\ d.of = c.of /\ d.open = c.open
      BY <1>2, <3>2 DEF Client
    <3> QED BY <1>0, <3>1, <3>2, <3>3
  <2> QED BY <1>0, <2>1, <2>2
<1>4. /\ UNCHANGED at /\ told'[p] = told[p] /\ OnlyMoves(p)
      /\ idToChannel'[p] = idToChannel[p] /\ idToChar' = idToChar
  BY <1>0, <1>1 DEF game, find, OnlyMoves
<1>5. RowBecomes(p, loggedin[p]) /\ loggedin'[p] = loggedin[p]
  BY <1>0, <1>1, <1>2, StillRow
<1>6. /\ FlagsFit(d) /\ Arriving(c) /\ ~Arriving(d) /\ Behind(d)
      /\ Holding(d) <=> Holding(c)
  BY <1>0, <1>1, <1>3, ServerFacts DEF FlagsFit, Holding, Arriving, Behind
<1>7. ASSUME p \notin overtaken' PROVE Orderly(p)'
  <2>1. Orderly(p) /\ OnTheWay(p)
    BY <1>0, <1>1, <1>2, <1>6, <1>7 DEF OnTheWay
  <2>2. /\ told'[p] = Nowhere /\ ~Busy(p)
        /\ \A t \in Session : Belongs(t, p) => client[t].phase # "dropped"
    BY <1>0, <1>1, <1>2, <1>4, <1>6, <2>1 DEF Orderly, Travels, LeftBehind
  <2>3. d.phase # "dropped" /\ d.phase # "playing"
    BY <1>0, <1>3
  <2> QED BY <1>0, <1>1, <1>2, <1>3, <1>4, <1>5, <1>6, <2>1, <2>2, <2>3, OneOrderly
<1> QED BY <1>0, <1>1, <1>2, <1>3, <1>4, <1>5, <1>6, <1>7, OneStep

LEMMA UnknownOrder ==
    ASSUME SessionAssumption, OrderInv, NEW s \in Session, Unknown(s)
    PROVE  Base' /\ AllOrderly'
<1>0. PICK c, p : c = client[s] /\ p = client[s].of
  OBVIOUS
<1>1. /\ c.open /\ c.phase = "new" /\ c.on \in Place /\ UNCHANGED row
      /\ UNCHANGED told /\ UNCHANGED find /\ overtaken' = overtaken /\ Loses(p, s)
  BY <1>0 DEF Unknown, Idle, shared
<1>2. /\ TypeOK /\ TypeInv /\ Base /\ Lapses /\ p \in Player /\ c \in Client /\ FlagsFit(c)
      /\ Belongs(s, p) /\ (p \notin overtaken => Orderly(p))
  BY <1>0, <1>1, Own
<1>3. PICK d : d = [c EXCEPT !.phase = "refused", !.open = FALSE]
  OBVIOUS
<1>4. Becomes(s, d)
  BY <1>0, <1>3 DEF Unknown, Becomes
<1>5. d.phase = "refused" /\ ~d.open /\ d.on = c.on /\ d.of = p /\ d.loggedIn = c.loggedIn
  BY <1>0, <1>2, <1>3 DEF Client
<1>6. /\ told'[p] = told[p] /\ OnlyMoves(p)
      /\ idToChannel'[p] = idToChannel[p] /\ idToChar' = idToChar
  BY <1>0, <1>1 DEF find, OnlyMoves
<1>7. RowBecomes(p, loggedin[p]) /\ loggedin'[p] = loggedin[p]
  BY <1>0, <1>1, <1>2, StillRow
<1>8. /\ FlagsFit(d) /\ ~Live(d) /\ ~Arriving(d) /\ Behind(d)
      /\ Holding(d) <=> Holding(c)
  BY <1>0, <1>1, <1>2, <1>5, ServerFacts DEF FlagsFit, Live, Holding, Arriving, Behind
<1>9. ASSUME p \notin overtaken' PROVE Orderly(p)'
  <2>1. Orderly(p)
    BY <1>0, <1>1, <1>2, <1>9
  <2>2. d.phase # "dropped" /\ d.phase # "playing"
    BY <1>0, <1>5
  <2> QED BY <1>0, <1>1, <1>2, <1>4, <1>5, <1>6, <1>7, <1>8, <2>1, <2>2, OneOrderly
<1> QED BY <1>0, <1>1, <1>2, <1>4, <1>5, <1>6, <1>7, <1>8, <1>9, OneStep

LEMMA AdmitOrder ==
    ASSUME SessionAssumption, OrderInv, NEW s \in Session, Admit(s)
    PROVE  Base' /\ AllOrderly'
<1>0. PICK c, p : c = client[s] /\ p = client[s].of
  OBVIOUS
<1>1. /\ c.phase = "entering" /\ SetRow(p, 2) /\ UNCHANGED game /\ overtaken' = overtaken
      /\ idToChar' = [idToChar EXCEPT ![c.on] = idToChar[c.on] \cup {p}]
      /\ idToChannel' = [idToChannel EXCEPT ![p] = c.on]
  BY <1>0 DEF Admit
<1>2. /\ TypeOK /\ TypeInv /\ Base /\ Lapses /\ p \in Player /\ c \in Client /\ FlagsFit(c)
      /\ Belongs(s, p) /\ (p \notin overtaken => Orderly(p)) /\ c.on \in Place
  BY <1>0, <1>1, Own DEF Good
<1>3. PICK e : e = Flags(c, 2)
  OBVIOUS
<1>4. PICK d : d = [e EXCEPT !.phase = "playing"]
  OBVIOUS
<1>5. Becomes(s, d)
  BY <1>0, <1>3, <1>4 DEF Admit, Becomes
<1>6. /\ e.loggedIn /\ ~e.serverTransition /\ e \in Client
      /\ e.open = c.open /\ e.on = c.on /\ e.of = c.of
  BY <1>2, <1>3, FlagsIn
<1>7. /\ d.loggedIn /\ ~d.serverTransition /\ d.phase = "playing"
      /\ d.open = c.open /\ d.on = c.on /\ d.of = p
  BY <1>0, <1>4, <1>6 DEF Client
<1>8. /\ UNCHANGED at /\ told'[p] = told[p] /\ OnlyMoves(p)
      /\ idToChannel'[p] = c.on /\ p \in idToChar'[c.on]
  BY <1>1, <1>2 DEF game, OnlyMoves, TypeOK
<1>9. RowBecomes(p, 2)
  BY <1>1, <1>2, SetRowLapses
<1>10. /\ FlagsFit(d) /\ Live(c) /\ Holding(d) /\ ~Arriving(d) /\ Behind(d)
       /\ d.on # LoginServer
  BY <1>1, <1>2, <1>7, ServerFacts DEF FlagsFit, Live, Holding, Arriving, Behind
<1>11. ASSUME p \notin overtaken' PROVE Orderly(p)'
  <2>1. Orderly(p) /\ loggedin'[p] = 2
    BY <1>1, <1>2, <1>9, <1>11 DEF RowBecomes
  <2>2. d.phase # "dropped"
    BY <1>7
  <2> QED BY <1>0, <1>2, <1>5, <1>7, <1>8, <1>10, <2>1, <2>2, OneOrderly
<1> QED BY <1>0, <1>1, <1>2, <1>5, <1>7, <1>8, <1>9, <1>10, <1>11, OneStep

\* Who is turned back is so by the cash shop, because its row timed out: the one
\* that is about to be let in is the only one of its player that lives.
LEMMA RejectOrder ==
    ASSUME SessionAssumption, OrderInv, NEW s \in Session, Reject(s)
    PROVE  Base' /\ AllOrderly'
<1>0. PICK c, p : c = client[s] /\ p = client[s].of
  OBVIOUS
<1>1. /\ c.phase = "entering" /\ ~MayEnter(p, c.on) /\ Read(p) /\ Loses(p, s)
      /\ UNCHANGED told /\ UNCHANGED find /\ overtaken' = overtaken
  BY <1>0 DEF Reject, shared
<1>2. /\ TypeOK /\ TypeInv /\ Base /\ Lapses /\ p \in Player /\ c \in Client /\ FlagsFit(c)
      /\ Belongs(s, p) /\ (p \notin overtaken => Orderly(p)) /\ c.on \in Place
  BY <1>0, <1>1, Own DEF Good
<1>3. PICK e : e = FlagsAfter(c, p)
  OBVIOUS
<1>4. PICK d : d = [e EXCEPT !.phase = "left", !.copy = "none", !.open = FALSE]
  OBVIOUS
<1>5. Becomes(s, d)
  BY <1>0, <1>3, <1>4 DEF Reject, Becomes
<1>6. /\ e \in Client /\ e.on = c.on /\ e.of = c.of
      /\ LoginState(p) = 0 => ~e.loggedIn
  BY <1>2, <1>3, FlagsAfterType, AfterFields
<1>7. /\ d.phase = "left" /\ ~d.open /\ d.on = c.on /\ d.of = p /\ d.loggedIn = e.loggedIn
  BY <1>0, <1>4, <1>6 DEF Client
<1>8. /\ told'[p] = told[p] /\ OnlyMoves(p)
      /\ idToChannel'[p] = idToChannel[p] /\ idToChar' = idToChar
  BY <1>1 DEF find, OnlyMoves
<1>9. RowBecomes(p, RowAfter(p)) /\ (loggedin'[p] = 2 <=> loggedin[p] = 2)
  BY <1>1, <1>2, ReadLapses, AfterFields DEF RowBecomes
<1>10. /\ FlagsFit(d) /\ ~Live(d) /\ ~Arriving(d) /\ Live(c)
       /\ ~Holding(d) /\ ~Holding(c)
  BY <1>1, <1>2, <1>7, ServerFacts DEF FlagsFit, Live, Holding, Arriving
<1>11. ASSUME p \notin overtaken' PROVE Orderly(p)'
  <2>1. Orderly(p)
    BY <1>1, <1>2, <1>11
  <2>2. ASSUME NEW t \in Session, Belongs(t, p) PROVE ~Holding(client[t])
    <3>1. Live(client[t]) => t = s
      BY <1>0, <1>2, <1>10, <2>1, <2>2 DEF Orderly, OneLive
    <3> QED BY <1>0, <1>10, <3>1 DEF Live
  <2>3. loggedin[p] # 2
    BY <2>1, <2>2 DEF Orderly, RowOf
  <2>4. ~InChannel(p)
    <3>1. SUFFICES ASSUME NEW ch \in Channel, p \in idToChar[ch] PROVE FALSE
      BY DEF InChannel
    <3>2. PICK t \in Session : Playing(t) /\ client[t].of = p
      BY <1>2, <3>1 DEF OrderInv, GhostInv, NoGhost
    <3>3. Holding(client[t]) /\ Belongs(t, p)
      BY <1>2, <3>2 DEF Base, AllFlagsFit, FlagsFit, Holding, Playing, Belongs
    <3> QED BY <2>2, <3>3
  <2>5. LoginState(p) \in 0..3 /\ LoginState(p) # 2
    BY <1>2, <2>3, AfterFields
  <2>6. c.on = CashShop /\ LoginState(p) = 0
    BY <1>1, <2>4, <2>5 DEF MayEnter
  <2>7. Behind(d) /\ d.phase # "dropped" /\ d.phase # "playing"
    BY <1>6, <1>7, <2>6, ServerFacts DEF Behind
  <2> QED BY <1>0, <1>2, <1>5, <1>7, <1>8, <1>9, <1>10, <2>1, <2>7, OneOrderly
<1> QED BY <1>0, <1>1, <1>2, <1>5, <1>7, <1>8, <1>9, <1>10, <1>11, OneStep

\* changeChannel, LeaveCS and EnterCS up to the packet.
LEMMA MoveOrder ==
    ASSUME SessionAssumption, OrderInv, NEW s \in Session, Move(s)
    PROVE  Base' /\ AllOrderly'
<1>0. PICK c, p : c = client[s] /\ p = client[s].of
  OBVIOUS
<1>1. /\ c.phase = "playing" /\ c.open /\ UNCHANGED at
      /\ overtaken \subseteq overtaken'
      /\ idToChar' = [idToChar EXCEPT ![c.on] = idToChar[c.on] \ {p}]
      /\ idToChannel' = [idToChannel EXCEPT ![p] = Nowhere]
      /\ \E x : told' = [told EXCEPT ![p] = x]
  <2>1. CASE \E ch \in Channel : ChangeChannel(s, ch)
    BY <1>0, <2>1 DEF ChangeChannel, Playing, Idle
  <2>2. CASE LeaveCS(s)
    BY <1>0, <2>2 DEF LeaveCS, Playing, Idle
  <2>3. CASE EnterCS(s)
    BY <1>0, <2>3 DEF EnterCS, Playing, Idle, Mark
  <2> QED BY <2>1, <2>2, <2>3 DEF Move
<1>2. /\ TypeOK /\ TypeInv /\ Base /\ Lapses /\ p \in Player /\ c \in Client /\ FlagsFit(c)
      /\ Belongs(s, p) /\ (p \notin overtaken => Orderly(p)) /\ c.on \in Place
  BY <1>0, <1>1, Own DEF Good
<1>3. PICK n, e, d : /\ n \in {1, 3} /\ SetRow(p, n)
                     /\ e = Flags(c, n) /\ Becomes(s, d)
                     /\ \/ d = [e EXCEPT !.phase = "leaving"]
                        \/ d = [e EXCEPT !.phase = "left", !.copy = "none"]
  <2>1. CASE \E ch \in Channel : ChangeChannel(s, ch)
    BY <1>0, <2>1 DEF ChangeChannel, Becomes
  <2>2. CASE LeaveCS(s)
    BY <1>0, <2>2 DEF LeaveCS, Becomes
  <2>3. CASE EnterCS(s)
    BY <1>0, <2>3 DEF EnterCS, Becomes
  <2> QED BY <2>1, <2>2, <2>3 DEF Move
<1>4. /\ ~e.loggedIn /\ e.serverTransition /\ e \in Client
      /\ e.open = c.open /\ e.on = c.on /\ e.of = c.of
  <2>1. n \in {0, 1, 3} /\ n # 0
    BY <1>3
  <2> QED BY <1>2, <1>3, <2>1, FlagsOut
<1>5. /\ ~d.loggedIn /\ d.serverTransition /\ d.phase \in {"leaving", "left"}
      /\ d.open = c.open /\ d.on = c.on /\ d.of = p
  <2>1. CASE d = [e EXCEPT !.phase = "leaving"]
    BY <1>0, <1>4, <2>1 DEF Client
  <2>2. CASE d = [e EXCEPT !.phase = "left", !.copy = "none"]
    BY <1>0, <1>4, <2>2 DEF Client
  <2> QED BY <1>3, <2>1, <2>2
<1>6. OnlyMoves(p)
  BY <1>1, <1>2 DEF OnlyMoves, TypeOK
<1>7. RowBecomes(p, n)
  BY <1>2, <1>3, SetRowLapses
<1>8. /\ FlagsFit(d) /\ Live(c) /\ ~Live(d) /\ ~Holding(d) /\ ~Arriving(d) /\ Behind(d)
      /\ d.on # LoginServer
  BY <1>1, <1>2, <1>5, ServerFacts DEF FlagsFit, Live, Holding, Arriving, Behind
<1>9. ASSUME p \notin overtaken' PROVE Orderly(p)'
  <2>1. Orderly(p) /\ loggedin'[p] # 2
    BY <1>1, <1>2, <1>3, <1>7, <1>9 DEF RowBecomes
  <2>2. d.phase # "dropped" /\ d.phase # "playing"
    BY <1>5
  <2> QED BY <1>0, <1>1, <1>2, <1>3, <1>5, <1>8, <2>1, <2>2, OneOrderly
<1> QED BY <1>0, <1>1, <1>2, <1>3, <1>5, <1>6, <1>7, <1>8, <1>9, OneStep

LEMMA FinishLeavingOrder ==
    ASSUME SessionAssumption, OrderInv, NEW s \in Session, FinishLeaving(s)
    PROVE  Base' /\ AllOrderly'
<1>0. PICK c, p : c = client[s] /\ p = client[s].of
  OBVIOUS
<1>1. /\ c.phase = "leaving" /\ overtaken \subseteq overtaken'
      /\ IF c.on = CashShop THEN Loses(p, s) ELSE UNCHANGED at
      /\ UNCHANGED told /\ UNCHANGED find
      /\ UNCHANGED loggedin /\ UNCHANGED lapsed
  BY <1>0 DEF FinishLeaving, Mark
<1>2. /\ TypeOK /\ TypeInv /\ Base /\ Lapses /\ p \in Player /\ c \in Client /\ FlagsFit(c)
      /\ Belongs(s, p) /\ (p \notin overtaken => Orderly(p))
  BY <1>0, <1>1, Own
<1>3. PICK b \in BOOLEAN : b = (c.open /\ ~(c.on = CashShop))
  OBVIOUS
<1>4. PICK d : d = [c EXCEPT !.phase = "left", !.copy = "none", !.open = b]
  OBVIOUS
<1>5. Becomes(s, d)
  BY <1>0, <1>3, <1>4 DEF FinishLeaving, Becomes
<1>6. /\ d.phase = "left" /\ d.on = c.on /\ d.of = p /\ d.loggedIn = c.loggedIn
      /\ d.serverTransition = c.serverTransition /\ d.open = b
  BY <1>0, <1>2, <1>4 DEF Client
<1>7. /\ told'[p] = told[p] /\ OnlyMoves(p)
      /\ idToChannel'[p] = idToChannel[p] /\ idToChar' = idToChar
  BY <1>1 DEF find, OnlyMoves
<1>8. RowBecomes(p, loggedin[p]) /\ loggedin'[p] = loggedin[p]
  BY <1>1, <1>2 DEF RowBecomes, Lapses
<1>9. /\ FlagsFit(d) /\ ~Live(d) /\ ~Live(c) /\ ~Arriving(d) /\ (Behind(c) => Behind(d))
      /\ Holding(d) <=> Holding(c)
      /\ d.on # LoginServer
  BY <1>1, <1>2, <1>6, ServerFacts DEF FlagsFit, Live, Holding, Arriving, Behind
<1>10. c.open \in BOOLEAN /\ (d.open => c.open)
       /\ \/ d.open = c.open /\ UNCHANGED at
          \/ ~d.open /\ Loses(p, s)
  BY <1>1, <1>2, <1>3, <1>6 DEF Client
<1>11. ASSUME p \notin overtaken' PROVE Orderly(p)'
  <2>1. Orderly(p) /\ Behind(c)
    BY <1>0, <1>1, <1>2, <1>11 DEF Orderly, LeftBehind
  <2>2. d.phase # "dropped" /\ d.phase # "playing"
    BY <1>6
  <2> QED BY <1>0, <1>2, <1>5, <1>6, <1>7, <1>8, <1>9, <1>10, <2>1, <2>2, OneOrderly
<1> QED BY <1>0, <1>1, <1>2, <1>5, <1>6, <1>7, <1>8, <1>9, <1>10, <1>11, OneStep

\* disconnect, at the end of a connection or before it: e is the session with
\* the flags that it is called with, n what the row holds by then.  If it logs
\* out the one that holds the row and, while the row says 2, no other, the
\* player stays orderly.
LEMMA EndOrder ==
    ASSUME SessionAssumption, OrderInv, NEW s \in Session, NEW p \in Player, NEW c, NEW d,
           c = client[s], c # NoClient, c.of = p, c.phase # "entering", Becomes(s, d), ~d.open,
           \/ d = NoClient
           \/ d.of = p /\ d.on = c.on /\ d.phase = "dropped" /\ c.phase = "playing",
           Loses(p, s), UNCHANGED told,
           NEW e, NEW fromCS, NEW n, Disconnect(s, e, fromCS, n), e.of = p, e.phase = c.phase,
           n = 2 <=> loggedin[p] = 2,
           p \notin overtaken /\ Orderly(p) =>
              /\ ~d.loggedIn
              /\ Holding(c) => LogsOut(e, fromCS)
              /\ LogsOut(e, fromCS) /\ ~Holding(c) => loggedin[p] # 2
    PROVE  Base' /\ AllOrderly'
<1>1. /\ TypeOK /\ TypeInv /\ Base /\ Lapses /\ FlagsFit(c) /\ Good(c) /\ Belongs(s, p)
      /\ (p \notin overtaken => Orderly(p))
  BY DEF OrderInv, GhostInv, TypeInv, Connections, Base, AllFlagsFit, AllOrderly, Belongs
<1>2. NoClient.phase = "new" /\ NoClient.on = Nowhere /\ ~NoClient.loggedIn
  BY DEF NoClient
<1>3. d.phase \in {"new", "dropped"} /\ (d.phase = "new" => ~d.loggedIn) /\ d.on # LoginServer
      /\ (d.phase = "dropped" => c.phase = "playing")
  BY <1>1, <1>2, ServerFacts DEF FlagsFit
<1>4. FlagsFit(d) /\ ~Live(d) /\ ~Holding(d) /\ ~Arriving(d)
      /\ (~d.loggedIn => Behind(d))
  BY <1>3 DEF FlagsFit, Live, Holding, Arriving, Behind
<1>5. PICK m : m = IF LogsOut(e, fromCS) THEN 0 ELSE n
  OBVIOUS
<1>6. RowBecomes(p, m) /\ loggedin'[p] = m
  BY <1>1, <1>5, DisconnectLapses DEF RowBecomes
<1>7. UNCHANGED find \/ /\ c.phase = "playing"
                        /\ idToChar' = [idToChar EXCEPT ![e.channel] = idToChar[e.channel] \ {p}]
                        /\ idToChannel' = [idToChannel EXCEPT ![p] = Nowhere]
  BY DEF Disconnect, Removes, Silent
<1>8. OnlyMoves(p) /\ overtaken \subseteq overtaken'
  <2>1. overtaken \subseteq overtaken'
    BY DEF Disconnect, Mark
  <2>2. CASE UNCHANGED find
    BY <2>1, <2>2 DEF OnlyMoves, find
  <2>3. CASE ~UNCHANGED find
    <3>1. PICK x : idToChar' = [idToChar EXCEPT ![e.channel] = x \ {p}] /\ x = idToChar[e.channel]
      BY <1>7, <2>3
    <3>2. ASSUME NEW ch \in Place, NEW q \in Player, q # p
          PROVE  q \in idToChar'[ch] <=> q \in idToChar[ch]
      BY <1>1, <3>1, <3>2 DEF TypeOK
    <3>3. \A q \in Player : q # p => idToChannel'[q] = idToChannel[q]
      BY <1>1, <1>7, <2>3 DEF TypeOK
    <3> QED BY <2>1, <3>2, <3>3 DEF OnlyMoves
  <2> QED BY <2>2, <2>3
<1>9. ASSUME p \notin overtaken' PROVE Orderly(p)'
  <2>1. p \notin overtaken /\ Orderly(p) /\ told'[p] = told[p] /\ Behind(d)
    BY <1>1, <1>4, <1>8, <1>9
  <2>2. c.phase = "playing" => Holding(c)
    BY <1>1 DEF FlagsFit, Holding
  <2>3. Holding(c) => Live(c) /\ loggedin'[p] # 2
    BY <1>5, <1>6, <2>1 DEF Live
  <2>4. ~Holding(c) => (loggedin'[p] = 2 <=> loggedin[p] = 2)
    BY <1>5, <1>6, <2>1
  <2>5. \/ Live(c)
        \/ /\ idToChannel'[p] = idToChannel[p]
           /\ \A x \in Place : p \in idToChar'[x] <=> p \in idToChar[x]
    BY <1>7, <2>2, <2>3 DEF find
  <2>6. d.of = p \/ d = NoClient
    OBVIOUS
  <2>7. d.phase = "dropped" => Live(c) /\ ~Live(d) /\ told'[p] = told[p]
    BY <1>3, <1>4, <2>1, <2>2, <2>3
  <2>8. d.phase # "playing" /\ (d.open => c.open)
    BY <1>3
  <2> QED BY <1>1, <1>4, <2>1, <2>3, <2>4, <2>5, <2>6, <2>7, <2>8, OneOrderly
<1>10. d.of = p \/ d = NoClient
  OBVIOUS
<1> QED BY <1>4, <1>6, <1>8, <1>9, <1>10, OneStep

LEMMA DropOrder ==
    ASSUME SessionAssumption, OrderInv, NEW s \in Session, Drop(s)
    PROVE  Base' /\ AllOrderly'
<1>0. PICK c, p : c = client[s] /\ p = client[s].of
  OBVIOUS
<1>1. /\ c.phase = "playing" /\ Disconnect(s, c, FALSE, loggedin[p]) /\ Loses(p, s)
      /\ UNCHANGED told
  BY <1>0 DEF Drop, Playing
<1>2. /\ p \in Player /\ c \in Client /\ FlagsFit(c) /\ c # NoClient /\ c.on \in Place
      /\ Belongs(s, p)
  BY <1>0, <1>1, Own DEF Good
<1>3. PICK e : e = IF LogsOut(c, FALSE) THEN Flags(c, 0) ELSE c
  OBVIOUS
<1>4. PICK d : d = [e EXCEPT !.phase = "dropped", !.copy = "none", !.open = FALSE]
  OBVIOUS
<1>5. Becomes(s, d)
  BY <1>0, <1>3, <1>4 DEF Drop, Becomes
<1>6. e \in Client /\ e.on = c.on /\ e.of = c.of
  BY <1>2, <1>3, FlagsType
<1>7. d.phase = "dropped" /\ ~d.open /\ d.on = c.on /\ d.of = p /\ d.loggedIn = e.loggedIn
  BY <1>0, <1>4, <1>6 DEF Client
<1>8. ASSUME p \notin overtaken, Orderly(p)
      PROVE  ~d.loggedIn /\ Holding(c) /\ LogsOut(c, FALSE)
  <2>1. idToChannel[p] # Nowhere
    BY <1>0, <1>1, <1>2, <1>8, ServerFacts DEF Orderly, FoundOf
  <2>2. LogsOut(c, FALSE)
    BY <1>0, <1>1, <1>2, <2>1 DEF FlagsFit, LogsOut, Silent
  <2>3. ~e.loggedIn
    BY <1>2, <1>3, <2>2, FlagsOut
  <2> QED BY <1>1, <1>2, <1>7, <2>2, <2>3 DEF FlagsFit, Holding
<1>9. PICK n, b : n = loggedin[p] /\ b = FALSE
  OBVIOUS
<1>10. Disconnect(s, c, b, n)
  BY <1>1, <1>9
<1>11. p \notin overtaken /\ Orderly(p) => ~d.loggedIn /\ Holding(c) /\ LogsOut(c, b)
  BY <1>8, <1>9
<1> QED BY <1>0, <1>1, <1>2, <1>5, <1>7, <1>9, <1>10, <1>11, EndOrder

LEMMA InactiveOrder ==
    ASSUME SessionAssumption, OrderInv, NEW s \in Session, Inactive(s)
    PROVE  Base' /\ AllOrderly'
<1>0. PICK c, p : c = client[s] /\ p = client[s].of
  OBVIOUS
<1>1. /\ c # NoClient /\ ~c.open /\ c.phase \notin {"entering", "leaving"}
      /\ Becomes(s, NoClient) /\ UNCHANGED game
  BY <1>0 DEF Inactive, Closed, Becomes
<1>2. /\ TypeOK /\ TypeInv /\ Base /\ Lapses /\ p \in Player /\ c \in Client /\ Good(c)
      /\ FlagsFit(c) /\ c.on \in Server /\ Belongs(s, p)
      /\ (p \notin overtaken => Orderly(p))
  <2>1. TypeInv /\ Base /\ AllOrderly
    BY DEF OrderInv, GhostInv
  <2>2. TypeOK /\ Lapses /\ Good(c) /\ FlagsFit(c)
    BY <1>0, <2>1 DEF TypeInv, Connections, Base, AllFlagsFit
  <2>3. p \in Player /\ c.on \in Server /\ c \in Client
    BY <1>0, <1>1, <2>2 DEF Good
  <2> QED BY <1>0, <2>1, <2>2, <2>3 DEF AllOrderly, Belongs
<1>3. Loses(p, s) /\ UNCHANGED told /\ UNCHANGED at
  <2>1. at[p] # s
    BY <1>0, <1>1, <1>2 DEF Base, OneOpen, SessionAssumption
  <2> QED BY <1>1, <2>1 DEF game, Loses
<1>4. ~NoClient.open /\ ~NoClient.loggedIn /\ NoClient.phase = "new" /\ NoClient.on = Nowhere
  BY DEF NoClient
<1>5. CASE c.on \in Channel /\ c.phase \in {"new", "refused"}
  <2>1. UNCHANGED row /\ UNCHANGED find /\ overtaken' = overtaken
    BY <1>0, <1>5 DEF Inactive
  <2>2. RowBecomes(p, loggedin[p]) /\ loggedin'[p] = loggedin[p]
    BY <1>2, <2>1, StillRow
  <2>3. told'[p] = told[p] /\ OnlyMoves(p)
        /\ idToChannel'[p] = idToChannel[p] /\ idToChar' = idToChar
    BY <1>3, <2>1 DEF find, OnlyMoves
  <2>4. /\ FlagsFit(NoClient) /\ ~Live(NoClient) /\ ~Arriving(NoClient) /\ Behind(NoClient)
        /\ ~Holding(NoClient) /\ ~Holding(c)
    BY <1>2, <1>4, <1>5, ServerFacts DEF FlagsFit, Live, Holding, Arriving, Behind
  <2>5. ASSUME p \notin overtaken' PROVE Orderly(p)'
    BY <1>0, <1>1, <1>2, <1>4, <2>1, <2>2, <2>3, <2>4, <2>5, OneOrderly
  <2> QED BY <1>0, <1>1, <1>2, <1>3, <1>4, <2>1, <2>2, <2>3, <2>4, <2>5, OneStep
<1>6. CASE c.on \in Channel /\ c.phase \notin {"new", "refused"}
  <2>1. PICK e : e = FlagsAfter(c, p)
    OBVIOUS
  <2>2. Disconnect(s, e, FALSE, RowAfter(p))
    BY <1>0, <1>6, <2>1 DEF Inactive
  <2>3. e.of = p /\ e.phase = c.phase
    BY <1>0, <1>2, <2>1, FlagsAfterType
  <2>4. /\ loggedin[p] = 2 => e.loggedIn /\ e.serverTransition = c.serverTransition
        /\ RowAfter(p) = 2 <=> loggedin[p] = 2
    BY <1>2, <2>1, AfterFields
  <2>5. PICK n, b : n = RowAfter(p) /\ b = FALSE
    OBVIOUS
  <2>6. ASSUME p \notin overtaken, Orderly(p), Holding(c)
        PROVE  LogsOut(e, FALSE)
    <3>1. c.phase = "playing" /\ ~c.serverTransition
      BY <1>6, <2>6, ServerFacts DEF Holding
    <3>2. loggedin[p] = 2 /\ idToChannel[p] # Nowhere
      BY <1>0, <1>2, <1>6, <2>6, <3>1, ServerFacts DEF Orderly, RowOf, FoundOf
    <3> QED BY <2>3, <2>4, <3>1, <3>2 DEF LogsOut, Silent
  <2>7. ASSUME p \notin overtaken, Orderly(p), LogsOut(e, FALSE), ~Holding(c)
        PROVE  loggedin[p] # 2
    <3>1. c.phase \in {"left", "dropped"}
      BY <1>1, <1>2, <1>6, <2>7 DEF FlagsFit, Holding, Client, Phase
    <3>2. CASE c.phase = "left"
      BY <1>0, <1>2, <1>6, <2>4, <2>7, <3>2 DEF Orderly, LeftBehind, Behind, LogsOut
    <3>3. CASE c.phase = "dropped"
      BY <1>0, <1>2, <2>7, <3>3 DEF Orderly, LeftBehind, Busy, Live, RowOf
    <3> QED BY <3>1, <3>2, <3>3
  <2>8. Disconnect(s, e, b, n) /\ (n = 2 <=> loggedin[p] = 2)
    BY <2>2, <2>4, <2>5
  <2>9. p \notin overtaken /\ Orderly(p) =>
           /\ Holding(c) => LogsOut(e, b)
           /\ LogsOut(e, b) /\ ~Holding(c) => loggedin[p] # 2
    BY <2>5, <2>6, <2>7
  <2> QED BY <1>0, <1>1, <1>2, <1>3, <1>4, <2>3, <2>8, <2>9, EndOrder
<1>7. CASE c.on \notin Channel
  <2>1. PICK b : b = (c.on = CashShop)
    OBVIOUS
  <2>2. Disconnect(s, c, b, loggedin[p])
    BY <1>0, <1>7, <2>1 DEF Inactive
  <2>3. c.on \in {LoginServer, CashShop}
    BY <1>2, <1>7 DEF Server
  <2>4. ASSUME Holding(c)
        PROVE  LogsOut(c, b)
    BY <1>2, <2>1, <2>3, <2>4 DEF Holding, FlagsFit, LogsOut, Silent
  <2>5. ASSUME p \notin overtaken, Orderly(p), LogsOut(c, b), ~Holding(c)
        PROVE  loggedin[p] # 2
    <3>1. c.loggedIn /\ ~c.serverTransition
      BY <2>5 DEF LogsOut
    <3>2. c.phase \notin {"left", "dropped"}
      BY <1>0, <1>2, <2>5, <3>1 DEF Orderly, LeftBehind, Behind
    <3>3. c.on # LoginServer /\ c.phase \notin {"playing", "new", "refused"}
      BY <1>2, <2>5, <3>1 DEF Holding, FlagsFit
    <3> QED BY <1>1, <1>2, <3>2, <3>3 DEF Client, Phase
  <2>6. PICK n : n = loggedin[p]
    OBVIOUS
  <2> QED BY <1>0, <1>1, <1>2, <1>3, <1>4, <2>2, <2>4, <2>5, <2>6, EndOrder
<1> QED BY <1>5, <1>6, <1>7

-----------------------------------------------------------------------------
(* The game client, playing, time.                                          *)

\* The same but for the copy, and perhaps closed.
Alike(d, c) ==
    /\ d.of = c.of /\ d.on = c.on /\ d.phase = c.phase
    /\ d.loggedIn = c.loggedIn /\ d.serverTransition = c.serverTransition
    /\ d.open => c.open

\* Not there before; if it is on its way into the game, p was.
Opened(t, d, p) ==
    /\ client[t].of # p /\ d.phase = "new" /\ ~d.loggedIn
    /\ Arriving(d) => OnTheWay(p)

LEMMA AlikeOrderly ==
    ASSUME SessionAssumption, TypeInv, NEW p \in Player, Orderly(p),
           \A t \in Session : \/ Alike(client'[t], client[t])
                              \/ client'[t].of # p /\ client[t].of # p
                              \/ Opened(t, client'[t], p) /\ told'[p] = Nowhere,
           told'[p] \in {told[p], Nowhere}, loggedin'[p] = loggedin[p], UNCHANGED find
    PROVE  Orderly(p)'
<1>1. ASSUME NEW t \in Session, Belongs(t, p)'
      PROVE  \/ Belongs(t, p) /\ Alike(client'[t], client[t])
             \/ Opened(t, client'[t], p) /\ told'[p] = Nowhere
  BY <1>1 DEF Belongs, Alike
<1>2. ASSUME NEW t \in Session, Belongs(t, p)'
      PROVE  /\ Live(client'[t]) => Belongs(t, p) /\ Live(client[t])
             /\ Holding(client'[t]) => Belongs(t, p) /\ Holding(client[t])
             /\ Arriving(client'[t]) => OnTheWay(p)
             /\ client'[t].phase \in {"playing", "dropped"} =>
                   Belongs(t, p) /\ client'[t].phase = client[t].phase
  <2>1. CASE Belongs(t, p) /\ Alike(client'[t], client[t])
    BY <2>1 DEF Alike, Live, Holding, Arriving, OnTheWay
  <2>2. CASE Opened(t, client'[t], p)
    BY <2>2 DEF Opened, Live, Holding
  <2> QED BY <1>1, <1>2, <2>1, <2>2
<1>3. ASSUME NEW t \in Session, Belongs(t, p)
      PROVE  Alike(client'[t], client[t]) /\ Belongs(t, p)'
  BY <1>3 DEF Belongs, Alike, Opened
<1>4. Busy(p)' => Busy(p)
  BY <1>2 DEF Busy, Live, Holding
<1>5. OnTheWay(p)' => OnTheWay(p)
  BY <1>2 DEF OnTheWay, Arriving
<1>6. OneLive(p)'
  BY <1>2 DEF Orderly, OneLive, Live, Holding
<1>7. Travels(p)'
  <2>1. ASSUME told'[p] # Nowhere, NEW t \in Session, Belongs(t, p)', client'[t].open
        PROVE  /\ ~Arriving(client'[t])
               /\ client'[t].on = LoginServer => client'[t].serverTransition
    <3>1. Belongs(t, p) /\ Alike(client'[t], client[t]) /\ told[p] # Nowhere
      BY <1>1, <2>1
    <3> QED BY <2>1, <3>1 DEF Alike, Arriving, Orderly, Travels
  <2> QED BY <1>4, <1>5, <2>1 DEF Orderly, Travels, Arriving
<1>8. LeftBehind(p)'
  <2>1. ASSUME NEW t \in Session, Belongs(t, p)'
        PROVE  Behind(client'[t])
    <3>1. CASE Belongs(t, p) /\ Alike(client'[t], client[t])
      BY <3>1 DEF Alike, Orderly, LeftBehind, Behind
    <3>2. CASE Opened(t, client'[t], p)
      BY <3>2 DEF Opened, Behind
    <3> QED BY <1>1, <2>1, <3>1, <3>2
  <2>2. ASSUME NEW t \in Session, Belongs(t, p)', client'[t].phase = "dropped"
        PROVE  ~Busy(p)' /\ ~OnTheWay(p)'
    BY <1>2, <1>4, <1>5, <2>2 DEF Orderly, LeftBehind
  <2> QED BY <2>1, <2>2 DEF LeftBehind, Behind
<1>9. RowOf(p)'
  <2>1. ASSUME NEW t \in Session
        PROVE  (Belongs(t, p)' /\ Holding(client'[t])) <=> (Belongs(t, p) /\ Holding(client[t]))
    BY <1>2, <1>3 DEF Alike, Holding
  <2> QED BY <2>1 DEF Orderly, RowOf, Holding
<1>10. FoundOf(p)'
  <2> SUFFICES ASSUME NEW t \in Session, Belongs(t, p)', client'[t].phase = "playing"
               PROVE  idToChannel'[p] = client'[t].on /\ p \in idToChar'[client'[t].on]
    BY DEF FoundOf
  <2>1. Belongs(t, p) /\ client[t].phase = "playing" /\ client'[t].on = client[t].on
    BY <1>2, <1>3 DEF Alike
  <2> QED BY <2>1 DEF Orderly, FoundOf, find
<1> QED BY <1>6, <1>7, <1>8, <1>9, <1>10 DEF Orderly

LEMMA PlayOrder ==
    ASSUME SessionAssumption, OrderInv, NEW s \in Session, Play(s)
    PROVE  Base' /\ AllOrderly'
<1>1. TypeInv /\ Base /\ AllOrderly
  BY DEF OrderInv, GhostInv
<1>2. /\ UNCHANGED game /\ UNCHANGED find /\ UNCHANGED loggedin /\ UNCHANGED lapsed
      /\ overtaken' = overtaken
  BY DEF Play
<1>3. ASSUME NEW t \in Session
      PROVE  Alike(client'[t], client[t]) /\ client'[t].open = client[t].open
  <2>1. client[t] \in Client
    BY <1>1 DEF TypeInv, TypeOK
  <2>2. PICK x : client'[t] = [client[t] EXCEPT !.copy = x]
    <3>1. client[t] = [client[t] EXCEPT !.copy = client[t].copy]
      BY <2>1 DEF Client
    <3> QED BY <3>1 DEF Play
  <2> QED BY <2>1, <2>2 DEF Client, Alike
<1>4. Base'
  <2>1. Lapses' /\ OneOpen'
    BY <1>1, <1>2, <1>3 DEF Base, Lapses, OneOpen, Belongs, Alike, game, TypeInv, TypeOK
  <2>2. AllFlagsFit'
    BY <1>1, <1>3 DEF Base, AllFlagsFit, FlagsFit, Alike
  <2> QED BY <2>1, <2>2 DEF Base
<1>5. ASSUME NEW q \in Player \ overtaken' PROVE Orderly(q)'
  <2>1. Orderly(q) /\ told'[q] = told[q] /\ loggedin'[q] = loggedin[q]
    BY <1>1, <1>2 DEF AllOrderly, game
  <2> QED BY <1>1, <1>2, <1>3, <2>1, AlikeOrderly
<1> QED BY <1>4, <1>5 DEF AllOrderly

LEMMA ConnectOrder ==
    ASSUME SessionAssumption, OrderInv, NEW p \in Player, NEW s \in Session,
           NEW srv \in Server, Connect(p, s, srv),
           srv \in Place => told[p] # Nowhere
    PROVE  Base' /\ AllOrderly'
<1>1. TypeOK /\ TypeInv /\ Base /\ AllOrderly /\ OneOpen
  BY DEF OrderInv, GhostInv, TypeInv, Base
<1>2. PICK d : d = [NoClient EXCEPT !.on = srv, !.of = p, !.open = TRUE,
                        !.channel = IF srv \in Channel THEN srv ELSE Nowhere]
  OBVIOUS
<1>3. d.on = srv /\ d.of = p /\ d.open /\ d.phase = "new" /\ ~d.loggedIn
  BY <1>2 DEF NoClient
<1>4. /\ client[s].of = NoPlayer /\ NoPlayer \notin Player
      /\ client'[s] = d
      /\ \A t \in Session : t # s /\ t = at[p] =>
            client'[t] = [client[t] EXCEPT !.open = FALSE]
      /\ \A t \in Session : t # s /\ t # at[p] => client'[t] = client[t]
      /\ at' = [at EXCEPT ![p] = s] /\ told' = [told EXCEPT ![p] = Nowhere]
      /\ UNCHANGED row /\ UNCHANGED find /\ overtaken' = overtaken
  BY <1>2 DEF Connect, NoClient, SessionAssumption
<1>5. ASSUME NEW t \in Session, t # s
      PROVE  Alike(client'[t], client[t]) /\ (client'[t].open => t # at[p])
  <2>1. client[t] \in Client
    BY <1>1 DEF TypeOK
  <2>2. CASE t = at[p]
    <3>1. client'[t] = [client[t] EXCEPT !.open = FALSE]
      BY <1>4, <1>5, <2>2
    <3> QED BY <2>1, <2>2, <3>1 DEF Client, Alike
  <2>3. CASE t # at[p]
    BY <1>4, <1>5, <2>3 DEF Alike
  <2> QED BY <2>2, <2>3
<1>6. Base'
  <2>1. Lapses'
    BY <1>1, <1>4 DEF Base, Lapses, row
  <2>2. AllFlagsFit'
    BY <1>1, <1>3, <1>4, <1>5, ServerFacts DEF Base, AllFlagsFit, FlagsFit, Alike
  <2>3. ASSUME NEW t \in Session, client'[t].open
        PROVE  at'[client'[t].of] = t
    <3>1. CASE t = s
      BY <1>1, <1>3, <1>4, <3>1 DEF TypeOK
    <3>2. CASE t # s
      <4>1. client[t].open /\ client'[t].of = client[t].of /\ t # at[p]
        BY <1>5, <2>3, <3>2 DEF Alike
      <4>2. at[client[t].of] = t
        BY <1>1, <4>1 DEF OneOpen
      <4> QED BY <1>1, <1>4, <4>1, <4>2 DEF TypeOK
    <3> QED BY <3>1, <3>2
  <2>4. ASSUME NEW q \in Player, at'[q] # NoSession
        PROVE  client'[at'[q]].of = q /\ client'[at'[q]].open
    <3>1. CASE q = p
      BY <1>1, <1>3, <1>4, <3>1 DEF TypeOK
    <3>2. CASE q # p
      <4>1. at'[q] = at[q] /\ at[q] \in Session /\ client[at[q]].of = q /\ client[at[q]].open
        BY <1>1, <1>4, <2>4, <3>2 DEF TypeOK, OneOpen, Belongs
      <4>2. at[q] # s /\ (at[p] # NoSession => client[at[p]].of = p)
        BY <1>1, <1>4, <4>1 DEF OneOpen, Belongs
      <4>3. at[q] # at[p]
        BY <3>2, <4>1, <4>2 DEF SessionAssumption
      <4> QED BY <1>4, <4>1, <4>2, <4>3
    <3> QED BY <3>1, <3>2
  <2> QED BY <2>1, <2>2, <2>3, <2>4 DEF Base, OneOpen, Belongs
<1>7. ASSUME NEW q \in Player \ overtaken' PROVE Orderly(q)'
  <2>1. /\ Orderly(q) /\ told'[q] \in {told[q], Nowhere} /\ loggedin'[q] = loggedin[q]
        /\ (q = p => told'[q] = Nowhere)
    BY <1>1, <1>4 DEF AllOrderly, row, TypeOK
  <2>2. q = p => Opened(s, client'[s], q)
    BY <1>3, <1>4 DEF Opened, Arriving, OnTheWay
  <2>3. q # p => client'[s].of # q /\ client[s].of # q
    BY <1>3, <1>4
  <2> QED BY <1>1, <1>4, <1>5, <2>1, <2>2, <2>3, AlikeOrderly
<1> QED BY <1>6, <1>7 DEF AllOrderly

LEMMA HangsUpOrder ==
    ASSUME SessionAssumption, OrderInv, NEW p \in Player, HangsUp(p)
    PROVE  Base' /\ AllOrderly'
<1>1. TypeOK /\ TypeInv /\ Base /\ AllOrderly /\ OneOpen
  BY DEF OrderInv, GhostInv, TypeInv, Base
<1>2. /\ at' = [at EXCEPT ![p] = NoSession] /\ told' = [told EXCEPT ![p] = Nowhere]
      /\ UNCHANGED row /\ UNCHANGED find /\ overtaken' = overtaken
  BY DEF HangsUp, shared
<1>3. ASSUME NEW t \in Session
      PROVE  /\ Alike(client'[t], client[t]) /\ (client'[t].open => t # at[p])
             /\ t # at[p] => client'[t] = client[t]
  <2>1. client[t] \in Client
    BY <1>1 DEF TypeOK
  <2>2. CASE t = at[p]
    <3>1. client'[t] = [client[t] EXCEPT !.open = FALSE]
      BY <2>2 DEF HangsUp
    <3> QED BY <2>1, <2>2, <3>1 DEF Client, Alike
  <2>3. CASE t # at[p]
    BY <2>3 DEF Alike, HangsUp
  <2> QED BY <2>2, <2>3
<1>4. Base'
  <2>1. Lapses'
    BY <1>1, <1>2 DEF Base, Lapses, row
  <2>2. AllFlagsFit'
    BY <1>1, <1>3 DEF Base, AllFlagsFit, FlagsFit, Alike
  <2>3. ASSUME NEW t \in Session, client'[t].open
        PROVE  at'[client'[t].of] = t
    <3>1. client[t].open /\ client'[t].of = client[t].of /\ t # at[p]
      BY <1>3, <2>3 DEF Alike
    <3>2. at[client[t].of] = t
      BY <1>1, <3>1 DEF OneOpen
    <3> QED BY <1>1, <1>2, <3>1, <3>2 DEF TypeOK
  <2>4. ASSUME NEW q \in Player, at'[q] # NoSession
        PROVE  client'[at'[q]].of = q /\ client'[at'[q]].open
    <3>1. /\ q # p /\ at'[q] = at[q] /\ at[q] \in Session
          /\ client[at[q]].of = q /\ client[at[q]].open
      BY <1>1, <1>2, <2>4 DEF TypeOK, OneOpen, Belongs
    <3>2. at[q] # at[p]
      BY <1>1, <3>1 DEF OneOpen, Belongs, SessionAssumption
    <3> QED BY <1>3, <3>1, <3>2
  <2> QED BY <2>1, <2>2, <2>3, <2>4 DEF Base, OneOpen, Belongs
<1>5. ASSUME NEW q \in Player \ overtaken' PROVE Orderly(q)'
  <2>1. /\ Orderly(q) /\ told'[q] \in {told[q], Nowhere} /\ loggedin'[q] = loggedin[q]
    BY <1>1, <1>2 DEF AllOrderly, row, TypeOK
  <2> QED BY <1>1, <1>2, <1>3, <2>1, AlikeOrderly
<1> QED BY <1>4, <1>5 DEF AllOrderly

LEMMA ClientStepOrder ==
    ASSUME SessionAssumption, OrderInv, NEW p \in Player, ClientStep(p)
    PROVE  Base' /\ AllOrderly'
<1>1. told[p] # Nowhere => told[p] \in Server
  BY ServerFacts DEF OrderInv, GhostInv, TypeInv, TypeOK
<1>2. \/ \E s \in Session, srv \in Server :
            Connect(p, s, srv) /\ (srv \in Place => told[p] # Nowhere)
      \/ HangsUp(p)
  BY <1>1, ServerFacts DEF ClientStep, OpenLogin, OpenTold, TurnedAway, Break, HangsUp
<1> QED BY <1>2, ConnectOrder, HangsUpOrder

\* No session notices, and the rows hold what they held.
LEMMA AsideOrder ==
    ASSUME SessionAssumption, OrderInv, UNCHANGED <<loggedin, client, game, find, overtaken>>,
           \A p \in Player : lapsed'[p] => lapsed[p] \/ loggedin[p] \in {1, 3}
    PROVE  Base' /\ AllOrderly'
<1>1. TypeInv /\ Base /\ AllOrderly
  BY DEF OrderInv, GhostInv
<1>2. Base'
  BY <1>1 DEF Base, Lapses, OneOpen, AllFlagsFit, Belongs, game
<1>3. ASSUME NEW q \in Player \ overtaken' PROVE Orderly(q)'
  <2>1. Orderly(q) /\ Untouched(q)
    BY <1>1 DEF AllOrderly, Untouched, game, find
  <2> QED BY <1>1, <2>1, UntouchedOrderly
<1> QED BY <1>2, <1>3 DEF AllOrderly

LEMMA PassOrder ==
    ASSUME SessionAssumption, OrderInv, NEW p \in Player, Pass(p)
    PROVE  Base' /\ AllOrderly'
<1>1. UNCHANGED <<loggedin, client, game, find, overtaken>>
  BY DEF Pass, Lapse, Persisting, shared, row
<1>2. ASSUME NEW q \in Player, lapsed'[q] PROVE lapsed[q] \/ loggedin[q] \in {1, 3}
  <2>1. CASE Lapse(p)
    BY <1>2, <2>1 DEF Lapse, OrderInv, GhostInv, TypeInv, TypeOK
  <2>2. CASE \E c \in Place : Persisting(c, p)
    BY <1>2, <2>2 DEF Persisting, row
  <2> QED BY <2>1, <2>2 DEF Pass
<1> QED BY <1>1, <1>2, AsideOrder

LEMMA InitOrder ==
    ASSUME SessionAssumption, Init
    PROVE  OrderInv
<1>1. GhostInv
  <2>1. TypeInv
    BY InitType
  <2> QED BY <2>1 DEF Init, NoGhost, NotBoth, InChannel, Place, GhostInv
<1>2. \A t \in Session : client[t] = NoClient
  BY DEF Init
<1>3. /\ NoClient.of \notin Player /\ ~NoClient.open
      /\ NoClient.phase = "new" /\ NoClient.on = Nowhere /\ ~NoClient.loggedIn
  BY DEF NoClient, SessionAssumption
<1>4. Base
  BY <1>2, <1>3, ServerFacts DEF Init, Base, Lapses, OneOpen, AllFlagsFit, FlagsFit
<1>5. ASSUME NEW q \in Player PROVE Orderly(q)
  <2>1. \A t \in Session : ~Belongs(t, q)
    BY <1>2, <1>3 DEF Belongs
  <2> QED BY <2>1 DEF Init, Orderly, OneLive, Travels, OnTheWay, LeftBehind, RowOf, FoundOf
<1> QED BY <1>1, <1>4, <1>5 DEF OrderInv, AllOrderly

LEMMA StepOrder ==
    ASSUME SessionAssumption, OrderInv, [Next]_vars
    PROVE  OrderInv'
<1>1. GhostInv'
  BY StepGhost DEF OrderInv
<1>2. CASE UNCHANGED vars
  BY <1>1, <1>2, AsideOrder DEF vars, row, shared, OrderInv
<1>3. ASSUME NEW p \in Player, ClientStep(p) \/ Pass(p) PROVE Base' /\ AllOrderly'
  BY <1>3, ClientStepOrder, PassOrder
<1>4. ASSUME NEW s \in Session, Handle(s) PROVE Base' /\ AllOrderly'
  <2>1. CASE Login(s) \/ \E c \in Channel : SelectChar(s, c)
    BY <2>1, LoginOrder, SelectCharOrder
  <2>2. CASE TakeOver(s) \/ Load(s) \/ Unknown(s) \/ Admit(s) \/ Reject(s)
    BY <2>2, ComeInOrder, UnknownOrder, AdmitOrder, RejectOrder
  <2>3. CASE Play(s) \/ Move(s) \/ FinishLeaving(s) \/ Inactive(s) \/ Drop(s)
    BY <2>3, PlayOrder, MoveOrder, FinishLeavingOrder, InactiveOrder, DropOrder
  <2> QED BY <1>4, <2>1, <2>2, <2>3 DEF Handle
<1>5. CASE Next
  BY <1>1, <1>3, <1>4, <1>5 DEF Next, OrderInv
<1> QED BY <1>2, <1>5

LEMMA OrderKept == Spec => []OrderInv
<1>1. Init => OrderInv
  BY InitOrder, SessionAssumption
<1>2. OrderInv /\ [Next]_vars => OrderInv'
  BY StepOrder, SessionAssumption
<1> QED BY <1>1, <1>2, PTL DEF Spec

(* Whichever servers a player goes through, and however late the ends of    *)
(* its old connections are noticed, it is in the game on one connection at  *)
(* most (finishLogin, Loggedin and EnterCS look at the row and at the       *)
(* storages), unless it came back while a handler of it was still at work.  *)
THEOREM InOnePlace == Spec => []OnePlace
<1>1. OrderInv => OnePlace
  <2> SUFFICES ASSUME OrderInv, NEW s \in Session, NEW t \in Session, Playing(s), Playing(t),
                      client[s].of \notin overtaken, client[t].of = client[s].of
               PROVE  s = t
    BY DEF OnePlace
  <2>1. Live(client[s]) /\ Live(client[t])
    BY DEF OrderInv, Base, AllFlagsFit, FlagsFit, Playing, Live, Holding
  <2>2. Orderly(client[s].of)
    BY Own, SessionAssumption DEF Playing
  <2> QED BY <2>1, <2>2 DEF Orderly, OneLive, Belongs
<1> QED BY <1>1, OrderKept, PTL

(* Who is in the game is where World.Find and the storages say: the late    *)
(* end of an old connection (disconnect) takes nobody out of the server it  *)
(* has moved on to.                                                         *)
THEOREM FoundWherePlayed == Spec => []Found
<1>1. OrderInv => Found
  <2> SUFFICES ASSUME OrderInv, NEW s \in Session, Playing(s), client[s].of \notin overtaken
               PROVE  /\ idToChannel[client[s].of] = client[s].on
                      /\ client[s].of \in idToChar[client[s].on]
    BY DEF Found
  <2>1. Orderly(client[s].of)
    BY Own, SessionAssumption DEF Playing
  <2> QED BY <2>1 DEF Orderly, FoundOf, Belongs, Playing
<1> QED BY <1>1, OrderKept, PTL

(* The row says 2 exactly as long as a connection will see to it that it is *)
(* reset (updateLoginState, getLoginState, disconnect): an account is       *)
(* neither locked out for good nor open to a second login while it is       *)
(* played.                                                                  *)
THEOREM RowsTellTheTruth == Spec => []RowTrue
<1>1. OrderInv => RowTrue
  BY DEF OrderInv, AllOrderly, Orderly, RowOf, RowTrue, Holds, Holding, Playing, Belongs
<1> QED BY <1>1, OrderKept, PTL

-----------------------------------------------------------------------------
(* Played on what was left last.                                            *)
(*                                                                          *)
(* A player that was neither overtaken nor found with a transfer left over  *)
(* comes into the game in one of two ways, and never has both open to it.   *)
(* A transfer waits at one server at most, is current, and only while       *)
(* nobody of the player lives; an authorisation stands only while nothing   *)
(* waits and nobody is in the game or still to save.  So whoever loads the  *)
(* character finds it saved, because what is not saved yet is in the hands  *)
(* of the one that plays it or is about to save it (Witness).               *)
Waits(p, x) == pending[x][p] # "none"
Leaving(p) == \E s \in Session : Belongs(s, p) /\ client[s].phase = "leaving"

HandsOver(p) ==
    /\ Busy(p) => \A x \in Place : ~Waits(p, x)
    /\ \A x, y \in Place : Waits(p, x) /\ Waits(p, y) => x = y
    /\ \A x \in Place : Waits(p, x) => pending[x][p] = "current"

Authorised(p) ==
    p \in loginAuth =>
        /\ \A x \in Place : ~Waits(p, x)
        /\ \A s \in Session : Belongs(s, p) =>
              client[s].phase \notin {"entering", "playing", "leaving"}

AtLogin(p) ==
    Leaving(p) => \A s \in Session :
        Belongs(s, p) /\ Holding(client[s]) => client[s].on # LoginServer

Writes(c) == c.phase \in {"playing", "leaving"} /\ c.copy = "current"
Witness(p) == \E s \in Session : Belongs(s, p) /\ Writes(client[s])
SafeCopy(p) == ~saved[p] \/ Leaving(p) => Witness(p)

Comes(c) == c.phase \in {"entering", "playing"} => c.copy = "current"
OnCurrent(p) == \A s \in Session : Belongs(s, p) => Comes(client[s])

Fresh(p) == HandsOver(p) /\ Authorised(p) /\ AtLogin(p) /\ SafeCopy(p) /\ OnCurrent(p)

AllFresh == \A p \in Player \ (overtaken \cup leftover) : Fresh(p)
FreshInv == OrderInv /\ AllFresh

\* Nothing of p has changed that its data depend on.
Unread(p) ==
    /\ \A t \in Session : Belongs(t, p) \/ client'[t].of = p => client'[t] = client[t]
    /\ \A x \in Place : pending'[x][p] \in {pending[x][p], "none"}
    /\ p \in loginAuth' => p \in loginAuth
    /\ saved'[p] = saved[p]

LEMMA UnreadFresh ==
    ASSUME NEW p \in Player, Fresh(p), Unread(p)
    PROVE  Fresh(p)'
<1>1. \A t \in Session : Belongs(t, p)' <=> Belongs(t, p)
  BY DEF Unread, Belongs
<1>2. \A t \in Session : Belongs(t, p) => client'[t] = client[t]
  BY DEF Unread
<1>3. (Busy(p)' <=> Busy(p)) /\ (Leaving(p)' <=> Leaving(p)) /\ (Witness(p)' <=> Witness(p))
  BY <1>1, <1>2 DEF Busy, Live, Holding, Leaving, Witness, Writes
<1>4. \A x \in Place : Waits(p, x)' => Waits(p, x) /\ pending'[x][p] = pending[x][p]
  BY DEF Unread, Waits
<1>5. HandsOver(p)'
  BY <1>3, <1>4 DEF Fresh, HandsOver
<1>6. Authorised(p)'
  BY <1>1, <1>2, <1>4 DEF Fresh, Authorised, Unread
<1>7. AtLogin(p)'
  BY <1>1, <1>2, <1>3 DEF Fresh, AtLogin, Holding
<1>8. SafeCopy(p)'
  BY <1>3 DEF Fresh, SafeCopy, Unread
<1>9. OnCurrent(p)'
  BY <1>1, <1>2 DEF Fresh, OnCurrent, Comes
<1> QED BY <1>5, <1>6, <1>7, <1>8, <1>9 DEF Fresh

\* A connection of p goes from c to d.  A transfer is made, current, only by the
\* one that lives and does so no longer; who comes to life leaves none waiting.
Hands(p, c, d, y) ==
    /\ Live(d) /\ ~Live(c) => \A x \in Place : pending'[x][p] = "none"
    /\ \A x \in Place : \/ pending'[x][p] \in {pending[x][p], "none"}
                        \/ /\ x = y /\ Live(c) /\ ~Live(d) /\ p \notin loginAuth'
                           /\ pending'[x][p] = "current"

\* An authorisation is given only at the login server, and nobody logs in there
\* while a connection is still to save.
Allows(p, s, c, d) ==
    /\ p \in loginAuth' => /\ d.phase \notin {"entering", "playing", "leaving"}
                           /\ p \in loginAuth \/ (Holding(c) /\ c.on = LoginServer)
    /\ Holding(d) /\ d.on = LoginServer /\ ~Holding(c) =>
          \A t \in Others(s) : client[t].phase # "leaving"

\* Whoever stops playing, or leaves for good, has saved, and was the only one
\* to; and who comes in has the current character.
Cares(p, s, c, d) ==
    /\ d.phase = "leaving" => Live(c) /\ ~Live(d)
    /\ Comes(d)
    /\ \/ Writes(d)
       \/ saved'[p] = saved[p] /\ c.phase \notin {"playing", "leaving"} /\ d.phase # "leaving"
       \/ /\ saved'[p] = (c.copy = "current") /\ c.phase \in {"playing", "leaving"}
          /\ d.phase # "leaving" /\ \A t \in Others(s) : client[t].phase # "leaving"

\* Such a step keeps the data of p together.
LEMMA OneFresh ==
    ASSUME SessionAssumption, TypeInv, Base, NEW p \in Player, NEW s \in Session, NEW c, NEW d,
           c = client[s], Belongs(s, p), Orderly(p), Fresh(p), Becomes(s, d),
           d = NoClient \/ (d.of = p /\ d.on = c.on), FlagsFit(d),
           NEW y, Hands(p, c, d, y), Allows(p, s, c, d), Cares(p, s, c, d)
    PROVE  Fresh(p)'
<1>1. client'[s] = d /\ \A t \in Session : t # s => client'[t] = client[t]
  BY DEF Becomes, TypeInv, TypeOK
<1>2. d = NoClient => d.of # p /\ ~Live(d) /\ d.phase = "new"
  BY DEF NoClient, SessionAssumption, Live, Holding
<1>3. /\ \A t \in Session : t # s => (Belongs(t, p)' <=> Belongs(t, p))
      /\ Belongs(s, p)' <=> d # NoClient
  BY <1>1, <1>2 DEF Belongs
<1>4. Live(c) => Busy(p) /\ \A t \in Session : t # s /\ Belongs(t, p) => ~Live(client[t])
  BY DEF Busy, Orderly, OneLive
<1>5. Live(c) /\ ~Live(d) => ~Busy(p)'
  BY <1>1, <1>3, <1>4 DEF Busy, Live, Holding
<1>6. Busy(p)' => Busy(p) \/ (Live(d) /\ ~Live(c))
  BY <1>1, <1>3, <1>4 DEF Busy, Live, Holding
<1>7. Leaving(p)' => d.phase = "leaving"
                     \/ \E t \in Others(s) : Belongs(t, p) /\ client[t].phase = "leaving"
  BY <1>1, <1>3 DEF Leaving, Others, Belongs
<1>8. \A t \in Others(s) : t \in Session /\ t # s /\ Belongs(t, p)
  BY DEF Others, Belongs
<1>9. HandsOver(p)'
  <2>1. CASE Live(c) /\ ~Live(d)
    <3>1. \A x \in Place : ~Waits(p, x)
      BY <1>4, <2>1 DEF Fresh, HandsOver
    <3>2. \A x \in Place : Waits(p, x)' => x = y /\ pending'[x][p] = "current"
      BY <3>1 DEF Waits, Hands
    <3> QED BY <1>5, <2>1, <3>2 DEF HandsOver
  <2>2. CASE ~(Live(c) /\ ~Live(d))
    <3>1. \A x \in Place : Waits(p, x)' => Waits(p, x) /\ pending'[x][p] = pending[x][p]
      BY <2>2 DEF Waits, Hands
    <3>2. Busy(p)' => \A x \in Place : ~Waits(p, x)'
      BY <1>6, <3>1 DEF Fresh, HandsOver, Waits, Hands
    <3> QED BY <3>1, <3>2 DEF Fresh, HandsOver
  <2> QED BY <2>1, <2>2
<1>10. Authorised(p)'
  <2> SUFFICES ASSUME p \in loginAuth'
               PROVE  /\ \A x \in Place : ~Waits(p, x)'
                      /\ \A t \in Session : Belongs(t, p)' =>
                            client'[t].phase \notin {"entering", "playing", "leaving"}
    BY DEF Authorised
  <2>1. /\ \A x \in Place : Waits(p, x)' => Waits(p, x)
        /\ d.phase \notin {"entering", "playing", "leaving"}
        /\ p \in loginAuth \/ (Holding(c) /\ c.on = LoginServer)
    BY DEF Waits, Hands, Allows
  <2>2. ASSUME NEW t \in Session, t # s, Belongs(t, p)
        PROVE  client[t].phase \notin {"entering", "playing", "leaving"}
    <3>1. CASE p \in loginAuth
      BY <2>2, <3>1 DEF Fresh, Authorised
    <3>2. CASE Holding(c) /\ c.on = LoginServer
      <4>1. ~Live(client[t])
        BY <1>4, <2>2, <3>2 DEF Live
      <4>2. client[t].phase \notin {"entering", "playing"}
        BY <4>1 DEF Base, AllFlagsFit, FlagsFit, Live, Holding
      <4>3. ~Leaving(p)
        BY <3>2 DEF Fresh, AtLogin
      <4> QED BY <2>2, <4>2, <4>3 DEF Leaving
    <3> QED BY <2>1, <3>1, <3>2
  <2>3. \A x \in Place : ~Waits(p, x)
    <3>1. CASE p \in loginAuth
      BY <3>1 DEF Fresh, Authorised
    <3>2. CASE Holding(c) /\ c.on = LoginServer
      BY <1>4, <3>2 DEF Live, Fresh, HandsOver
    <3> QED BY <2>1, <3>1, <3>2
  <2>4. ASSUME NEW t \in Session, Belongs(t, p)'
        PROVE  client'[t].phase \notin {"entering", "playing", "leaving"}
    BY <1>1, <1>3, <2>1, <2>2, <2>4
  <2> QED BY <2>1, <2>3, <2>4
<1>11. AtLogin(p)'
  <2> SUFFICES ASSUME Leaving(p)', NEW t \in Session, Belongs(t, p)', Holding(client'[t]),
                      client'[t].on = LoginServer
               PROVE  FALSE
    BY DEF AtLogin, Holding
  <2>1. CASE t = s
    <3>1. client'[t] = d /\ d # NoClient
      BY <1>1, <1>3, <2>1
    <3>2. d.phase # "leaving" /\ c.on = LoginServer
      BY <3>1 DEF FlagsFit
    <3>3. PICK u \in Others(s) : Belongs(u, p) /\ client[u].phase = "leaving"
      BY <1>7, <3>2
    <3>4. Leaving(p) /\ Holding(c)
      BY <1>8, <3>1, <3>3 DEF Leaving, Allows
    <3> QED BY <3>2, <3>4 DEF Fresh, AtLogin
  <2>2. CASE t # s
    <3>1. Belongs(t, p) /\ client'[t] = client[t] /\ Live(client[t])
      BY <1>1, <1>3, <2>2 DEF Live
    <3>2. ~Live(c)
      BY <1>4, <2>2, <3>1
    <3>3. Leaving(p)
      BY <1>7, <1>8, <3>2 DEF Leaving, Cares
    <3> QED BY <3>1, <3>3 DEF Fresh, AtLogin
  <2> QED BY <2>1, <2>2
<1>12. SafeCopy(p)'
  <2>1. ASSUME NEW t \in Session, t # s, Belongs(t, p), Writes(client[t])
        PROVE  Witness(p)'
    BY <1>1, <1>3, <2>1 DEF Witness, Writes
  <2>2. CASE Writes(d)
    BY <1>1, <1>2, <1>3, <2>2 DEF SafeCopy, Witness, Writes
  <2>3. CASE saved'[p] = saved[p] /\ c.phase \notin {"playing", "leaving"} /\ d.phase # "leaving"
    <3>1. Leaving(p)' => Leaving(p)
      BY <1>7, <1>8, <2>3 DEF Leaving
    <3>2. Witness(p) => Witness(p)'
      BY <2>1, <2>3 DEF Witness, Writes
    <3> QED BY <2>3, <3>1, <3>2 DEF Fresh, SafeCopy
  <2>4. CASE /\ saved'[p] = (c.copy = "current") /\ c.phase \in {"playing", "leaving"}
             /\ d.phase # "leaving" /\ \A t \in Others(s) : client[t].phase # "leaving"
    <3>1. ~Leaving(p)'
      BY <1>7, <2>4
    <3>2. c.copy = "current" => saved'[p]
      BY <2>4
    <3>3. c.copy # "current" => Witness(p)'
      <4>1. SUFFICES ASSUME c.copy # "current" PROVE Witness(p)'
        OBVIOUS
      <4>2. c.phase = "leaving"
        BY <2>4, <4>1 DEF Fresh, OnCurrent, Comes
      <4>3. PICK t \in Session : Belongs(t, p) /\ Writes(client[t])
        BY <4>2 DEF Leaving, Fresh, SafeCopy, Witness
      <4> QED BY <2>1, <4>1, <4>3 DEF Writes
    <3> QED BY <3>1, <3>2, <3>3 DEF SafeCopy
  <2> QED BY <2>2, <2>3, <2>4 DEF Cares
<1>13. OnCurrent(p)'
  <2>1. ASSUME NEW t \in Session, Belongs(t, p)' PROVE Comes(client'[t])
    BY <1>1, <1>3, <2>1 DEF Fresh, OnCurrent, Cares
  <2> QED BY <2>1 DEF OnCurrent, Comes
<1> QED BY <1>9, <1>10, <1>11, <1>12, <1>13 DEF Fresh

\* The data of other players than p are as they were, or gone.
OnlyWrites(p) ==
    \A q \in Player \ {p} :
        /\ \A x \in Place : pending'[x][q] \in {pending[x][q], "none"}
        /\ q \in loginAuth' => q \in loginAuth
        /\ saved'[q] = saved[q]

\* Nobody is left out of account any more than before.
OnlyMarks == overtaken \subseteq overtaken' /\ leftover \subseteq leftover'

Accounted(p) == p \notin overtaken \cup leftover

LEMMA DataStep ==
    ASSUME SessionAssumption, FreshInv, NEW s \in Session, NEW p \in Player, NEW d,
           p = client[s].of, Becomes(s, d), d.of = p \/ d = NoClient,
           OnlyWrites(p), OnlyMarks, Accounted(p)' => Fresh(p)'
    PROVE  AllFresh'
<1> SUFFICES ASSUME NEW q \in Player, q \notin overtaken' \cup leftover'
             PROVE  Fresh(q)'
  BY DEF AllFresh
<1>1. CASE q = p
  BY <1>1 DEF Accounted
<1>2. CASE q # p
  <2>1. Fresh(q)
    BY DEF FreshInv, AllFresh, OnlyMarks
  <2>2. client'[s] = d /\ \A t \in Session : t # s => client'[t] = client[t]
    BY DEF Becomes, FreshInv, OrderInv, GhostInv, TypeInv, TypeOK
  <2>3. d.of # q
    BY <1>2 DEF NoClient, SessionAssumption
  <2>4. Unread(q)
    BY <1>2, <2>2, <2>3 DEF OnlyWrites, Unread, Belongs
  <2> QED BY <2>1, <2>4, UnreadFresh
<1> QED BY <1>1, <1>2

\* The connection that a handler works on, once more.
LEMMA OwnData ==
    ASSUME SessionAssumption, FreshInv, NEW s \in Session, NEW c, NEW p,
           c = client[s], p = client[s].of, c # NoClient
    PROVE  /\ TypeOK /\ TypeInv /\ Base /\ p \in Player /\ c \in Client
           /\ FlagsFit(c) /\ Good(c) /\ Belongs(s, p)
           /\ OnlyMarks /\ Accounted(p)' =>
                 Orderly(p) /\ Fresh(p) /\ p \notin overtaken' /\ p \notin leftover'
<1>1. TypeInv /\ Base /\ AllOrderly /\ AllFresh
  BY DEF FreshInv, OrderInv, GhostInv
<1>2. p \in Player /\ c \in Client /\ FlagsFit(c) /\ Good(c)
  BY <1>1 DEF TypeInv, Connections, Good, Base, AllFlagsFit
<1>3. ASSUME OnlyMarks, Accounted(p)'
      PROVE  Orderly(p) /\ Fresh(p) /\ p \notin overtaken' /\ p \notin leftover'
  BY <1>1, <1>2, <1>3 DEF OnlyMarks, Accounted, AllOrderly, AllFresh
<1> QED BY <1>1, <1>2, <1>3 DEF TypeInv, Belongs

LEMMA LoginFresh ==
    ASSUME SessionAssumption, FreshInv, NEW s \in Session, Login(s)
    PROVE  AllFresh'
<1>0. PICK c, p, y : c = client[s] /\ p = client[s].of /\ y = Nowhere
  OBVIOUS
<1>1. /\ c.open /\ c.on = LoginServer /\ ~c.loggedIn /\ c # NoClient
      /\ UNCHANGED <<saved, shared, game>>
  BY <1>0 DEF Login, Idle, NoClient
<1>2. /\ TypeInv /\ Base /\ p \in Player /\ c \in Client /\ FlagsFit(c) /\ Belongs(s, p)
  BY <1>0, <1>1, OwnData
<1>3. /\ OnlyWrites(p) /\ loginAuth' = loginAuth /\ pending' = pending /\ saved' = saved
  BY <1>1 DEF OnlyWrites, shared, transfers
<1>4. c.phase = "new" /\ ~Holding(c)
  BY <1>1, <1>2 DEF FlagsFit, Holding
<1>5. PICK d : /\ Becomes(s, d) /\ d \in {Flags(c, 2), [c EXCEPT !.loggedIn = FALSE]}
               /\ d = Flags(c, 2) =>
                    /\ leftover' = Mark(leftover, p, \E x \in Place : pending[x][p] # "none")
                    /\ overtaken' = Mark(overtaken, p, \E t \in Others(s) :
                            client[t].phase \in {"entering", "leaving", "dropped"})
               /\ d # Flags(c, 2) => UNCHANGED <<leftover, overtaken>>
  <2>1. [c EXCEPT !.loggedIn = FALSE].loggedIn = FALSE /\ Flags(c, 2).loggedIn
    BY <1>2, FlagsIn DEF Client
  <2>2. [c EXCEPT !.loggedIn = FALSE] # Flags(c, 2)
    BY <2>1
  <2> QED BY <1>0, <2>2 DEF Login, Becomes
<1>6. d.of = p /\ d.on = c.on /\ d.phase = "new"
      /\ (d # Flags(c, 2) => ~d.loggedIn) /\ (d.loggedIn => ~d.serverTransition)
  <2>1. CASE d = Flags(c, 2)
    BY <1>0, <1>2, <1>4, <2>1, FlagsIn
  <2>2. CASE d = [c EXCEPT !.loggedIn = FALSE]
    BY <1>0, <1>2, <1>4, <2>2 DEF Client
  <2> QED BY <1>5, <2>1, <2>2
<1>7. OnlyMarks
  <2>1. CASE d = Flags(c, 2)
    BY <1>5, <2>1 DEF OnlyMarks, Mark
  <2>2. CASE d # Flags(c, 2)
    BY <1>5, <2>2 DEF OnlyMarks
  <2> QED BY <2>1, <2>2
<1>8. FlagsFit(d) /\ Comes(d)
  BY <1>1, <1>6 DEF FlagsFit, Comes
<1>9. ASSUME Accounted(p)' PROVE Fresh(p)'
  <2>1. Orderly(p) /\ Fresh(p) /\ p \notin overtaken' /\ p \notin leftover'
    BY <1>0, <1>1, <1>7, <1>9, OwnData
  <2>2. Live(d) => d = Flags(c, 2)
    BY <1>6 DEF Live, Holding
  <2>3. Live(d) => /\ \A x \in Place : pending'[x][p] = "none"
                   /\ \A t \in Others(s) : client[t].phase # "leaving"
    BY <1>3, <1>5, <2>1, <2>2 DEF Mark
  <2>4. /\ \A x \in Place : pending'[x][p] \in {pending[x][p], "none"}
        /\ Holding(d) => Live(d)
    BY <1>3 DEF Live
  <2>5. p \in loginAuth' => p \in loginAuth
    BY <1>3
  <2>6. saved'[p] = saved[p] /\ c.phase \notin {"playing", "leaving"}
        /\ d.phase \notin {"entering", "playing", "leaving"}
    BY <1>3, <1>4, <1>6
  <2>7. Hands(p, c, d, y) /\ Allows(p, s, c, d) /\ Cares(p, s, c, d)
    BY <1>8, <2>3, <2>4, <2>5, <2>6 DEF Hands, Allows, Cares
  <2> QED BY <1>0, <1>2, <1>5, <1>6, <1>8, <2>1, <2>7, OneFresh
<1> QED BY <1>0, <1>2, <1>3, <1>5, <1>6, <1>7, <1>9, DataStep

LEMMA SelectCharFresh ==
    ASSUME SessionAssumption, FreshInv, NEW s \in Session, NEW ch \in Channel,
           SelectChar(s, ch)
    PROVE  AllFresh'
<1>0. PICK c, p, y : c = client[s] /\ p = client[s].of /\ y = Nowhere
  OBVIOUS
<1>1. /\ c.open /\ c.on = LoginServer /\ c.loggedIn /\ c # NoClient
      /\ UNCHANGED <<saved, pending, leftover, overtaken>>
      /\ loginAuth' = loginAuth \cup {p}
  BY <1>0 DEF SelectChar, Idle, NoClient, transfers
<1>2. /\ TypeInv /\ Base /\ p \in Player /\ c \in Client /\ FlagsFit(c) /\ Belongs(s, p)
  BY <1>0, <1>1, OwnData
<1>3. OnlyWrites(p) /\ OnlyMarks
  BY <1>1 DEF OnlyWrites, OnlyMarks
<1>4. c.phase = "new" /\ Holding(c)
  BY <1>1, <1>2 DEF FlagsFit, Holding
<1>5. PICK d : Becomes(s, d) /\ d = Flags(c, 1)
  BY <1>0 DEF SelectChar, Becomes
<1>6. ~d.loggedIn /\ d.on = c.on /\ d.of = p /\ d.phase = "new"
  <2>1. 1 \in {0, 1, 3}
    OBVIOUS
  <2> QED BY <1>0, <1>2, <1>4, <1>5, <2>1, FlagsOut
<1>7. FlagsFit(d) /\ Comes(d) /\ ~Live(d) /\ ~Holding(d)
  BY <1>6 DEF FlagsFit, Comes, Live, Holding
<1>8. ASSUME Accounted(p)' PROVE Fresh(p)'
  <2>1. Orderly(p) /\ Fresh(p)
    BY <1>0, <1>1, <1>3, <1>8, OwnData
  <2>2. \A x \in Place : pending'[x][p] \in {pending[x][p], "none"}
    BY <1>1
  <2>3. saved'[p] = saved[p] /\ c.phase \notin {"playing", "leaving"}
        /\ d.phase \notin {"entering", "playing", "leaving"}
    BY <1>1, <1>4, <1>6
  <2>4. Hands(p, c, d, y) /\ Allows(p, s, c, d) /\ Cares(p, s, c, d)
    BY <1>1, <1>4, <1>7, <2>2, <2>3 DEF Hands, Allows, Cares
  <2> QED BY <1>0, <1>2, <1>5, <1>6, <1>7, <2>1, <2>4, OneFresh
<1> QED BY <1>0, <1>2, <1>3, <1>5, <1>6, <1>8, DataStep

LEMMA TakeOverFresh ==
    ASSUME SessionAssumption, FreshInv, NEW s \in Session, TakeOver(s)
    PROVE  AllFresh'
<1>0. PICK c, p, y, x0, z : /\ c = client[s] /\ p = client[s].of /\ y = Nowhere
                            /\ x0 = pending[client[s].on][client[s].of]
                            /\ z = IF client[s].on = CashShop THEN origin[client[s].of]
                                   ELSE client[s].channel
  OBVIOUS
<1>1. /\ c.open /\ c.on \in Place /\ c.phase = "new" /\ c # NoClient /\ x0 # "none"
      /\ pending' = [pending EXCEPT ![c.on][p] = "none"]
      /\ UNCHANGED <<saved, loginAuth, leftover, overtaken>>
  BY <1>0 DEF TakeOver, Idle, NoClient, row
<1>2. /\ TypeOK /\ TypeInv /\ Base /\ p \in Player /\ c \in Client /\ FlagsFit(c) /\ Belongs(s, p)
  BY <1>0, <1>1, OwnData
<1>3. \A x \in Place : \A q \in Player :
          pending'[x][q] = IF x = c.on /\ q = p THEN "none" ELSE pending[x][q]
  BY <1>1, <1>2 DEF TypeOK
<1>4. OnlyWrites(p) /\ OnlyMarks
  BY <1>1, <1>3 DEF OnlyWrites, OnlyMarks
<1>5. PICK d : Becomes(s, d) /\ d = [c EXCEPT !.phase = "entering", !.copy = x0, !.channel = z]
  BY <1>0 DEF TakeOver, Becomes
<1>6. d.on = c.on /\ d.of = p /\ d.phase = "entering" /\ d.copy = x0
  BY <1>0, <1>2, <1>5 DEF Client
<1>7. FlagsFit(d) /\ ~(d.on = LoginServer)
  BY <1>1, <1>6, ServerFacts DEF FlagsFit
<1>8. ASSUME Accounted(p)' PROVE Fresh(p)'
  <2>1. Orderly(p) /\ Fresh(p) /\ Waits(p, c.on)
    BY <1>0, <1>1, <1>4, <1>8, OwnData DEF Waits
  <2>2. \A x \in Place : pending'[x][p] = "none"
    BY <1>1, <1>2, <1>3, <2>1 DEF Fresh, HandsOver, Waits
  <2>3. p \notin loginAuth' /\ Comes(d)
    BY <1>0, <1>1, <1>6, <2>1 DEF Fresh, Authorised, HandsOver, Comes
  <2>4. saved'[p] = saved[p] /\ c.phase \notin {"playing", "leaving"} /\ d.phase # "leaving"
    BY <1>1, <1>6
  <2>5. Hands(p, c, d, y) /\ Allows(p, s, c, d) /\ Cares(p, s, c, d)
    BY <1>7, <2>2, <2>3, <2>4 DEF Hands, Allows, Cares
  <2> QED BY <1>0, <1>2, <1>5, <1>6, <1>7, <2>1, <2>5, OneFresh
<1> QED BY <1>0, <1>2, <1>4, <1>5, <1>6, <1>8, DataStep

LEMMA LoadFresh ==
    ASSUME SessionAssumption, FreshInv, NEW s \in Session, Load(s)
    PROVE  AllFresh'
<1>0. PICK c, p, y, x0 : c = client[s] /\ p = client[s].of /\ y = Nowhere
                         /\ x0 = IF saved[client[s].of] THEN "current" ELSE "old"
  OBVIOUS
<1>1. /\ c.open /\ c.on \in Place /\ c.phase = "new" /\ c # NoClient
      /\ p \in loginAuth /\ loginAuth' = loginAuth \ {p}
      /\ UNCHANGED <<saved, pending, leftover, overtaken>>
  BY <1>0, ServerFacts DEF Load, Idle, NoClient, row, transfers
<1>2. /\ TypeOK /\ TypeInv /\ Base /\ p \in Player /\ c \in Client /\ FlagsFit(c) /\ Belongs(s, p)
  BY <1>0, <1>1, OwnData
<1>3. OnlyWrites(p) /\ OnlyMarks /\ p \notin loginAuth'
  BY <1>1 DEF OnlyWrites, OnlyMarks
<1>4. PICK d : Becomes(s, d) /\ d = [c EXCEPT !.phase = "entering", !.copy = x0]
  BY <1>0 DEF Load, Becomes
<1>5. d.on = c.on /\ d.of = p /\ d.phase = "entering" /\ d.copy = x0
  BY <1>0, <1>2, <1>4 DEF Client
<1>6. FlagsFit(d) /\ ~(d.on = LoginServer)
  BY <1>1, <1>5, ServerFacts DEF FlagsFit
<1>7. ASSUME Accounted(p)' PROVE Fresh(p)'
  <2>1. Orderly(p) /\ Fresh(p)
    BY <1>0, <1>1, <1>3, <1>7, OwnData
  <2>2. \A x \in Place : pending'[x][p] = "none"
    BY <1>1, <2>1 DEF Fresh, Authorised, Waits
  <2>3. ~Witness(p)
    BY <1>1, <2>1 DEF Fresh, Authorised, Witness, Writes
  <2>4. Comes(d)
    BY <1>0, <1>5, <2>1, <2>3 DEF Fresh, SafeCopy, Comes
  <2>5. saved'[p] = saved[p] /\ c.phase \notin {"playing", "leaving"} /\ d.phase # "leaving"
    BY <1>1, <1>5
  <2>6. Hands(p, c, d, y) /\ Allows(p, s, c, d) /\ Cares(p, s, c, d)
    BY <1>3, <1>6, <2>2, <2>4, <2>5 DEF Hands, Allows, Cares
  <2> QED BY <1>0, <1>2, <1>4, <1>5, <1>6, <2>1, <2>6, OneFresh
<1> QED BY <1>0, <1>2, <1>3, <1>4, <1>5, <1>7, DataStep

\* Turned back, or never let in.
LEMMA RefusedFresh ==
    ASSUME SessionAssumption, FreshInv, NEW s \in Session, Unknown(s) \/ Reject(s)
    PROVE  AllFresh'
<1>0. PICK c, p, y : c = client[s] /\ p = client[s].of /\ y = Nowhere
  OBVIOUS
<1>1. /\ c.open \/ c.phase # "new"
      /\ c.phase \in {"new", "entering"}
      /\ UNCHANGED <<saved, loginAuth, pending, leftover, overtaken>>
  BY <1>0 DEF Unknown, Reject, Idle, row, shared, transfers
<1>2. c # NoClient /\ c.on \in Place
  <2>1. c # NoClient
    BY <1>1 DEF NoClient
  <2>2. Good(c)
    BY <1>0, <2>1, OwnData
  <2> QED BY <1>0, <2>1, <2>2 DEF Unknown, Reject, Good
<1>3. /\ TypeOK /\ TypeInv /\ Base /\ p \in Player /\ c \in Client /\ FlagsFit(c) /\ Belongs(s, p)
  BY <1>0, <1>2, OwnData
<1>4. OnlyWrites(p) /\ OnlyMarks
  BY <1>1 DEF OnlyWrites, OnlyMarks
<1>5. PICK d, e : /\ Becomes(s, d)
                  /\ \/ c.phase = "new" /\ d = [c EXCEPT !.phase = "refused", !.open = FALSE]
                     \/ /\ c.phase = "entering" /\ e = FlagsAfter(c, p)
                        /\ d = [e EXCEPT !.phase = "left", !.copy = "none", !.open = FALSE]
  <2>1. CASE Unknown(s)
    BY <1>0, <2>1 DEF Unknown, Becomes
  <2>2. CASE Reject(s)
    BY <1>0, <2>2 DEF Reject, Becomes
  <2> QED BY <2>1, <2>2
<1>6. /\ d.on = c.on /\ d.of = p /\ d.phase \in {"refused", "left"}
      /\ (d.phase = "refused" => d.loggedIn = c.loggedIn /\ c.phase = "new")
  <2>1. CASE d = [c EXCEPT !.phase = "refused", !.open = FALSE] /\ c.phase = "new"
    BY <1>0, <1>3, <2>1 DEF Client
  <2>2. CASE e = FlagsAfter(c, p)
             /\ d = [e EXCEPT !.phase = "left", !.copy = "none", !.open = FALSE]
    <3>1. e \in Client /\ e.on = c.on /\ e.of = c.of
      BY <1>3, <2>2, FlagsAfterType
    <3> QED BY <1>0, <2>2, <3>1 DEF Client
  <2> QED BY <1>5, <2>1, <2>2
<1>7. FlagsFit(d) /\ ~Live(d) /\ ~Holding(d) /\ Comes(d)
  BY <1>2, <1>3, <1>6, ServerFacts DEF FlagsFit, Live, Holding, Comes
<1>8. ASSUME Accounted(p)' PROVE Fresh(p)'
  <2>1. Orderly(p) /\ Fresh(p)
    BY <1>0, <1>2, <1>4, <1>8, OwnData
  <2>2. \A x \in Place : pending'[x][p] \in {pending[x][p], "none"}
    BY <1>1
  <2>3. saved'[p] = saved[p] /\ c.phase \notin {"playing", "leaving"} /\ loginAuth' = loginAuth
        /\ d.phase \notin {"entering", "playing", "leaving"}
    BY <1>1, <1>6
  <2>4. Hands(p, c, d, y) /\ Allows(p, s, c, d) /\ Cares(p, s, c, d)
    BY <1>7, <2>2, <2>3 DEF Hands, Allows, Cares
  <2> QED BY <1>0, <1>3, <1>5, <1>6, <1>7, <2>1, <2>4, OneFresh
<1> QED BY <1>0, <1>3, <1>4, <1>5, <1>6, <1>8, DataStep

LEMMA AdmitFresh ==
    ASSUME SessionAssumption, FreshInv, NEW s \in Session, Admit(s)
    PROVE  AllFresh'
<1>0. PICK c, p, y, e : c = client[s] /\ p = client[s].of /\ y = Nowhere /\ e = Flags(client[s], 2)
  OBVIOUS
<1>1. /\ c.phase = "entering" /\ c # NoClient
      /\ UNCHANGED <<saved, loginAuth, pending, leftover, overtaken>>
  BY <1>0 DEF Admit, NoClient, transfers
<1>2. /\ TypeOK /\ TypeInv /\ Base /\ p \in Player /\ c \in Client /\ FlagsFit(c) /\ Belongs(s, p)
      /\ c.on \in Place
  BY <1>0, <1>1, OwnData DEF Good
<1>3. OnlyWrites(p) /\ OnlyMarks
  BY <1>1 DEF OnlyWrites, OnlyMarks
<1>4. PICK d : Becomes(s, d) /\ d = [e EXCEPT !.phase = "playing"]
  BY <1>0 DEF Admit, Becomes
<1>5. /\ e.loggedIn /\ ~e.serverTransition /\ e \in Client
      /\ e.on = c.on /\ e.of = p /\ e.copy = c.copy
  BY <1>0, <1>2, FlagsIn, FlagsType
<1>6. /\ d.on = c.on /\ d.of = p /\ d.phase = "playing" /\ d.copy = c.copy
      /\ d.loggedIn /\ ~d.serverTransition
  BY <1>4, <1>5 DEF Client
<1>7. FlagsFit(d) /\ Live(c) /\ ~(d.on = LoginServer)
  BY <1>1, <1>2, <1>6, ServerFacts DEF FlagsFit, Live
<1>8. ASSUME Accounted(p)' PROVE Fresh(p)'
  <2>1. Orderly(p) /\ Fresh(p)
    BY <1>0, <1>1, <1>3, <1>8, OwnData
  <2>2. \A x \in Place : pending'[x][p] \in {pending[x][p], "none"}
    BY <1>1
  <2>3. p \notin loginAuth' /\ c.copy = "current"
    BY <1>0, <1>1, <1>2, <2>1 DEF Fresh, Authorised, OnCurrent, Comes
  <2>4. Writes(d) /\ Comes(d) /\ d.phase # "leaving"
    BY <1>6, <2>3 DEF Writes, Comes
  <2>5. Hands(p, c, d, y) /\ Allows(p, s, c, d) /\ Cares(p, s, c, d)
    BY <1>7, <2>2, <2>3, <2>4 DEF Hands, Allows, Cares
  <2> QED BY <1>0, <1>2, <1>4, <1>6, <1>7, <2>1, <2>5, OneFresh
<1> QED BY <1>0, <1>2, <1>3, <1>4, <1>6, <1>8, DataStep

\* changeChannel, LeaveCS and EnterCS: the transfer is made from the character
\* that was played, and who leaves saves it later, or has saved it.
LEMMA MoveFresh ==
    ASSUME SessionAssumption, FreshInv, NEW s \in Session, Move(s)
    PROVE  AllFresh'
<1>0. PICK c, p : c = client[s] /\ p = client[s].of
  OBVIOUS
<1>1. /\ c.phase = "playing" /\ c # NoClient /\ UNCHANGED <<loginAuth, leftover>>
      /\ overtaken \subseteq overtaken'
      /\ UNCHANGED saved \/ Save(s)
  <2>1. /\ c.phase = "playing" /\ UNCHANGED <<loginAuth, leftover>>
        /\ overtaken \subseteq overtaken'
        /\ UNCHANGED saved \/ Save(s)
    <3>1. CASE \E ch \in Channel : ChangeChannel(s, ch)
      BY <1>0, <3>1 DEF ChangeChannel, Playing
    <3>2. CASE LeaveCS(s)
      BY <1>0, <3>2 DEF LeaveCS, Playing
    <3>3. CASE EnterCS(s)
      BY <1>0, <3>3 DEF EnterCS, Playing, Mark
    <3> QED BY <3>1, <3>2, <3>3 DEF Move
  <2> QED BY <2>1 DEF NoClient
<1>2. /\ TypeOK /\ TypeInv /\ Base /\ p \in Player /\ c \in Client /\ FlagsFit(c) /\ Belongs(s, p)
      /\ c.on \in Place
  BY <1>0, <1>1, OwnData DEF Good
<1>3. PICK n, e, d : /\ n \in {1, 3} /\ e = Flags(c, n) /\ Becomes(s, d)
                     /\ \/ d = [e EXCEPT !.phase = "leaving"] /\ UNCHANGED saved
                        \/ /\ d = [e EXCEPT !.phase = "left", !.copy = "none"] /\ Save(s)
                           /\ overtaken' = Mark(overtaken, p, Overtakes(s))
  <2>1. CASE \E ch \in Channel : ChangeChannel(s, ch)
    <3>1. PICK e, d : e = Flags(c, 3) /\ d = [e EXCEPT !.phase = "leaving"]
      OBVIOUS
    <3>2. Becomes(s, d) /\ UNCHANGED saved
      BY <1>0, <2>1, <3>1 DEF ChangeChannel, Becomes
    <3> QED BY <3>1, <3>2
  <2>2. CASE LeaveCS(s)
    <3>1. PICK e, d : e = Flags(c, 1) /\ d = [e EXCEPT !.phase = "leaving"]
      OBVIOUS
    <3>2. Becomes(s, d) /\ UNCHANGED saved
      BY <1>0, <2>2, <3>1 DEF LeaveCS, Becomes
    <3> QED BY <3>1, <3>2
  <2>3. CASE EnterCS(s)
    <3>1. PICK e, d : e = Flags(c, 3) /\ d = [e EXCEPT !.phase = "left", !.copy = "none"]
      OBVIOUS
    <3>2. Becomes(s, d) /\ Save(s) /\ overtaken' = Mark(overtaken, p, Overtakes(s))
      BY <1>0, <2>3, <3>1 DEF EnterCS, Becomes
    <3> QED BY <3>1, <3>2
  <2> QED BY <2>1, <2>2, <2>3 DEF Move
<1>4. ~e.loggedIn /\ e \in Client /\ e.on = c.on /\ e.of = p /\ e.copy = c.copy
  <2>1. n \in {0, 1, 3}
    BY <1>3
  <2> QED BY <1>0, <1>2, <1>3, <2>1, FlagsOut, FlagsType
<1>5. /\ ~d.loggedIn /\ d.on = c.on /\ d.of = p /\ d.phase \in {"leaving", "left"}
      /\ d.phase = "leaving" => d.copy = c.copy
  <2>1. CASE d = [e EXCEPT !.phase = "leaving"]
    BY <1>4, <2>1 DEF Client
  <2>2. CASE d = [e EXCEPT !.phase = "left", !.copy = "none"]
    BY <1>4, <2>2 DEF Client
  <2> QED BY <1>3, <2>1, <2>2
<1>6. PICK y : pending' = [pending EXCEPT ![y][p] = c.copy]
  <2>1. CASE \E ch \in Channel : ChangeChannel(s, ch)
    BY <1>0, <2>1 DEF ChangeChannel
  <2>2. CASE LeaveCS(s)
    BY <1>0, <2>2 DEF LeaveCS
  <2>3. CASE EnterCS(s)
    BY <1>0, <2>3 DEF EnterCS
  <2> QED BY <2>1, <2>2, <2>3 DEF Move
<1>7. \A x \in Place, q \in Player :
          pending'[x][q] = IF x = y /\ q = p THEN c.copy ELSE pending[x][q]
  BY <1>2, <1>6 DEF TypeOK
<1>8. OnlyWrites(p) /\ OnlyMarks
  <2>1. \A q \in Player \ {p} : saved'[q] = saved[q]
    BY <1>0, <1>1, <1>2 DEF Save, TypeOK
  <2> QED BY <1>1, <1>7, <2>1 DEF OnlyWrites, OnlyMarks
<1>9. FlagsFit(d) /\ Live(c) /\ ~Live(d) /\ ~Holding(d) /\ Comes(d)
  BY <1>1, <1>2, <1>5, ServerFacts DEF FlagsFit, Live, Holding, Comes
<1>10. ASSUME Accounted(p)' PROVE Fresh(p)'
  <2>1. Orderly(p) /\ Fresh(p) /\ p \notin overtaken'
    BY <1>0, <1>1, <1>8, <1>10, OwnData
  <2>2. c.copy = "current" /\ p \notin loginAuth'
    BY <1>0, <1>1, <1>2, <2>1 DEF Fresh, OnCurrent, Comes, Authorised
  <2>3. Hands(p, c, d, y)
    BY <1>2, <1>7, <1>9, <2>2 DEF Hands
  <2>4. Allows(p, s, c, d)
    BY <1>9, <2>2 DEF Allows
  <2>5. Cares(p, s, c, d)
    <3>1. CASE d.phase = "leaving"
      BY <1>5, <1>9, <2>2, <3>1 DEF Cares, Writes
    <3>2. CASE d.phase # "leaving"
      <4>1. e.phase = "playing"
        <5>1. n \in {0, 1, 3}
          BY <1>3
        <5> QED BY <1>1, <1>2, <1>3, <5>1, FlagsOut
      <4>2. d # [e EXCEPT !.phase = "leaving"]
        BY <1>4, <3>2 DEF Client
      <4>3. Save(s) /\ overtaken' = Mark(overtaken, p, Overtakes(s))
        BY <1>3, <4>2
      <4>4. saved'[p] = (c.copy = "current")
        BY <1>0, <1>2, <4>3 DEF Save, TypeOK
      <4>5. \A t \in Others(s) : client[t].phase # "leaving"
        BY <2>1, <4>3 DEF Mark, Overtakes
      <4> QED BY <1>1, <1>9, <3>2, <4>4, <4>5 DEF Cares
    <3> QED BY <3>1, <3>2
  <2> QED BY <1>0, <1>2, <1>3, <1>5, <1>9, <2>1, <2>3, <2>4, <2>5, OneFresh
<1> QED BY <1>0, <1>2, <1>3, <1>5, <1>8, <1>10, DataStep

LEMMA FinishLeavingFresh ==
    ASSUME SessionAssumption, FreshInv, NEW s \in Session, FinishLeaving(s)
    PROVE  AllFresh'
<1>0. PICK c, p, y, b : c = client[s] /\ p = client[s].of /\ y = Nowhere
                        /\ b = (client[s].open /\ ~(client[s].on = CashShop))
  OBVIOUS
<1>1. /\ c.phase = "leaving" /\ c # NoClient /\ Save(s)
      /\ UNCHANGED <<loginAuth, pending, leftover>>
      /\ overtaken' = Mark(overtaken, p, Overtakes(s))
  BY <1>0 DEF FinishLeaving, NoClient, transfers
<1>2. /\ TypeOK /\ TypeInv /\ Base /\ p \in Player /\ c \in Client /\ FlagsFit(c) /\ Belongs(s, p)
  BY <1>0, <1>1, OwnData
<1>3. saved'[p] = (c.copy = "current") /\ \A q \in Player \ {p} : saved'[q] = saved[q]
  BY <1>0, <1>1, <1>2 DEF Save, TypeOK
<1>4. OnlyWrites(p) /\ OnlyMarks
  BY <1>1, <1>3 DEF OnlyWrites, OnlyMarks, Mark
<1>5. PICK d : Becomes(s, d) /\ d = [c EXCEPT !.phase = "left", !.copy = "none", !.open = b]
  BY <1>0 DEF FinishLeaving, Becomes
<1>6. d.phase = "left" /\ d.on = c.on /\ d.of = p
  BY <1>0, <1>2, <1>5 DEF Client
<1>7. FlagsFit(d) /\ ~Live(d) /\ ~Holding(d) /\ Comes(d)
  BY <1>1, <1>2, <1>6 DEF FlagsFit, Live, Holding, Comes
<1>8. ASSUME Accounted(p)' PROVE Fresh(p)'
  <2>1. Orderly(p) /\ Fresh(p) /\ p \notin overtaken'
    BY <1>0, <1>1, <1>4, <1>8, OwnData
  <2>2. \A t \in Others(s) : client[t].phase # "leaving"
    BY <1>1, <2>1 DEF Mark, Overtakes
  <2>3. Hands(p, c, d, y) /\ Allows(p, s, c, d)
    BY <1>1, <1>6, <1>7 DEF Hands, Allows
  <2>4. Cares(p, s, c, d)
    BY <1>1, <1>3, <1>6, <1>7, <2>2 DEF Cares
  <2> QED BY <1>0, <1>2, <1>5, <1>6, <1>7, <2>1, <2>3, <2>4, OneFresh
<1> QED BY <1>0, <1>2, <1>4, <1>5, <1>6, <1>8, DataStep

\* A connection ends, its player saved by disconnect if it was still playing.
LEMMA EndFresh ==
    ASSUME SessionAssumption, FreshInv, NEW s \in Session, NEW p, NEW c, NEW d,
           c = client[s], c # NoClient, p = client[s].of, c.phase \notin {"entering", "leaving"},
           Becomes(s, d), d = NoClient \/ (d.of = p /\ d.on = c.on), d.phase \in {"new", "dropped"},
           ~Live(d), FlagsFit(d), UNCHANGED <<pending, leftover>>,
           \/ /\ c.phase # "playing" /\ UNCHANGED <<saved, loginAuth>>
              /\ OnlyMarks
           \/ /\ c.phase = "playing" /\ Save(s) /\ loginAuth' = loginAuth \ {p}
              /\ overtaken' = Mark(overtaken, p, Overtakes(s))
    PROVE  AllFresh'
<1>1. /\ TypeOK /\ TypeInv /\ Base /\ p \in Player /\ c \in Client /\ FlagsFit(c) /\ Belongs(s, p)
  BY OwnData
<1>2. c.phase = "playing" =>
          saved'[p] = (c.copy = "current") /\ \A q \in Player \ {p} : saved'[q] = saved[q]
  BY <1>1 DEF Save, TypeOK
<1>3. OnlyWrites(p) /\ OnlyMarks
  BY <1>2 DEF OnlyWrites, OnlyMarks, Mark
<1>4. PICK y : y = Nowhere
  OBVIOUS
<1>5. ~Holding(d) /\ Comes(d)
  BY DEF Live, Comes
<1>6. ASSUME Accounted(p)' PROVE Fresh(p)'
  <2>1. Orderly(p) /\ Fresh(p) /\ p \notin overtaken'
    BY <1>3, <1>6, OwnData
  <2>2. Hands(p, c, d, y) /\ Allows(p, s, c, d)
    BY <1>5 DEF Hands, Allows
  <2>3. Cares(p, s, c, d)
    <3>1. CASE c.phase # "playing"
      BY <1>5, <3>1 DEF Cares
    <3>2. CASE c.phase = "playing"
      <4>1. \A t \in Others(s) : client[t].phase # "leaving"
        BY <2>1, <3>2 DEF Mark, Overtakes
      <4> QED BY <1>2, <1>5, <3>2, <4>1 DEF Cares
    <3> QED BY <3>1, <3>2
  <2> QED BY <1>1, <2>1, <2>2, <2>3, OneFresh
<1>7. d.of = p \/ d = NoClient
  OBVIOUS
<1> QED BY <1>1, <1>3, <1>6, <1>7, DataStep

LEMMA InactiveFresh ==
    ASSUME SessionAssumption, FreshInv, NEW s \in Session, Inactive(s)
    PROVE  AllFresh'
<1>0. PICK c, p, d : c = client[s] /\ p = client[s].of /\ d = NoClient
  OBVIOUS
<1>1. /\ c # NoClient /\ c.phase \notin {"entering", "leaving"} /\ Becomes(s, d)
      /\ UNCHANGED <<pending, leftover>>
  BY <1>0 DEF Inactive, Closed, Becomes, transfers
<1>2. p \in Player /\ c \in Client
  BY <1>0, <1>1, OwnData
<1>3. d.phase = "new" /\ d.on = Nowhere /\ ~d.loggedIn
  BY <1>0 DEF NoClient
<1>4. ~Live(d) /\ FlagsFit(d)
  BY <1>3, ServerFacts DEF Live, Holding, FlagsFit
<1>5. \/ /\ c.phase # "playing" /\ UNCHANGED <<saved, loginAuth>>
         /\ OnlyMarks
      \/ /\ c.phase = "playing" /\ Save(s) /\ loginAuth' = loginAuth \ {p}
         /\ overtaken' = Mark(overtaken, p, Overtakes(s))
  <2>1. CASE c.on \in Channel /\ c.phase \in {"new", "refused"}
    BY <1>0, <1>1, <2>1 DEF Inactive, row, OnlyMarks
  <2>2. ASSUME NEW e, NEW b, NEW n, Disconnect(s, e, b, n), e.of = p, e.phase = c.phase
        PROVE  \/ /\ c.phase # "playing" /\ UNCHANGED <<saved, loginAuth>>
                  /\ OnlyMarks
               \/ /\ c.phase = "playing" /\ Save(s) /\ loginAuth' = loginAuth \ {p}
                  /\ overtaken' = Mark(overtaken, p, Overtakes(s))
    <3>1. CASE c.phase = "playing"
      BY <2>2, <3>1 DEF Disconnect, Mark
    <3>2. CASE c.phase # "playing"
      BY <1>1, <2>2, <3>2 DEF Disconnect, Mark, OnlyMarks
    <3> QED BY <3>1, <3>2
  <2>3. CASE c.on \in Channel /\ c.phase \notin {"new", "refused"}
    <3>1. PICK e, b, n : e = FlagsAfter(c, p) /\ b = FALSE /\ n = RowAfter(p)
      OBVIOUS
    <3>2. Disconnect(s, e, b, n) /\ e.of = p /\ e.phase = c.phase
      BY <1>0, <1>2, <2>3, <3>1, FlagsAfterType DEF Inactive
    <3> QED BY <2>2, <3>2
  <2>4. CASE c.on \notin Channel
    <3>1. PICK b, n : b = (c.on = CashShop) /\ n = loggedin[p]
      OBVIOUS
    <3>2. Disconnect(s, c, b, n)
      BY <1>0, <2>4, <3>1 DEF Inactive
    <3> QED BY <1>0, <2>2, <3>2
  <2> QED BY <2>1, <2>3, <2>4
<1> QED BY <1>0, <1>1, <1>3, <1>4, <1>5, EndFresh

LEMMA DropFresh ==
    ASSUME SessionAssumption, FreshInv, NEW s \in Session, Drop(s)
    PROVE  AllFresh'
<1>0. PICK c, p, e : c = client[s] /\ p = client[s].of
                     /\ e = IF LogsOut(client[s], FALSE) THEN Flags(client[s], 0) ELSE client[s]
  OBVIOUS
<1>1. /\ c.phase = "playing" /\ c # NoClient /\ UNCHANGED <<pending, leftover>>
      /\ Disconnect(s, c, FALSE, loggedin[p])
  <2>1. /\ c.phase = "playing" /\ Disconnect(s, c, FALSE, loggedin[p])
        /\ UNCHANGED transfers /\ UNCHANGED leftover
    BY <1>0 DEF Drop, Playing
  <2>2. c # NoClient
    BY <2>1 DEF NoClient
  <2>3. UNCHANGED <<pending, leftover>>
    BY <2>1 DEF transfers
  <2> QED BY <2>1, <2>2, <2>3
<1>2. p \in Player /\ c \in Client /\ c.on \in Place
  BY <1>0, <1>1, OwnData DEF Good
<1>3. PICK d : Becomes(s, d) /\ d = [e EXCEPT !.phase = "dropped", !.copy = "none", !.open = FALSE]
  BY <1>0 DEF Drop, Becomes
<1>4. e \in Client /\ e.on = c.on /\ e.of = p
  BY <1>0, <1>2, FlagsType
<1>5. d.phase = "dropped" /\ d.on = c.on /\ d.of = p
  BY <1>3, <1>4 DEF Client
<1>6. ~Live(d) /\ FlagsFit(d)
  BY <1>2, <1>5, ServerFacts DEF Live, Holding, FlagsFit
<1>7. /\ Save(s) /\ loginAuth' = loginAuth \ {p}
      /\ overtaken' = Mark(overtaken, p, Overtakes(s))
  BY <1>0, <1>1 DEF Disconnect, Mark
<1> QED BY <1>0, <1>1, <1>3, <1>5, <1>6, <1>7, EndFresh

LEMMA PlayFresh ==
    ASSUME SessionAssumption, FreshInv, NEW s \in Session, Play(s)
    PROVE  AllFresh'
<1>0. PICK c, p : c = client[s] /\ p = client[s].of
  OBVIOUS
<1>1. /\ c.phase = "playing" /\ c # NoClient /\ UNCHANGED <<loginAuth, leftover, overtaken>>
      /\ saved' = [saved EXCEPT ![p] = FALSE]
      /\ \A x \in Place : pending'[x] = [pending[x] EXCEPT ![p] =
                                            IF pending[x][p] = "none" THEN "none" ELSE "old"]
      /\ client'[s] = [c EXCEPT !.copy = "current"]
      /\ \A t \in Session : client[t].of # p => client'[t] = client[t]
  BY <1>0 DEF Play, Playing, NoClient
<1>2. /\ TypeOK /\ TypeInv /\ Base /\ p \in Player /\ c \in Client /\ FlagsFit(c) /\ Belongs(s, p)
  BY <1>0, <1>1, OwnData
<1>3. ASSUME NEW t \in Session
      PROVE  /\ client'[t].of = client[t].of /\ client'[t].on = client[t].on
             /\ client'[t].phase = client[t].phase
             /\ client'[t].loggedIn = client[t].loggedIn
             /\ client'[t].serverTransition = client[t].serverTransition
  <2>1. client[t] \in Client
    BY <1>2 DEF TypeOK
  <2>2. PICK x : client'[t] = [client[t] EXCEPT !.copy = x]
    <3>1. client[t] = [client[t] EXCEPT !.copy = client[t].copy]
      BY <2>1 DEF Client
    <3> QED BY <3>1 DEF Play
  <2> QED BY <2>1, <2>2 DEF Client
<1>4. ASSUME NEW x \in Place, NEW q \in Player
      PROVE  pending'[x][q] = IF q = p /\ pending[x][p] # "none" THEN "old" ELSE pending[x][q]
  <2>1. PICK f, z : f = pending[x] /\ z = IF pending[x][p] = "none" THEN "none" ELSE "old"
    OBVIOUS
  <2>2. f \in [Player -> Copy] /\ pending'[x] = [f EXCEPT ![p] = z]
    BY <1>1, <1>2, <2>1 DEF TypeOK
  <2> QED BY <1>2, <2>1, <2>2
<1>5. ASSUME NEW q \in Player, q \notin overtaken' \cup leftover', q # p
      PROVE  Fresh(q)'
  <2>1. Fresh(q)
    BY <1>1, <1>5 DEF FreshInv, AllFresh
  <2>2. \A x \in Place : pending'[x][q] = pending[x][q]
    BY <1>5, <1>4
  <2>3. \A t \in Session : Belongs(t, q) \/ client'[t].of = q => client'[t] = client[t]
    BY <1>1, <1>3, <1>5 DEF Belongs
  <2>4. Unread(q)
    BY <1>1, <1>2, <1>5, <2>2, <2>3 DEF Unread, TypeOK
  <2> QED BY <2>1, <2>4, UnreadFresh
<1>6. ASSUME p \notin overtaken' \cup leftover'
      PROVE  Fresh(p)'
  <2>1. Orderly(p) /\ Fresh(p)
    BY <1>0, <1>1, <1>2, <1>6, OwnData DEF OnlyMarks, Accounted
  <2>2. Live(c) /\ Busy(p)
    BY <1>0, <1>1, <1>2 DEF FlagsFit, Live, Holding, Busy
  <2>3. \A x \in Place : ~Waits(p, x) /\ ~Waits(p, x)'
    BY <1>2, <1>4, <2>1, <2>2 DEF Fresh, HandsOver, Waits
  <2>4. HandsOver(p)'
    BY <2>3 DEF HandsOver
  <2>5. p \notin loginAuth
    BY <1>0, <1>1, <1>2, <2>1 DEF Fresh, Authorised
  <2>6. Authorised(p)'
    BY <1>1, <2>5 DEF Authorised
  <2>7. AtLogin(p)'
    BY <1>3, <2>1 DEF Fresh, AtLogin, Leaving, Belongs, Holding
  <2>8. Comes(client'[s]) /\ Writes(client'[s]) /\ Belongs(s, p)'
    BY <1>0, <1>1, <1>2, <1>3 DEF Comes, Writes, Belongs, Client
  <2>9. SafeCopy(p)'
    BY <2>8 DEF SafeCopy, Witness, Writes
  <2>10. ASSUME NEW t \in Session, t # s, Belongs(t, p)' PROVE Comes(client'[t])
    <3>1. Belongs(t, p) /\ client[t].phase = client'[t].phase
      BY <1>3, <2>10 DEF Belongs
    <3>2. ~Live(client[t])
      BY <1>0, <1>2, <2>1, <2>2, <2>10, <3>1 DEF Orderly, OneLive
    <3> QED BY <1>2, <3>1, <3>2 DEF Comes, Live, Holding, Base, AllFlagsFit, FlagsFit
  <2>11. OnCurrent(p)'
    BY <2>8, <2>10 DEF OnCurrent, Comes
  <2> QED BY <2>4, <2>6, <2>7, <2>9, <2>11 DEF Fresh
<1> QED BY <1>5, <1>6 DEF AllFresh

-----------------------------------------------------------------------------
\* A game client opens a connection or hangs up: nothing that is played, saved
\* or handed over changes.
LEMMA AlikeFresh ==
    ASSUME NEW p \in Player, Fresh(p),
           \A t \in Session : \/ /\ Alike(client'[t], client[t])
                                 /\ client'[t].copy = client[t].copy
                              \/ /\ client[t].of # p
                                 /\ \/ client'[t].of # p
                                    \/ client'[t].phase = "new" /\ ~client'[t].loggedIn,
           UNCHANGED <<pending, loginAuth, saved>>
    PROVE  Fresh(p)'
<1>1. ASSUME NEW t \in Session, Belongs(t, p)
      PROVE  Belongs(t, p)' /\ Alike(client'[t], client[t]) /\ client'[t].copy = client[t].copy
  BY <1>1 DEF Belongs, Alike
<1>2. ASSUME NEW t \in Session, Belongs(t, p)'
      PROVE  \/ /\ Belongs(t, p) /\ Alike(client'[t], client[t])
                /\ client'[t].copy = client[t].copy
             \/ client'[t].phase = "new" /\ ~client'[t].loggedIn
  BY <1>2 DEF Belongs, Alike
<1>3. Busy(p)' => Busy(p)
  BY <1>2 DEF Busy, Live, Holding, Alike
<1>4. Leaving(p)' => Leaving(p)
  BY <1>2 DEF Leaving, Alike
<1>5. Witness(p) => Witness(p)'
  BY <1>1 DEF Witness, Writes, Alike
<1>6. HandsOver(p)'
  BY <1>3 DEF Fresh, HandsOver, Waits
<1>7. Authorised(p)'
  <2>1. ASSUME p \in loginAuth, NEW t \in Session, Belongs(t, p)'
        PROVE  client'[t].phase \notin {"entering", "playing", "leaving"}
    BY <1>2, <2>1 DEF Fresh, Authorised, Alike
  <2> QED BY <2>1 DEF Fresh, Authorised, Waits
<1>8. AtLogin(p)'
  BY <1>2, <1>4 DEF Fresh, AtLogin, Alike, Holding
<1>9. SafeCopy(p)'
  BY <1>4, <1>5 DEF Fresh, SafeCopy
<1>10. OnCurrent(p)'
  <2>1. ASSUME NEW t \in Session, Belongs(t, p)' PROVE Comes(client'[t])
    BY <1>2, <2>1 DEF Fresh, OnCurrent, Comes, Alike
  <2> QED BY <2>1 DEF OnCurrent, Comes
<1> QED BY <1>6, <1>7, <1>8, <1>9, <1>10 DEF Fresh

LEMMA ClientStepFresh ==
    ASSUME SessionAssumption, FreshInv, NEW p \in Player, ClientStep(p)
    PROVE  AllFresh'
<1>1. TypeOK /\ AllFresh /\ client \in [Session -> Client]
  BY DEF FreshInv, OrderInv, GhostInv, TypeInv, TypeOK
<1>2. ASSUME NEW t \in Session
      PROVE  /\ Alike([client[t] EXCEPT !.open = FALSE], client[t])
             /\ [client[t] EXCEPT !.open = FALSE].copy = client[t].copy
             /\ Alike(client[t], client[t])
  BY <1>1 DEF Client, Alike
<1>3. ASSUME NEW s \in Session, NEW srv, Connect(p, s, srv)
      PROVE  AllFresh'
  <2>1. UNCHANGED <<pending, loginAuth, saved, leftover, overtaken>>
    BY <1>3 DEF Connect, row, transfers
  <2>2. client[s].of \notin Player /\ client'[s].phase = "new" /\ ~client'[s].loggedIn
    <3>1. PICK d : d = [NoClient EXCEPT !.on = srv, !.of = p, !.open = TRUE,
                            !.channel = IF srv \in Channel THEN srv ELSE Nowhere]
      OBVIOUS
    <3>2. d.phase = "new" /\ ~d.loggedIn
      BY <3>1 DEF NoClient
    <3>3. client[s].of = NoPlayer /\ NoPlayer \notin Player /\ client'[s] = d
      BY <1>3, <3>1 DEF Connect, NoClient, SessionAssumption
    <3> QED BY <3>2, <3>3
  <2>3. ASSUME NEW t \in Session, t # s
        PROVE  Alike(client'[t], client[t]) /\ client'[t].copy = client[t].copy
    <3>1. client'[t] \in {[client[t] EXCEPT !.open = FALSE], client[t]}
      BY <1>3, <2>3 DEF Connect
    <3> QED BY <1>2, <3>1
  <2>4. ASSUME NEW q \in Player \ (overtaken' \cup leftover') PROVE Fresh(q)'
    <3>1. Fresh(q)
      BY <1>1, <2>1 DEF AllFresh
    <3> QED BY <2>1, <2>2, <2>3, <3>1, AlikeFresh
  <2> QED BY <2>4 DEF AllFresh
<1>4. ASSUME HangsUp(p)
      PROVE  AllFresh'
  <2>1. UNCHANGED <<pending, loginAuth, saved, leftover, overtaken>>
    BY <1>4 DEF HangsUp, row, shared, transfers
  <2>2. ASSUME NEW t \in Session
        PROVE  Alike(client'[t], client[t]) /\ client'[t].copy = client[t].copy
    <3>1. client'[t] \in {[client[t] EXCEPT !.open = FALSE], client[t]}
      BY <1>4 DEF HangsUp
    <3> QED BY <1>2, <3>1
  <2>3. ASSUME NEW q \in Player \ (overtaken' \cup leftover') PROVE Fresh(q)'
    <3>1. Fresh(q)
      BY <1>1, <2>1 DEF AllFresh
    <3> QED BY <2>1, <2>2, <3>1, AlikeFresh
  <2> QED BY <2>3 DEF AllFresh
<1>5. (\E s \in Session, srv \in Server : Connect(p, s, srv)) \/ HangsUp(p)
  BY <1>1, ServerFacts DEF ClientStep, OpenLogin, OpenTold, TurnedAway, Break, HangsUp, TypeOK
<1> QED BY <1>3, <1>4, <1>5

\* Transfers expire; nothing else that the data depend on changes.
LEMMA AsideFresh ==
    ASSUME FreshInv, UNCHANGED <<client, loginAuth, saved, leftover, overtaken>>,
           \A x \in Place, q \in Player : pending'[x][q] \in {pending[x][q], "none"}
    PROVE  AllFresh'
<1> SUFFICES ASSUME NEW q \in Player \ (overtaken' \cup leftover') PROVE Fresh(q)'
  BY DEF AllFresh
<1>1. Fresh(q) /\ Unread(q)
  BY DEF FreshInv, AllFresh, Unread
<1> QED BY <1>1, UnreadFresh

LEMMA PassFresh ==
    ASSUME SessionAssumption, FreshInv, NEW p \in Player, Pass(p)
    PROVE  AllFresh'
<1>1. UNCHANGED <<client, loginAuth, saved, leftover, overtaken>>
  BY DEF Pass, Lapse, Persisting, shared, row
<1>2. ASSUME NEW x \in Place, NEW q \in Player
      PROVE  pending'[x][q] \in {pending[x][q], "none"}
  <2>1. CASE Lapse(p)
    BY <2>1 DEF Lapse, shared, transfers
  <2>2. ASSUME NEW c \in Place, Persisting(c, p)
        PROVE  pending'[x][q] \in {pending[x][q], "none"}
    BY <2>2 DEF Persisting, FreshInv, OrderInv, GhostInv, TypeInv, TypeOK
  <2> QED BY <2>1, <2>2 DEF Pass
<1> QED BY <1>1, <1>2, AsideFresh

LEMMA InitFresh ==
    ASSUME SessionAssumption, Init
    PROVE  FreshInv
<1>1. OrderInv
  BY InitOrder
<1>2. ASSUME NEW q \in Player PROVE Fresh(q)
  <2>1. \A t \in Session : ~Belongs(t, q)
    BY DEF Init, NoClient, Belongs, SessionAssumption
  <2>2. \A x \in Place : ~Waits(q, x)
    BY DEF Init, Waits
  <2>3. q \notin loginAuth /\ saved[q]
    BY DEF Init
  <2>4. ~Leaving(q) /\ ~Busy(q)
    BY <2>1 DEF Leaving, Busy
  <2> QED BY <2>1, <2>2, <2>3, <2>4 DEF Fresh, HandsOver, Authorised, AtLogin, SafeCopy, OnCurrent
<1> QED BY <1>1, <1>2 DEF FreshInv, AllFresh

LEMMA StepFresh ==
    ASSUME SessionAssumption, FreshInv, [Next]_vars
    PROVE  FreshInv'
<1>1. OrderInv'
  BY StepOrder DEF FreshInv
<1>2. CASE UNCHANGED vars
  BY <1>1, <1>2, AsideFresh DEF vars, row, shared, transfers, FreshInv
<1>3. ASSUME NEW p \in Player, ClientStep(p) \/ Pass(p) PROVE AllFresh'
  BY <1>3, ClientStepFresh, PassFresh
<1>4. ASSUME NEW s \in Session, Handle(s) PROVE AllFresh'
  <2>1. CASE Login(s) \/ \E c \in Channel : SelectChar(s, c)
    BY <2>1, LoginFresh, SelectCharFresh
  <2>2. CASE TakeOver(s) \/ Load(s) \/ Unknown(s) \/ Admit(s) \/ Reject(s)
    BY <2>2, TakeOverFresh, LoadFresh, RefusedFresh, AdmitFresh
  <2>3. CASE Play(s) \/ Move(s) \/ FinishLeaving(s) \/ Inactive(s) \/ Drop(s)
    BY <2>3, PlayFresh, MoveFresh, FinishLeavingFresh, InactiveFresh, DropFresh
  <2> QED BY <1>4, <2>1, <2>2, <2>3 DEF Handle
<1>5. CASE Next
  BY <1>1, <1>3, <1>4, <1>5 DEF Next, FreshInv
<1> QED BY <1>2, <1>5

(* What is played on is the character as it was left last, on whichever     *)
(* server (changeChannel and LeaveCS hand it over before they save it,      *)
(* loadCharFromDB reads what is saved), but for players who came back while *)
(* a handler of theirs was still at work or a transfer still waited.        *)
THEOREM PlayedAsLeft == Spec => []PlaysOnCurrent
<1>1. Init => FreshInv
  BY InitFresh, SessionAssumption
<1>2. FreshInv /\ [Next]_vars => FreshInv'
  BY StepFresh, SessionAssumption
<1>3. FreshInv => PlaysOnCurrent
  <2> SUFFICES ASSUME FreshInv, NEW s \in Session, Playing(s),
                      client[s].of \notin overtaken \cup leftover
               PROVE  client[s].copy = "current"
    BY DEF PlaysOnCurrent
  <2>1. Fresh(client[s].of)
    BY Own, SessionAssumption DEF Playing, FreshInv, AllFresh
  <2> QED BY <2>1 DEF Fresh, OnCurrent, Comes, Belongs, Playing
<1> QED BY <1>1, <1>2, <1>3, PTL DEF Spec

=============================================================================
