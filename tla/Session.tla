------------------------------ MODULE Session ------------------------------
(***************************************************************************)
(* Players come and go: the connections of the browser clients to the      *)
(* server (client/websocket_client.py, game/game.py), the server's list of *)
(* players and of factions taken (server/game_server.py), and the messages *)
(* between them (server/websocket_server.py).                              *)
(*                                                                         *)
(* Every connection has a new player id and a client object of its own:    *)
(* Game.connect drops the old object and makes another.  So the number of  *)
(* a connection stands for its socket at both ends, for the player id and  *)
(* for the client object.  The old object lives on as long as the browser  *)
(* has events for its socket, and it still calls the Game it belongs to.   *)
(*                                                                         *)
(* The game state is the faction whose turn it is and a count of changes.  *)
(* Messages that change nothing at the client (errors, results,            *)
(* player_left, logs) are not put into the queues.                         *)
(***************************************************************************)
EXTENDS Naturals, Sequences, FiniteSets

CONSTANTS Users,        \* people, each with a Game in a browser
          Names,        \* the names they give
          NameOf,       \* the name of a user
          PrefOf,       \* the faction a user names in the URL, or None
          FactionList,  \* the factions of the title, in its order
          None,
          MaxConns,     \* bound: connections made
          MaxChanges    \* bound: changes of the game state

Factions == {FactionList[i] : i \in DOMAIN FactionList}
Conns == 1..MaxConns

ASSUME SessionAssumption ==
    /\ FactionList \in Seq(Factions) /\ Factions # {}
    /\ NameOf \in [Users -> Names]
    /\ MaxConns \in Nat /\ MaxChanges \in Nat
    /\ None \notin Factions \union Conns \union Users
    /\ None \notin [turn : Factions, changes : Nat]

VARIABLES
    players,   \* the faction of each player in the game, None for the others
    taken,     \* the player that has each faction, or None
    seqno,     \* number of the last broadcast
    state,     \* the game state
    served,    \* the connections that have a handler running
    up, down,  \* messages on their way to the server, to the client
    cut,       \* the connections the network has lost
    opened,    \* number of connections made so far
    owner,     \* whose each connection is
    obj,       \* the client objects
    user       \* the Games: their current client and their connected flag

server == <<players, taken, seqno, state, served>>
network == <<up, down, cut>>
clients == <<opened, owner, obj, user>>
vars == <<players, taken, seqno, state, served, up, down, cut, opened, owner, obj, user>>

States == [turn : Factions, changes : 0..MaxChanges]
Requests == {"act", "next_phase", "load_snapshot"}
UpMessages ==
    [type : {"join"}, name : Names, faction : {PrefOf[u] : u \in Users}]
      \union [type : {"leave"}] \union [type : Requests]
DownMessages ==
    [type : {"joined"}, id : Conns, name : Names, faction : Factions]
      \union [type : {"update"}, state : States, seqno : 0..MaxChanges]
Objects ==
    [conn : {"DISCONNECTED", "CONNECTING", "CONNECTED"},
     socket : {"NONE", "CONNECTING", "OPEN", "CLOSING", "FAILING", "CLOSED"},
     id : Conns \union {None}, faction : Factions \union {None},
     view : States \union {None}, seqno : 0..MaxChanges]

TypeOK ==
    /\ players \in [Conns -> Factions \union {None}]
    /\ taken \in [Factions -> Conns \union {None}]
    /\ seqno \in 0..MaxChanges
    /\ state \in States
    /\ served \subseteq Conns
    /\ up \in [Conns -> Seq(UpMessages)]
    /\ down \in [Conns -> Seq(DownMessages)]
    /\ cut \subseteq Conns
    /\ opened \in 0..MaxConns
    /\ owner \in [Conns -> Users \union {None}]
    /\ obj \in [Conns -> Objects]
    /\ user \in [Users -> [current : Conns \union {None}, connected : BOOLEAN]]

Following(f) ==
    LET i == CHOOSE i \in DOMAIN FactionList : FactionList[i] = f
    IN  FactionList[(i % Len(FactionList)) + 1]

(***************************************************************************)
(* The client object.                                                      *)
(***************************************************************************)
NewObject ==
    [conn |-> "DISCONNECTED", socket |-> "NONE", id |-> None, faction |-> None,
     view |-> None, seqno |-> 0]

Init ==
    /\ players = [k \in Conns |-> None]
    /\ taken = [f \in Factions |-> None]
    /\ seqno = 0
    /\ state = [turn |-> FactionList[1], changes |-> 0]
    /\ served = {}
    /\ up = [k \in Conns |-> <<>>]
    /\ down = [k \in Conns |-> <<>>]
    /\ cut = {}
    /\ opened = 0
    /\ owner = [k \in Conns |-> None]
    /\ obj = [k \in Conns |-> NewObject]
    /\ user = [u \in Users |-> [current |-> None, connected |-> FALSE]]

Connecting(o) == [o EXCEPT !.conn = "CONNECTING", !.socket = "CONNECTING"]

\* close() on a socket that is not open yet makes the attempt fail.
Closed(socket) ==
    CASE socket = "OPEN" -> "CLOSING"
      [] socket = "CONNECTING" -> "FAILING"
      [] OTHER -> socket

\* A client that has disconnected keeps its data, but nobody reads them any
\* more: they are forgotten here and below.
Disconnected(o) == [NewObject EXCEPT !.socket = Closed(o.socket)]

\* _set_connection_state tells the Game of a change, whichever object it is of.
Told(g, old, new) ==
    IF old = new THEN g ELSE [g EXCEPT !.connected = (new = "CONNECTED")]

\* Slip: takes every player_joined with its name for its own.
OnJoinedAlways(o, msg, name) ==
    IF msg.name = name
    THEN [o EXCEPT !.faction = msg.faction, !.id = msg.id] ELSE o

OnJoined(o, msg, name) ==
    IF msg.name = name /\ o.faction = None
    THEN [o EXCEPT !.faction = msg.faction, !.id = msg.id] ELSE o

OnUpdate(o, msg) == [o EXCEPT !.seqno = msg.seqno, !.view = msg.state]

IsMyTurn(o) ==
    /\ o.view # None
    /\ o.faction # None
    /\ o.view.turn = o.faction

(***************************************************************************)
(* Sending.  A queue is kept only while there is someone to read it: the   *)
(* browser drops what arrives after close(), the network what it has lost. *)
(***************************************************************************)
Listening(k) == k \notin cut /\ obj[k].socket = "OPEN"

\* Slip: the newest message overtakes the others.
PostsInFront(k, msgs) == IF Listening(k) THEN msgs \o down[k] ELSE down[k]

Posts(k, msgs) == IF Listening(k) THEN down[k] \o msgs ELSE down[k]

Update(n, st) == [type |-> "update", state |-> st, seqno |-> n]
Joined(k, f) == [type |-> "joined", id |-> k, name |-> NameOf[owner[k]], faction |-> f]

----------------------------------------------------------------------------
(***************************************************************************)
(* The server.                                                             *)
(***************************************************************************)
Receives(k, types) ==
    /\ k \in served
    /\ up[k] # <<>>
    /\ Head(up[k]).type \in types
    /\ up' = [up EXCEPT ![k] = Tail(@)]

IsFirstFree(i) ==
    /\ taken[FactionList[i]] = None
    /\ \A j \in 1..(i - 1) : taken[FactionList[j]] # None

FirstFree ==
    IF \E i \in DOMAIN FactionList : IsFirstFree(i)
    THEN FactionList[CHOOSE i \in DOMAIN FactionList : IsFirstFree(i)]
    ELSE None

\* Slip: a faction that is asked for is given.
FactionForAsked(requested) ==
    IF requested = None THEN FirstFree
    ELSE IF requested \in Factions THEN requested ELSE None

\* The faction a newcomer gets, None when it is refused.
FactionFor(requested) ==
    IF requested = None THEN FirstFree
    ELSE IF requested \in Factions /\ taken[requested] = None THEN requested ELSE None

\* Slip: the newcomer waits for the next broadcast.
WelcomesWithoutState(k, f) ==
    [j \in Conns |->
        IF j = k \/ players[j] # None THEN Posts(j, <<Joined(k, f)>>) ELSE down[j]]

\* The newcomer hears of itself and gets the state, the others hear of it.
Welcomes(k, f) ==
    [j \in Conns |->
        IF j = k THEN Posts(k, <<Joined(k, f), Update(seqno, state)>>)
        ELSE IF players[j] # None THEN Posts(j, <<Joined(k, f)>>) ELSE down[j]]

HandleJoin(k) ==
    /\ Receives(k, {"join"})
    /\ IF players[k] # None
       THEN /\ down' = [down EXCEPT ![k] = Posts(k, <<Update(seqno, state)>>)]
            /\ UNCHANGED <<players, taken>>
       ELSE IF FactionFor(Head(up[k]).faction) = None
       THEN UNCHANGED <<players, taken, down>>
       ELSE LET f == FactionFor(Head(up[k]).faction)
            IN  /\ players' = [players EXCEPT ![k] = f]
                /\ taken' = [taken EXCEPT ![f] = k]
                /\ down' = Welcomes(k, f)
    /\ UNCHANGED <<seqno, state, served, cut>>
    /\ UNCHANGED clients

\* Slip: the faction stays taken.
ForgetPlayerOnly(k) ==
    /\ players' = [players EXCEPT ![k] = None]
    /\ UNCHANGED taken

\* Slip: the faction is given free, the player stays in the list.
ForgetSeatOnly(k) ==
    /\ taken' = [f \in Factions |->
                    IF f = players[k] /\ taken[f] = k THEN None ELSE taken[f]]
    /\ UNCHANGED players

\* _handle_leave_game: the player is forgotten and its faction free.
Forget(k) ==
    /\ players' = [players EXCEPT ![k] = None]
    /\ taken' = [f \in Factions |->
                    IF f = players[k] /\ taken[f] = k THEN None ELSE taken[f]]

HandleLeave(k) ==
    /\ Receives(k, {"leave"})
    /\ Forget(k)
    /\ UNCHANGED <<seqno, state, served, down, cut>>
    /\ UNCHANGED clients

\* What the requests make of the game state: an action may be the last of its
\* turn, a snapshot may be of any turn.
Outcomes(type) ==
    LET turns == CASE type = "act" -> {state.turn, Following(state.turn)}
                   [] type = "next_phase" -> {Following(state.turn)}
                   [] type = "load_snapshot" -> Factions
    IN  {[turn |-> f, changes |-> state.changes + 1] : f \in turns}

\* A snapshot is loaded for every player, an action only for the one to act.
MayRequest(k, type) ==
    /\ players[k] # None
    /\ type # "load_snapshot" => players[k] = state.turn

\* Slip: only the player whose turn it was hears of the change.
BroadcastsToActor(n, st) ==
    [j \in Conns |->
        IF players[j] = state.turn THEN Posts(j, <<Update(n, st)>>) ELSE down[j]]

Broadcasts(n, st) ==
    [j \in Conns |-> IF players[j] # None THEN Posts(j, <<Update(n, st)>>) ELSE down[j]]

HandleRequest(k) ==
    /\ Receives(k, Requests)
    /\ \/ /\ MayRequest(k, Head(up[k]).type)
          /\ state' \in Outcomes(Head(up[k]).type)
          /\ seqno' = seqno + 1
          /\ down' = Broadcasts(seqno + 1, state')
       \/ UNCHANGED <<seqno, state, down>>  \* refused, for this reason or others
    /\ UNCHANGED <<players, taken, served, cut>>
    /\ UNCHANGED clients

\* A handler starts when the handshake is done.
Accept(k) ==
    /\ obj[k].socket = "CONNECTING"
    /\ k \notin served
    /\ served' = served \union {k}
    /\ UNCHANGED <<players, taken, seqno, state>>
    /\ UNCHANGED network
    /\ UNCHANGED clients

\* It ends when the connection does and everything received was handled.
ServerEnds(k) ==
    /\ k \in served
    /\ up[k] = <<>>
    /\ k \in cut \/ obj[k].socket \notin {"CONNECTING", "OPEN"}
    /\ Forget(k)
    /\ served' = served \ {k}
    /\ UNCHANGED <<seqno, state>>
    /\ UNCHANGED network
    /\ UNCHANGED clients

----------------------------------------------------------------------------
(***************************************************************************)
(* The clients.                                                            *)
(***************************************************************************)
\* Leaving is sent on an open socket, before it is closed.
Leaves(j) == [k \in Conns |->
    IF k = j /\ obj[k].socket = "OPEN" /\ k \notin cut
    THEN Append(up[k], [type |-> "leave"]) ELSE up[k]]

\* Slip: the old client is replaced and left to itself.
KeepClient(j, o) == o

DropClient(j, o) == [k \in Conns |-> IF k = j THEN Disconnected(o[k]) ELSE o[k]]

\* Game.connect: the old client object is disconnected, a new one connects.
GameConnect(u) ==
    LET old == user[u].current
        k == opened + 1
    IN  /\ opened < MaxConns
        /\ opened' = k
        /\ owner' = [owner EXCEPT ![k] = u]
        /\ obj' = DropClient(old, [obj EXCEPT ![k] = Connecting(@)])
        /\ user' = [user EXCEPT ![u] = [current |-> k, connected |-> FALSE]]
        /\ up' = Leaves(old)
        /\ down' = [j \in Conns |-> IF j = old THEN <<>> ELSE down[j]]
        /\ UNCHANGED cut
        /\ UNCHANGED server

GameDisconnect(u) ==
    LET old == user[u].current
    IN  /\ old # None
        /\ obj' = DropClient(old, obj)
        /\ user' = [user EXCEPT ![u] = [current |-> None, connected |-> FALSE]]
        /\ up' = Leaves(old)
        /\ down' = [down EXCEPT ![old] = <<>>]
        /\ UNCHANGED <<opened, owner, cut>>
        /\ UNCHANGED server

\* A browser makes one connection attempt at a time to a host.
Undisturbed(k) ==
    \A j \in Conns \ {k} : owner[j] = owner[k] => obj[j].socket # "FAILING"

OnOpen(k) ==
    /\ obj[k].socket = "CONNECTING"
    /\ k \in served
    /\ Undisturbed(k)
    /\ obj' = [obj EXCEPT ![k].conn = "CONNECTED", ![k].socket = "OPEN"]
    /\ user' = [user EXCEPT ![owner[k]] = Told(@, obj[k].conn, "CONNECTED")]
    /\ up' = [up EXCEPT ![k] = Append(@,
                [type |-> "join", name |-> NameOf[owner[k]], faction |-> PrefOf[owner[k]]])]
    /\ UNCHANGED <<opened, owner, down, cut>>
    /\ UNCHANGED server

OnMessage(k) ==
    /\ obj[k].socket = "OPEN"
    /\ down[k] # <<>>
    /\ LET msg == Head(down[k])
       IN  obj' = [obj EXCEPT ![k] =
                CASE msg.type = "joined" -> OnJoined(@, msg, NameOf[owner[k]])
                  [] msg.type = "update" -> OnUpdate(@, msg)]
    /\ down' = [down EXCEPT ![k] = Tail(@)]
    /\ UNCHANGED <<opened, owner, user, up, cut>>
    /\ UNCHANGED server

\* The object is told that its socket is gone, and tells its Game.
Gone(k) ==
    /\ obj' = [obj EXCEPT ![k] = [NewObject EXCEPT !.socket = "CLOSED"]]
    /\ down' = [down EXCEPT ![k] = <<>>]
    /\ cut' = cut \ {k}
    /\ UNCHANGED <<opened, owner, up>>
    /\ UNCHANGED server

OnClose(k) ==
    /\ obj[k].socket = "CLOSING" \/ (obj[k].socket = "OPEN" /\ k \in cut)
    /\ user' = [user EXCEPT ![owner[k]] = Told(@, obj[k].conn, "DISCONNECTED")]
    /\ Gone(k)

\* An error event and the close event after it: the state is FAILED in between.
OnError(k) ==
    /\ \/ obj[k].socket \in {"CONNECTING", "FAILING"}
       \/ obj[k].socket = "OPEN" /\ k \in cut
    /\ user' = [user EXCEPT ![owner[k]] =
                    Told(Told(@, obj[k].conn, "FAILED"), "FAILED", "DISCONNECTED")]
    /\ Gone(k)

\* The browser has noticed, its close event lags behind.
BrowserNotices(k) ==
    /\ obj[k].socket = "OPEN"
    /\ k \in cut
    /\ obj' = [obj EXCEPT ![k].socket = "CLOSING"]
    /\ down' = [down EXCEPT ![k] = <<>>]
    /\ UNCHANGED <<opened, owner, user, up, cut>>
    /\ UNCHANGED server

ConnectionHealthTick(k) ==
    /\ obj[k].conn = "CONNECTED"
    /\ obj[k].socket # "OPEN"
    /\ obj' = [obj EXCEPT ![k] = Disconnected(@)]
    /\ user' = [user EXCEPT ![owner[k]] = Told(@, obj[k].conn, "DISCONNECTED")]
    /\ UNCHANGED <<opened, owner>>
    /\ UNCHANGED network
    /\ UNCHANGED server

\* Bound: no more requests on their way than there are changes left.
OnTheirWay ==
    UNION {{<<k, i>> : i \in {i \in DOMAIN up[k] : up[k][i].type \in Requests}} : k \in Conns}
MaySend == state.changes + Cardinality(OnTheirWay) < MaxChanges

\* Requests pass Game.connected and is_my_turn; saved snapshots only the first.
SendRequest(u, type) ==
    LET k == user[u].current
    IN  /\ k # None
        /\ user[u].connected
        /\ obj[k].conn = "CONNECTED"
        /\ type # "load_snapshot" => IsMyTurn(obj[k])
        /\ MaySend
        /\ up' = [up EXCEPT ![k] =
                    IF Listening(k) THEN Append(@, [type |-> type]) ELSE @]
        /\ UNCHANGED <<down, cut>>
        /\ UNCHANGED clients
        /\ UNCHANGED server

\* The network loses a connection, and what was on its way to the server from
\* some point on.  What the client still gets it gets before.
Cut(k) ==
    /\ obj[k].socket \in {"OPEN", "CLOSING"}
    /\ k \notin cut
    /\ cut' = cut \union {k}
    /\ \E n \in 0..Len(up[k]) : up' = [up EXCEPT ![k] = SubSeq(@, 1, n)]
    /\ down' = [down EXCEPT ![k] = <<>>]
    /\ UNCHANGED clients
    /\ UNCHANGED server

ServerStep(k) == HandleJoin(k) \/ HandleLeave(k) \/ HandleRequest(k)
                    \/ Accept(k) \/ ServerEnds(k)
BrowserStep(k) == OnOpen(k) \/ OnMessage(k) \/ OnClose(k) \/ OnError(k)
                    \/ BrowserNotices(k) \/ ConnectionHealthTick(k)
UserStep(u) == GameConnect(u) \/ GameDisconnect(u)
                    \/ \E type \in Requests : SendRequest(u, type)

Next ==
    \/ \E k \in Conns : ServerStep(k) \/ BrowserStep(k) \/ Cut(k)
    \/ \E u \in Users : UserStep(u)

Spec == Init /\ [][Next]_vars

\* The event loop of the server and that of the browser get to what is due.
FairSpec ==
    /\ Spec
    /\ \A k \in Conns :
        /\ WF_vars(HandleJoin(k) \/ HandleLeave(k) \/ HandleRequest(k))
        /\ WF_vars(ServerEnds(k))
        /\ WF_vars(OnMessage(k))

----------------------------------------------------------------------------
(***************************************************************************)
(* Properties.                                                             *)
(***************************************************************************)
\* The list of players and the list of factions taken say the same, so no
\* faction has two players, and every player has a connection (join and leave
\* of GameServer, in any order over any connections).
SeatsAgree ==
    /\ \A f \in Factions : taken[f] # None => players[taken[f]] = f
    /\ \A k \in Conns :
        players[k] # None => taken[players[k]] = k /\ k \in served

\* A client that knows who it is is right: its id is that of its connection,
\* and its faction the one the server has for it (also with a namesake in the
\* game, whose player_joined it is sent).
IdentityAgrees ==
    \A k \in Conns :
        obj[k].faction # None =>
            /\ obj[k].id = k
            /\ players[k] \in {obj[k].faction, None}

\* The last update a client has, or has on its way to it, shows the state the
\* server is in: no player misses a change, whenever it joined.
Updates(k) == {i \in DOMAIN down[k] : down[k][i].type = "update"}
NoUpdateLost ==
    \A k \in Conns :
        players[k] # None /\ Listening(k) =>
            IF Updates(k) = {} THEN obj[k].view = state
            ELSE \E i \in Updates(k) :
                    /\ \A j \in Updates(k) : j <= i
                    /\ down[k][i].state = state

\* What a client shows never goes back to an older state, though each message
\* is sent by a task of its own and the client applies whatever comes.
ViewAdvances ==
    [][\A k \in Conns :
        obj[k].view # None /\ obj'[k].conn = "CONNECTED" =>
            /\ obj'[k].view # None
            /\ obj'[k].view.changes >= obj[k].view.changes]_vars

\* The flag that lets a Game send says whether its current client is
\* connected, whatever happens to the sockets of its earlier clients.
ConnectedFlagIsCurrent ==
    \A u \in Users :
        user[u].connected <=>
            /\ user[u].current # None
            /\ obj[user[u].current].conn = "CONNECTED"

\* The faction of a client that is gone is given free again.
GhostsLeave ==
    \A k \in Conns :
        players[k] # None /\ obj[k].socket = "CLOSED" ~> players[k] = None

\* Every player that stays is up to date again and again, so that the last
\* change reaches them all.
UpdatesArrive ==
    \A k \in Conns : []<>(players[k] # None /\ Listening(k) => obj[k].view = state)

\* The server implements the abstract allocation of factions.
Seats == INSTANCE Seating WITH
    Players <- Conns, Seats <- Factions, Free <- None, holder <- taken
ImplementsSeating == Seats!Spec

----------------------------------------------------------------------------
\* "Reconnecting the same client to the same match is supported" (Game.connect):
\* nobody is refused a faction because of an earlier connection of their own.
RejoinIsAccepted ==
    [][\A k \in Conns :
        /\ up[k] # <<>> /\ Head(up[k]).type = "join"
        /\ up'[k] = Tail(up[k]) /\ players'[k] = None
        => ~\E j \in Conns : owner[j] = owner[k] /\ players[j] # None
                                /\ players[j] = Head(up[k]).faction]_vars
============================================================================
