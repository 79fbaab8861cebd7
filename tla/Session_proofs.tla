--------------------------- MODULE Session_proofs ---------------------------
(***************************************************************************)
(* What Session promises for any number of users, factions and             *)
(* connections: the server's two lists agree and implement Seating, and a  *)
(* client that knows who it is is right.                                   *)
(***************************************************************************)
EXTENDS Session, TLAPS

SeatTypes ==
    /\ players \in [Conns -> Factions \union {None}]
    /\ taken \in [Factions -> Conns \union {None}]

SeatsInv == SeatTypes /\ SeatsAgree

-----------------------------------------------------------------------------
(* What a step may do to the two lists and to the handlers. *)

Seated(k, f) ==
    /\ k \in served
    /\ f \in Factions
    /\ taken[f] = None
    /\ players[k] = None
    /\ players' = [players EXCEPT ![k] = f]
    /\ taken' = [taken EXCEPT ![f] = k]
    /\ served' = served

Forgotten(k) == Forget(k) /\ served \ {k} \subseteq served'

SeatsKept ==
    /\ players' = players
    /\ taken' = taken
    /\ served \subseteq served'

\* The faction given to a newcomer is one of the title's and free.
LEMMA FactionForFree ==
    ASSUME NEW requested, FactionFor(requested) # None
    PROVE  /\ FactionFor(requested) \in Factions
           /\ taken[FactionFor(requested)] = None
<1>1. CASE requested = None
  <2>1. \E i \in DOMAIN FactionList : IsFirstFree(i)
    BY <1>1 DEF FactionFor, FirstFree
  <2> DEFINE n == CHOOSE i \in DOMAIN FactionList : IsFirstFree(i)
  <2>2. n \in DOMAIN FactionList /\ IsFirstFree(n)
    BY <2>1
  <2>3. FactionFor(requested) = FactionList[n]
    BY <1>1, <2>1 DEF FactionFor, FirstFree
  <2> HIDE DEF n
  <2> QED BY <2>2, <2>3 DEF IsFirstFree, Factions
<1>2. CASE requested # None
  BY <1>2 DEF FactionFor
<1> QED BY <1>1, <1>2

\* A step seats one player, forgets one, or leaves the lists alone.
LEMMA SeatSteps ==
    ASSUME [Next]_vars
    PROVE  \/ SeatsKept
           \/ \E k \in Conns : Forgotten(k) \/ \E f \in Factions : Seated(k, f)
<1>1. CASE UNCHANGED vars
  BY <1>1 DEF vars, SeatsKept
<1>2. ASSUME NEW k \in Conns, ServerStep(k)
      PROVE  \/ SeatsKept \/ Forgotten(k) \/ \E f \in Factions : Seated(k, f)
  <2>1. CASE HandleJoin(k)
    <3>1. CASE players[k] # None \/ FactionFor(Head(up[k]).faction) = None
      BY <2>1, <3>1 DEF HandleJoin, SeatsKept
    <3>2. CASE players[k] = None /\ FactionFor(Head(up[k]).faction) # None
      <4> DEFINE f == FactionFor(Head(up[k]).faction)
      <4>1. f \in Factions /\ taken[f] = None
        BY <3>2, FactionForFree
      <4>2. /\ players' = [players EXCEPT ![k] = f]
            /\ taken' = [taken EXCEPT ![f] = k]
            /\ served' = served
            /\ k \in served
        BY <2>1, <3>2 DEF HandleJoin, Receives
      <4> HIDE DEF f
      <4> QED BY <3>2, <4>1, <4>2 DEF Seated
    <3> QED BY <3>1, <3>2
  <2>2. CASE HandleLeave(k)
    BY <2>2 DEF HandleLeave, Forgotten
  <2>3. CASE HandleRequest(k)
    BY <2>3 DEF HandleRequest, SeatsKept
  <2>4. CASE Accept(k)
    BY <2>4 DEF Accept, SeatsKept
  <2>5. CASE ServerEnds(k)
    BY <2>5 DEF ServerEnds, Forgotten
  <2> QED BY <1>2, <2>1, <2>2, <2>3, <2>4, <2>5 DEF ServerStep
<1>3. ASSUME NEW k \in Conns, BrowserStep(k) \/ Cut(k)
      PROVE  SeatsKept
  BY <1>3 DEF BrowserStep, OnOpen, OnMessage, OnClose, OnError, Gone, BrowserNotices,
              ConnectionHealthTick, Cut, server, SeatsKept
<1>4. ASSUME NEW u \in Users, UserStep(u)
      PROVE  SeatsKept
  BY <1>4 DEF UserStep, GameConnect, GameDisconnect, SendRequest, server, SeatsKept
<1> QED BY <1>1, <1>2, <1>3, <1>4 DEF Next

-----------------------------------------------------------------------------
(* The lists agree. *)

LEMMA SeatsInit ==
    ASSUME Init
    PROVE  SeatsInv
  BY SessionAssumption DEF Init, SeatsInv, SeatTypes, SeatsAgree

LEMMA SeatsStep ==
    ASSUME SeatsInv, [Next]_vars
    PROVE  SeatsInv'
<1> USE DEF SeatsInv, SeatTypes, SeatsAgree
<1>1. CASE SeatsKept
  BY <1>1 DEF SeatsKept
<1>2. ASSUME NEW k \in Conns, NEW f \in Factions, Seated(k, f)
      PROVE  SeatsInv'
  BY <1>2, SessionAssumption DEF Seated
<1>3. ASSUME NEW k \in Conns, Forgotten(k)
      PROVE  SeatsInv'
  BY <1>3, SessionAssumption DEF Forgotten, Forget
<1> QED BY <1>1, <1>2, <1>3, SeatSteps

\* The list of players and the list of factions taken agree after any joins,
\* leaves and losses (GameServer._handle_join_game, _handle_leave_game).
THEOREM SeatsCorrect == Spec => []SeatsAgree
<1>1. Init => SeatsInv
  BY SeatsInit
<1>2. SeatsInv /\ [Next]_vars => SeatsInv'
  BY SeatsStep
<1>3. SeatsInv => SeatsAgree
  BY DEF SeatsInv
<1> QED BY <1>1, <1>2, <1>3, PTL DEF Spec

\* The server implements the abstract allocation of factions.
THEOREM SeatingRefined == Spec => ImplementsSeating
<1>1. Init => Seats!Init
  BY DEF Init, Seats!Init
<1>2. SeatsInv /\ [Next]_vars => [Seats!Next]_taken
  <2> SUFFICES ASSUME SeatsInv, [Next]_vars PROVE [Seats!Next]_taken
    OBVIOUS
  <2> USE DEF SeatsInv, SeatTypes, SeatsAgree
  <2>1. CASE SeatsKept
    BY <2>1 DEF SeatsKept
  <2>2. ASSUME NEW k \in Conns, NEW f \in Factions, Seated(k, f)
        PROVE  Seats!Next
    <3>1. \A g \in Factions : taken[g] # k
      BY <2>2, SessionAssumption DEF Seated
    <3>2. Seats!Take(k, f)
      BY <2>2, <3>1 DEF Seated, Seats!Take
    <3> QED BY <3>2 DEF Seats!Next
  <2>3. ASSUME NEW k \in Conns, Forgotten(k)
        PROVE  [Seats!Next]_taken
    <3>1. CASE players[k] = None
      BY <2>3, <3>1, SessionAssumption DEF Forgotten, Forget
    <3>2. CASE players[k] # None
      <4>1. players[k] \in Factions /\ taken[players[k]] = k
        BY <3>2
      <4>2. \A f \in Factions : taken[f] = k <=> (f = players[k] /\ taken[f] = k)
        BY SessionAssumption
      <4>3. Seats!Release(k)
        BY <2>3, <4>1, <4>2 DEF Forgotten, Forget, Seats!Release
      <4> QED BY <4>3 DEF Seats!Next
    <3> QED BY <3>1, <3>2
  <2> QED BY <2>1, <2>2, <2>3, SeatSteps
<1>3. Init => SeatsInv
  BY SeatsInit
<1>4. SeatsInv /\ [Next]_vars => SeatsInv'
  BY SeatsStep
<1> QED BY <1>1, <1>2, <1>3, <1>4, PTL DEF Spec, ImplementsSeating, Seats!Spec

-----------------------------------------------------------------------------
(* Types: TypeOK with any number of changes. *)

AnyStates == [turn : Factions, changes : Nat]
AnyDownMessages ==
    [type : {"joined"}, id : Conns, name : Names, faction : Factions]
      \union [type : {"update"}, state : AnyStates, seqno : Nat]
AnyObjects ==
    [conn : {"DISCONNECTED", "CONNECTING", "CONNECTED"},
     socket : {"NONE", "CONNECTING", "OPEN", "CLOSING", "FAILING", "CLOSED"},
     id : Conns \union {None}, faction : Factions \union {None},
     view : AnyStates \union {None}, seqno : Nat]

Types ==
    /\ SeatTypes
    /\ seqno \in Nat
    /\ state \in AnyStates
    /\ served \subseteq Conns
    /\ up \in [Conns -> Seq(UpMessages)]
    /\ down \in [Conns -> Seq(AnyDownMessages)]
    /\ cut \subseteq Conns
    /\ opened \in 0..MaxConns
    /\ owner \in [Conns -> Users \union {None}]
    /\ obj \in [Conns -> AnyObjects]
    /\ user \in [Users -> [current : Conns \union {None}, connected : BOOLEAN]]
    /\ \A k \in Conns :
        /\ players[k] # None => k \in served
        /\ k \in served => obj[k].socket # "NONE"
        /\ obj[k].socket # "NONE" => owner[k] \in Users
        /\ obj[k].socket = "NONE" => obj[k].conn = "DISCONNECTED"
        /\ k > opened => obj[k].socket = "NONE"

LEMMA FollowingType ==
    ASSUME NEW f \in Factions
    PROVE  Following(f) \in Factions
<1> DEFINE i == CHOOSE i \in DOMAIN FactionList : FactionList[i] = f
<1>1. i \in DOMAIN FactionList
  BY DEF Factions
<1>2. Len(FactionList) \in Nat /\ DOMAIN FactionList = 1..Len(FactionList)
  BY SessionAssumption
<1> HIDE DEF i
<1>3. (i % Len(FactionList)) + 1 \in DOMAIN FactionList
  BY <1>1, <1>2
<1>4. Following(f) = FactionList[(i % Len(FactionList)) + 1]
  BY DEF Following, i
<1> QED BY <1>3, <1>4 DEF Factions

LEMMA OutcomesType ==
    ASSUME state \in AnyStates, NEW type \in Requests
    PROVE  Outcomes(type) \subseteq AnyStates
<1>1. state.turn \in Factions /\ state.changes + 1 \in Nat
  BY DEF AnyStates
<1>2. Following(state.turn) \in Factions
  BY <1>1, FollowingType
<1> QED BY <1>1, <1>2 DEF Outcomes, AnyStates, Requests

LEMMA TypesInit ==
    ASSUME Init
    PROVE  Types
<1>1. FactionList[1] \in Factions
  BY SessionAssumption DEF Factions
<1>2. state \in AnyStates
  BY <1>1 DEF Init, AnyStates
<1> QED BY <1>2, SessionAssumption DEF Init, Types, SeatTypes, AnyObjects, NewObject

\* What is posted keeps a queue a queue.
LEMMA PostsType ==
    ASSUME Types, NEW k \in Conns, NEW msgs \in Seq(AnyDownMessages)
    PROVE  Posts(k, msgs) \in Seq(AnyDownMessages)
  BY DEF Posts, Types

LEMMA UpdateType ==
    ASSUME NEW n \in Nat, NEW st \in AnyStates
    PROVE  Update(n, st) \in AnyDownMessages
  BY DEF Update, AnyDownMessages

LEMMA JoinedType ==
    ASSUME Types, NEW k \in Conns, owner[k] \in Users, NEW f \in Factions
    PROVE  Joined(k, f) \in AnyDownMessages
  BY SessionAssumption DEF Joined, AnyDownMessages

LEMMA TypesServer ==
    ASSUME Types, NEW k \in Conns, ServerStep(k)
    PROVE  Types'
<1> USE DEF Types
<1>1. CASE HandleJoin(k)
  <2>1. k \in served /\ owner[k] \in Users /\ up' = [up EXCEPT ![k] = Tail(@)] /\ up[k] # <<>>
    BY <1>1 DEF HandleJoin, Receives
  <2>2. up' \in [Conns -> Seq(UpMessages)]
    BY <2>1
  <2>3. Posts(k, <<Update(seqno, state)>>) \in Seq(AnyDownMessages)
    <3>1. <<Update(seqno, state)>> \in Seq(AnyDownMessages)
      BY UpdateType
    <3> QED BY <3>1, PostsType
  <2>4. CASE players[k] # None \/ FactionFor(Head(up[k]).faction) = None
    BY <1>1, <2>1, <2>2, <2>3, <2>4 DEF HandleJoin, SeatTypes, clients
  <2>5. CASE players[k] = None /\ FactionFor(Head(up[k]).faction) # None
    <3> DEFINE f == FactionFor(Head(up[k]).faction)
    <3>1. f \in Factions
      BY <2>5, FactionForFree
    <3>2. /\ players' = [players EXCEPT ![k] = f]
          /\ taken' = [taken EXCEPT ![f] = k]
          /\ down' = Welcomes(k, f)
          /\ UNCHANGED <<seqno, state, served, cut>> /\ UNCHANGED clients
      BY <1>1, <2>5 DEF HandleJoin
    <3> HIDE DEF f
    <3>3. Joined(k, f) \in AnyDownMessages /\ Update(seqno, state) \in AnyDownMessages
      BY <2>1, <3>1, JoinedType, UpdateType
    <3>4. /\ <<Joined(k, f), Update(seqno, state)>> \in Seq(AnyDownMessages)
          /\ <<Joined(k, f)>> \in Seq(AnyDownMessages)
      BY <3>3
    <3>5. \A j \in Conns : /\ Posts(j, <<Joined(k, f), Update(seqno, state)>>) \in Seq(AnyDownMessages)
                           /\ Posts(j, <<Joined(k, f)>>) \in Seq(AnyDownMessages)
      BY <3>4, PostsType
    <3>6. down' \in [Conns -> Seq(AnyDownMessages)]
      BY <3>2, <3>5 DEF Welcomes
    <3> QED BY <2>1, <2>2, <3>1, <3>2, <3>6 DEF SeatTypes, clients
  <2> QED BY <2>4, <2>5
<1>2. CASE HandleLeave(k)
  <2>1. up' \in [Conns -> Seq(UpMessages)]
    BY <1>2 DEF HandleLeave, Receives
  <2> QED BY <1>2, <2>1 DEF HandleLeave, Forget, SeatTypes, clients
<1>3. CASE HandleRequest(k)
  <2>1. up' \in [Conns -> Seq(UpMessages)] /\ Head(up[k]).type \in Requests
    BY <1>3 DEF HandleRequest, Receives
  <2>2. CASE UNCHANGED <<seqno, state, down>>
    BY <1>3, <2>1, <2>2 DEF HandleRequest, SeatTypes, clients
  <2>3. CASE ~UNCHANGED <<seqno, state, down>>
    <3>1. /\ state' \in Outcomes(Head(up[k]).type)
          /\ seqno' = seqno + 1
          /\ down' = Broadcasts(seqno + 1, state')
          /\ UNCHANGED <<players, taken, served, cut>> /\ UNCHANGED clients
      BY <1>3, <2>3 DEF HandleRequest
    <3>2. state' \in AnyStates
      BY <2>1, <3>1, OutcomesType
    <3>3. <<Update(seqno + 1, state')>> \in Seq(AnyDownMessages)
      BY <3>2, UpdateType
    <3>4. \A j \in Conns : Posts(j, <<Update(seqno + 1, state')>>) \in Seq(AnyDownMessages)
      BY <3>3, PostsType
    <3>5. down' \in [Conns -> Seq(AnyDownMessages)]
      BY <3>1, <3>4 DEF Broadcasts
    <3> QED BY <2>1, <3>1, <3>2, <3>5 DEF SeatTypes, clients
  <2> QED BY <2>2, <2>3
<1>4. CASE Accept(k)
  BY <1>4 DEF Accept, SeatTypes, clients, network
<1>5. CASE ServerEnds(k)
  BY <1>5 DEF ServerEnds, Forget, SeatTypes, clients, network
<1> QED BY <1>1, <1>2, <1>3, <1>4, <1>5 DEF ServerStep

\* Disconnecting leaves an object; a queue with a leave is still a queue.
LEMMA DisconnectedType ==
    ASSUME NEW o \in AnyObjects
    PROVE  /\ Disconnected(o) \in AnyObjects
           /\ Disconnected(o).faction = None
           /\ Disconnected(o).conn = "DISCONNECTED"
           /\ Disconnected(o).socket \notin {"OPEN", "CONNECTING"}
           /\ o.socket # "NONE" => Disconnected(o).socket # "NONE"
           /\ o.socket = "NONE" => Disconnected(o).socket = "NONE"
  BY DEF Disconnected, Closed, NewObject, AnyObjects

LEMMA LeavesType ==
    ASSUME Types, NEW j
    PROVE  Leaves(j) \in [Conns -> Seq(UpMessages)]
<1>1. [type |-> "leave"] \in UpMessages
  BY DEF UpMessages
<1> QED BY <1>1 DEF Types, Leaves

\* A Game that is told something stays a Game.
Games == [current : Conns \union {None}, connected : BOOLEAN]

LEMMA ToldType ==
    ASSUME NEW g \in Games, NEW old, NEW new
    PROVE  Told(g, old, new) \in Games
  BY DEF Told, Games

LEMMA UserTold ==
    ASSUME Types, NEW k \in Conns, NEW g \in Games, user' = [user EXCEPT ![owner[k]] = g]
    PROVE  user' \in [Users -> Games]
  BY DEF Types, Games

\* An object takes the place of another that has a socket, too.
LEMMA ObjectReplaced ==
    ASSUME Types, NEW k \in Conns, NEW o \in AnyObjects, obj' = [obj EXCEPT ![k] = o],
           o.socket # "NONE", obj[k].socket # "NONE"
    PROVE  /\ obj' \in [Conns -> AnyObjects]
           /\ \A j \in Conns : obj'[j].socket = "NONE" <=> obj[j].socket = "NONE"
  BY DEF Types

LEMMA TypesBrowser ==
    ASSUME Types, NEW k \in Conns, BrowserStep(k) \/ Cut(k)
    PROVE  Types'
<1> USE DEF Types
<1>0. obj[k] \in AnyObjects
  OBVIOUS
<1>1. CASE OnOpen(k)
  <2> DEFINE msg == [type |-> "join", name |-> NameOf[owner[k]], faction |-> PrefOf[owner[k]]]
  <2>1. owner[k] \in Users /\ k \in served
    BY <1>1 DEF OnOpen
  <2>2. msg \in UpMessages
    BY <2>1, SessionAssumption DEF UpMessages
  <2>3. up' = [up EXCEPT ![k] = Append(@, msg)]
    BY <1>1 DEF OnOpen
  <2> HIDE DEF msg
  <2>4. up' \in [Conns -> Seq(UpMessages)]
    BY <2>2, <2>3
  <2>5. /\ [obj[k] EXCEPT !.conn = "CONNECTED", !.socket = "OPEN"] \in AnyObjects
        /\ [obj[k] EXCEPT !.conn = "CONNECTED", !.socket = "OPEN"].socket # "NONE"
        /\ obj[k].socket # "NONE"
    BY <1>0, <1>1 DEF OnOpen, AnyObjects
  <2>6. obj' = [obj EXCEPT ![k] = [obj[k] EXCEPT !.conn = "CONNECTED", !.socket = "OPEN"]]
    BY <1>0, <1>1 DEF OnOpen
  <2>7. /\ obj' \in [Conns -> AnyObjects]
        /\ \A j \in Conns : obj'[j].socket = "NONE" <=> obj[j].socket = "NONE"
    BY <2>5, <2>6, ObjectReplaced
  <2>8. Told(user[owner[k]], obj[k].conn, "CONNECTED") \in Games
    BY <2>1, ToldType DEF Games
  <2>9. user' \in [Users -> Games]
    BY <1>1, <2>8, UserTold DEF OnOpen
  <2> QED BY <1>1, <2>1, <2>4, <2>7, <2>9 DEF OnOpen, SeatTypes, server, Games
<1>2. CASE OnMessage(k)
  <2> DEFINE msg == Head(down[k])
  <2>1. msg \in AnyDownMessages
    BY <1>2 DEF OnMessage
  <2>4. ASSUME obj' \in [Conns -> AnyObjects], \A j \in Conns : obj'[j].socket = obj[j].socket
        PROVE  Types'
    <3>1. down' \in [Conns -> Seq(AnyDownMessages)]
      BY <1>2 DEF OnMessage
    <3> QED BY <1>2, <2>4, <3>1 DEF OnMessage, SeatTypes, server
  <2>2. CASE msg.type = "joined"
    <3>1. msg.id \in Conns /\ msg.faction \in Factions
      BY <2>1, <2>2 DEF AnyDownMessages
    <3>2. obj' = [obj EXCEPT ![k] = OnJoined(@, msg, NameOf[owner[k]])]
      BY <1>2, <2>2 DEF OnMessage
    <3> HIDE DEF msg
    <3>3. /\ OnJoined(obj[k], msg, NameOf[owner[k]]) \in AnyObjects
          /\ OnJoined(obj[k], msg, NameOf[owner[k]]).socket = obj[k].socket
      BY <3>1, <1>0 DEF OnJoined, AnyObjects
    <3>4. obj' \in [Conns -> AnyObjects] /\ \A j \in Conns : obj'[j].socket = obj[j].socket
      BY <3>2, <3>3
    <3> QED BY <2>4, <3>4
  <2>3. CASE msg.type = "update"
    <3>1. msg.state \in AnyStates /\ msg.seqno \in Nat
      BY <2>1, <2>3 DEF AnyDownMessages
    <3>2. obj' = [obj EXCEPT ![k] = OnUpdate(@, msg)]
      BY <1>2, <2>3 DEF OnMessage
    <3> HIDE DEF msg
    <3>3. OnUpdate(obj[k], msg) \in AnyObjects /\ OnUpdate(obj[k], msg).socket = obj[k].socket
      BY <3>1, <1>0 DEF OnUpdate, AnyObjects
    <3>4. obj' \in [Conns -> AnyObjects] /\ \A j \in Conns : obj'[j].socket = obj[j].socket
      BY <3>2, <3>3
    <3> QED BY <2>4, <3>4
  <2> QED BY <2>1, <2>2, <2>3 DEF AnyDownMessages
<1>3. ASSUME Gone(k), obj[k].socket # "NONE", user' \in [Users -> Games]
      PROVE  Types'
  <2>1. [NewObject EXCEPT !.socket = "CLOSED"] \in AnyObjects
    BY DEF NewObject, AnyObjects
  <2>2. /\ obj' \in [Conns -> AnyObjects]
        /\ \A j \in Conns : obj'[j].socket = "NONE" <=> obj[j].socket = "NONE"
    BY <1>3, <2>1, ObjectReplaced DEF Gone, NewObject
  <2> QED BY <1>3, <2>2 DEF Gone, SeatTypes, server, Games
<1>4. CASE OnClose(k)
  <2>1. obj[k].socket # "NONE" /\ owner[k] \in Users
    BY <1>4 DEF OnClose
  <2>2. Told(user[owner[k]], obj[k].conn, "DISCONNECTED") \in Games
    BY <2>1, ToldType DEF Games
  <2>3. user' \in [Users -> Games]
    BY <1>4, <2>2, UserTold DEF OnClose
  <2> QED BY <1>3, <1>4, <2>1, <2>3 DEF OnClose
<1>5. CASE OnError(k)
  <2>1. obj[k].socket # "NONE" /\ owner[k] \in Users
    BY <1>5 DEF OnError
  <2>2. Told(Told(user[owner[k]], obj[k].conn, "FAILED"), "FAILED", "DISCONNECTED") \in Games
    BY <2>1, ToldType DEF Games
  <2>3. user' \in [Users -> Games]
    BY <1>5, <2>2, UserTold DEF OnError
  <2> QED BY <1>3, <1>5, <2>1, <2>3 DEF OnError
<1>6. CASE BrowserNotices(k)
  <2>1. obj' \in [Conns -> AnyObjects] /\ obj'[k].socket = "CLOSING"
    BY <1>0, <1>6 DEF BrowserNotices, AnyObjects
  <2>2. \A j \in Conns : obj'[j].socket = obj[j].socket \/ j = k
    BY <1>6 DEF BrowserNotices
  <2> QED BY <1>6, <2>1, <2>2 DEF BrowserNotices, SeatTypes, server
<1>7. CASE ConnectionHealthTick(k)
  <2>1. obj[k].socket # "NONE" /\ owner[k] \in Users
    BY <1>7 DEF ConnectionHealthTick
  <2>2. /\ obj' \in [Conns -> AnyObjects]
        /\ \A j \in Conns : obj'[j].socket = "NONE" <=> obj[j].socket = "NONE"
    BY <1>0, <1>7, <2>1, DisconnectedType, ObjectReplaced DEF ConnectionHealthTick
  <2>3. Told(user[owner[k]], obj[k].conn, "DISCONNECTED") \in Games
    BY <2>1, ToldType DEF Games
  <2>4. user' \in [Users -> Games]
    BY <1>7, <2>3, UserTold DEF ConnectionHealthTick
  <2> QED BY <1>7, <2>2, <2>4 DEF ConnectionHealthTick, SeatTypes, server, network, Games
<1>8. CASE Cut(k)
  <2>1. up' \in [Conns -> Seq(UpMessages)]
    BY <1>8 DEF Cut
  <2> QED BY <1>8, <2>1 DEF Cut, SeatTypes, server, clients
<1> QED BY <1>1, <1>2, <1>4, <1>5, <1>6, <1>7, <1>8 DEF BrowserStep

LEMMA TypesUser ==
    ASSUME Types, NEW u \in Users, UserStep(u)
    PROVE  Types'
<1> USE DEF Types
<1>1. CASE GameConnect(u)
  <2> DEFINE old == user[u].current
             k == opened + 1
             o == [obj EXCEPT ![k] = Connecting(@)]
  <2>1. k \in Conns /\ opened' = k /\ obj[k].socket = "NONE"
    BY <1>1, SessionAssumption DEF GameConnect, Conns
  <2>2. o \in [Conns -> AnyObjects] /\ o[k].socket = "CONNECTING"
    BY <2>1 DEF Connecting, AnyObjects
  <2>3. obj' = DropClient(old, o) /\ up' = Leaves(old)
    BY <1>1 DEF GameConnect
  <2>4. \A j \in Conns \ {k} : o[j] = obj[j]
    BY <2>1
  <2> HIDE DEF o
  <2>5. /\ obj' \in [Conns -> AnyObjects]
        /\ \A j \in Conns : obj'[j].socket = "NONE" <=> o[j].socket = "NONE"
        /\ \A j \in Conns : obj'[j].conn \in {o[j].conn, "DISCONNECTED"}
    BY <2>2, <2>3, DisconnectedType DEF DropClient
  <2>6. up' \in [Conns -> Seq(UpMessages)]
    BY <2>3, LeavesType
  <2>7. /\ down' \in [Conns -> Seq(AnyDownMessages)]
        /\ owner' = [owner EXCEPT ![k] = u]
        /\ user' = [user EXCEPT ![u] = [current |-> k, connected |-> FALSE]]
        /\ UNCHANGED cut /\ UNCHANGED server
    BY <1>1 DEF GameConnect
  <2> HIDE DEF k
  <2>8. \A j \in Conns : j > opened' => j > opened /\ j # k
    BY <2>1, SessionAssumption DEF Conns, k
  <2>9. \A j \in Conns : obj'[j].socket = "NONE" => obj'[j].conn = "DISCONNECTED"
    BY <2>2, <2>4, <2>5
  <2>10. \A j \in Conns : obj'[j].socket # "NONE" => owner'[j] \in Users
    BY <2>4, <2>5, <2>7
  <2>11. \A j \in Conns : j > opened' => obj'[j].socket = "NONE"
    BY <2>4, <2>5, <2>8
  <2>12. opened' \in 0..MaxConns
    BY <2>1, SessionAssumption DEF Conns
  <2>13. \A j \in Conns : j \in served => obj'[j].socket # "NONE"
    <3>1. \A j \in Conns : j \in served => j # k /\ obj[j].socket # "NONE"
      BY <2>1
    <3> QED BY <2>4, <2>5, <3>1
  <2> QED BY <2>1, <2>5, <2>6, <2>7, <2>9, <2>10, <2>11, <2>12, <2>13 DEF SeatTypes, server
<1>2. CASE GameDisconnect(u)
  <2> DEFINE old == user[u].current
  <2>1. old \in Conns
    BY <1>2 DEF GameDisconnect
  <2>2. /\ obj' \in [Conns -> AnyObjects]
        /\ \A j \in Conns : obj'[j].socket = "NONE" <=> obj[j].socket = "NONE"
        /\ \A j \in Conns : obj'[j].conn \in {obj[j].conn, "DISCONNECTED"}
    BY <1>2, DisconnectedType DEF GameDisconnect, DropClient
  <2>3. up' \in [Conns -> Seq(UpMessages)]
    BY <1>2, LeavesType DEF GameDisconnect
  <2>4. down' \in [Conns -> Seq(AnyDownMessages)]
    BY <1>2, <2>1 DEF GameDisconnect
  <2> QED BY <1>2, <2>2, <2>3, <2>4 DEF GameDisconnect, SeatTypes, server
<1>3. ASSUME NEW type \in Requests, SendRequest(u, type)
      PROVE  Types'
  <2>1. [type |-> type] \in UpMessages
    BY DEF UpMessages
  <2>2. up' \in [Conns -> Seq(UpMessages)]
    BY <1>3, <2>1 DEF SendRequest
  <2> QED BY <1>3, <2>2 DEF SendRequest, SeatTypes, server, clients
<1> QED BY <1>1, <1>2, <1>3 DEF UserStep

LEMMA TypesStep ==
    ASSUME Types, [Next]_vars
    PROVE  Types'
<1>1. CASE UNCHANGED vars
  BY <1>1 DEF vars, Types, SeatTypes
<1> QED BY <1>1, TypesServer, TypesBrowser, TypesUser DEF Next

-----------------------------------------------------------------------------
(* Who a client thinks it is.  Until it knows, the first message it gets is *)
(* the player_joined about itself, and it asks to join only once.           *)

Named(k) ==
    obj[k].faction # None => obj[k].id = k /\ players[k] \in {obj[k].faction, None}

OwnJoinFirst(k) ==
    players[k] # None /\ Listening(k) /\ obj[k].faction = None =>
        down[k] # <<>> /\ Head(down[k]) = Joined(k, players[k])

SilentTo(k) ==
    ~Listening(k) \/ (players[k] = None /\ obj[k].faction = None) => down[k] = <<>>

JoinsOnce(k) ==
    \A i \in DOMAIN up[k] :
        /\ up[k][i].type = "join" => i = 1 /\ players[k] = None /\ obj[k].faction = None
        /\ up[k][i].type = "leave" => obj[k].socket # "OPEN"

Fresh(k) ==
    obj[k].socket \in {"NONE", "CONNECTING"} =>
        up[k] = <<>> /\ players[k] = None /\ obj[k].faction = None

Identity(k) == Named(k) /\ OwnJoinFirst(k) /\ SilentTo(k) /\ JoinsOnce(k) /\ Fresh(k)

IdentityInv == Types /\ \A k \in Conns : Identity(k)

LEMMA IdentityInit ==
    ASSUME Init
    PROVE  IdentityInv
<1>1. Types
  BY TypesInit
<1>2. ASSUME NEW k \in Conns
      PROVE  Identity(k)
  BY DEF Init, NewObject, Identity, Named, OwnJoinFirst, SilentTo, JoinsOnce, Fresh, Listening
<1> QED BY <1>1, <1>2 DEF IdentityInv

\* A step that leaves everything about a connection alone.
Untouched(k) ==
    /\ players'[k] = players[k] /\ up'[k] = up[k] /\ down'[k] = down[k]
    /\ obj'[k] = obj[k] /\ owner'[k] = owner[k]
    /\ k \in cut' <=> k \in cut

LEMMA IdentityUntouched ==
    ASSUME NEW k \in Conns, Identity(k), Untouched(k)
    PROVE  Identity(k)'
  BY DEF Untouched, Identity, Named, OwnJoinFirst, SilentTo, JoinsOnce, Fresh, Listening, Joined

\* Sending is not disturbed by a step that leaves these alone.
LEMMA SaysTheSame ==
    ASSUME NEW k \in Conns, Identity(k), players'[k] = players[k], up'[k] = up[k],
           obj'[k] = obj[k]
    PROVE  JoinsOnce(k)' /\ Fresh(k)'
  BY DEF Identity, JoinsOnce, Fresh

\* What is posted to a player comes after its own player_joined.
LEMMA HearsMore ==
    ASSUME Types, NEW k \in Conns, Identity(k), NEW msgs \in Seq(AnyDownMessages),
           players[k] # None, players'[k] = players[k], obj'[k] = obj[k],
           owner'[k] = owner[k], cut' = cut, down'[k] = Posts(k, msgs)
    PROVE  Named(k)' /\ OwnJoinFirst(k)' /\ SilentTo(k)'
<1>1. down[k] \in Seq(AnyDownMessages)
  BY DEF Types
<1>2. CASE Listening(k)
  <2>1. down'[k] = down[k] \o msgs /\ Listening(k)'
    BY <1>2 DEF Posts, Listening
  <2>2. OwnJoinFirst(k)'
    <3>1. SUFFICES ASSUME obj[k].faction = None
                   PROVE  down'[k] # <<>> /\ Head(down'[k]) = Joined(k, players[k])
      BY DEF OwnJoinFirst, Joined
    <3>2. down[k] # <<>> /\ Head(down[k]) = Joined(k, players[k])
      BY <1>2, <3>1 DEF Identity, OwnJoinFirst
    <3> QED BY <1>1, <2>1, <3>2
  <2> QED BY <2>1, <2>2 DEF Identity, Named, SilentTo
<1>3. CASE ~Listening(k)
  BY <1>3 DEF Posts, Identity, Named, OwnJoinFirst, SilentTo, Listening, Joined
<1> QED BY <1>2, <1>3

\* A message is handled: the head of the queue goes, no join is left.
LEMMA JoinsOnceTail ==
    ASSUME Types, NEW k \in Conns, JoinsOnce(k), up[k] # <<>>, up'[k] = Tail(up[k]),
           obj'[k] = obj[k]
    PROVE  JoinsOnce(k)'
<1>1. up[k] \in Seq(UpMessages)
  BY DEF Types
<1>2. \A i \in DOMAIN up'[k] : up'[k][i] = up[k][i + 1] /\ i + 1 \in DOMAIN up[k] /\ i + 1 # 1
  BY <1>1
<1> QED BY <1>2 DEF JoinsOnce

LEMMA IdentityServer ==
    ASSUME Types, \A j \in Conns : Identity(j), NEW k \in Conns, ServerStep(k),
           NEW j \in Conns
    PROVE  Identity(j)'
<1>0. Identity(k) /\ Identity(j)
  OBVIOUS
<1>1. ASSUME NEW types, Receives(k, types), UNCHANGED clients
      PROVE  /\ JoinsOnce(k)' /\ Fresh(k)'
             /\ up[k] # <<>> /\ Head(up[k]) = up[k][1] /\ 1 \in DOMAIN up[k]
             /\ \A i \in Conns : i # k => up'[i] = up[i]
  <2>1. up[k] # <<>> /\ up' = [up EXCEPT ![k] = Tail(@)] /\ obj' = obj
    BY <1>1 DEF Receives, clients
  <2>2. up[k] \in Seq(UpMessages) /\ up \in [Conns -> Seq(UpMessages)]
    BY DEF Types
  <2>3. JoinsOnce(k)'
    BY <1>0, <2>1, <2>2, JoinsOnceTail DEF Identity
  <2>4. Fresh(k)'
    BY <1>0, <2>1 DEF Identity, Fresh
  <2> QED BY <2>1, <2>2, <2>3, <2>4
<1>2. CASE HandleJoin(k)
  <2>1. Receives(k, {"join"}) /\ UNCHANGED clients /\ UNCHANGED cut
    BY <1>2 DEF HandleJoin
  <2>2. Head(up[k]).type = "join"
    BY <2>1 DEF Receives
  <2>3. players[k] = None /\ obj[k].faction = None /\ down[k] = <<>>
    BY <1>0, <1>1, <2>1, <2>2 DEF Identity, JoinsOnce, SilentTo
  <2>4. CASE FactionFor(Head(up[k]).faction) = None
    <3>1. players' = players /\ down' = down /\ obj' = obj /\ cut' = cut /\ owner' = owner
      BY <1>2, <2>3, <2>4 DEF HandleJoin, clients
    <3>2. CASE j = k
      BY <1>0, <1>1, <2>1, <2>3, <3>1, <3>2
         DEF Identity, Named, OwnJoinFirst, SilentTo, Listening
    <3>3. CASE j # k
      BY <1>0, <1>1, <2>1, <3>1, <3>3, IdentityUntouched DEF Untouched
    <3> QED BY <3>2, <3>3
  <2>5. CASE FactionFor(Head(up[k]).faction) # None
    <3> DEFINE f == FactionFor(Head(up[k]).faction)
    <3>1. f \in Factions /\ f # None
      BY <2>5, FactionForFree
    <3>2. /\ players' = [players EXCEPT ![k] = f]
          /\ down' = Welcomes(k, f)
          /\ obj' = obj /\ cut' = cut /\ owner' = owner
      BY <1>2, <2>3, <2>5 DEF HandleJoin, clients
    <3> HIDE DEF f
    <3>3. players'[k] = f /\ \A i \in Conns : i # k => players'[i] = players[i]
      BY <3>2 DEF Types, SeatTypes
    <3>4. CASE j = k
      <4>1. down'[k] = Posts(k, <<Joined(k, f), Update(seqno, state)>>)
        BY <3>2 DEF Welcomes
      <4>2. CASE Listening(k)
        <5>1. down'[k] = <<Joined(k, f), Update(seqno, state)>>
          BY <2>3, <4>1, <4>2 DEF Posts
        <5>2. Joined(k, players[k])' = Joined(k, f)
          BY <3>2, <3>3 DEF Joined
        <5>3. OwnJoinFirst(k)'
          BY <5>1, <5>2 DEF OwnJoinFirst
        <5>4. Named(k)' /\ SilentTo(k)'
          BY <2>3, <3>1, <3>2, <3>3, <4>2 DEF Named, SilentTo, Listening
        <5> QED BY <1>1, <2>1, <3>4, <5>3, <5>4 DEF Identity
      <4>3. CASE ~Listening(k)
        <5>1. down'[k] = <<>> /\ ~Listening(k)'
          BY <2>3, <3>2, <4>1, <4>3 DEF Posts, Listening
        <5>2. Named(k)' /\ SilentTo(k)' /\ OwnJoinFirst(k)'
          BY <2>3, <3>2, <5>1 DEF Named, SilentTo, OwnJoinFirst
        <5> QED BY <1>1, <2>1, <3>4, <5>2 DEF Identity
      <4> QED BY <4>2, <4>3
    <3>5. CASE j # k /\ players[j] # None
      <4>1. owner[k] \in Users
        BY <2>1 DEF Types, Receives
      <4>2. <<Joined(k, f)>> \in Seq(AnyDownMessages)
        BY <3>1, <4>1, JoinedType
      <4>3. down'[j] = Posts(j, <<Joined(k, f)>>)
        BY <3>2, <3>5 DEF Welcomes
      <4>4. Named(j)' /\ OwnJoinFirst(j)' /\ SilentTo(j)'
        BY <1>0, <3>2, <3>3, <3>5, <4>2, <4>3, HearsMore
      <4>5. JoinsOnce(j)' /\ Fresh(j)'
        BY <1>0, <1>1, <2>1, <3>2, <3>3, <3>5, SaysTheSame
      <4> QED BY <4>4, <4>5 DEF Identity
    <3>6. CASE j # k /\ players[j] = None
      <4>1. down'[j] = down[j]
        BY <3>2, <3>6 DEF Welcomes
      <4> QED BY <1>0, <1>1, <2>1, <3>2, <3>3, <3>6, <4>1, IdentityUntouched DEF Untouched
    <3> QED BY <3>4, <3>5, <3>6
  <2> QED BY <2>4, <2>5
<1>3. ASSUME Forget(k)
      PROVE  players'[k] = None /\ \A i \in Conns : i # k => players'[i] = players[i]
  BY <1>3 DEF Forget, Types, SeatTypes
<1>4. CASE HandleLeave(k)
  <2>1. Receives(k, {"leave"}) /\ UNCHANGED clients /\ cut' = cut /\ down' = down /\ Forget(k)
    BY <1>4 DEF HandleLeave
  <2>2. obj' = obj /\ owner' = owner
    BY <2>1 DEF clients
  <2>3. obj[k].socket # "OPEN"
    BY <1>0, <1>1, <2>1 DEF Receives, Identity, JoinsOnce
  <2>4. down[k] = <<>>
    BY <1>0, <2>3 DEF Identity, SilentTo, Listening
  <2>5. CASE j = k
    BY <1>0, <1>1, <1>3, <2>1, <2>2, <2>3, <2>4, <2>5
       DEF Identity, Named, OwnJoinFirst, SilentTo, Listening
  <2>6. CASE j # k
    BY <1>0, <1>1, <1>3, <2>1, <2>2, <2>6, IdentityUntouched DEF Untouched
  <2> QED BY <2>5, <2>6
<1>5. CASE HandleRequest(k)
  <2>1. /\ Receives(k, Requests) /\ UNCHANGED clients
        /\ cut' = cut /\ players' = players
    BY <1>5 DEF HandleRequest
  <2>2. obj' = obj /\ owner' = owner
    BY <2>1 DEF clients
  <2>3. JoinsOnce(j)' /\ Fresh(j)'
    BY <1>0, <1>1, <2>1, <2>2, SaysTheSame
  <2>4. CASE down'[j] = down[j]
    <3>1. Named(j)' /\ OwnJoinFirst(j)' /\ SilentTo(j)'
      BY <1>0, <2>1, <2>2, <2>4
         DEF Identity, Named, OwnJoinFirst, SilentTo, Listening, Joined
    <3> QED BY <2>3, <3>1 DEF Identity
  <2>5. CASE down'[j] # down[j]
    <3>1. state' \in Outcomes(Head(up[k]).type) /\ down' = Broadcasts(seqno + 1, state')
      BY <1>5, <2>5 DEF HandleRequest
    <3>2. players[j] # None /\ down'[j] = Posts(j, <<Update(seqno + 1, state')>>)
      BY <2>5, <3>1 DEF Broadcasts
    <3>3. state' \in AnyStates /\ seqno + 1 \in Nat
      BY <2>1, <3>1, OutcomesType DEF Receives, Types
    <3>4. <<Update(seqno + 1, state')>> \in Seq(AnyDownMessages)
      BY <3>3, UpdateType
    <3>5. Named(j)' /\ OwnJoinFirst(j)' /\ SilentTo(j)'
      BY <1>0, <2>1, <2>2, <3>2, <3>4, HearsMore
    <3> QED BY <2>3, <3>5 DEF Identity
  <2> QED BY <2>4, <2>5
<1>6. CASE Accept(k)
  BY <1>0, <1>6, IdentityUntouched DEF Accept, network, clients, Untouched
<1>7. CASE ServerEnds(k)
  <2>1. up' = up /\ down' = down /\ cut' = cut /\ obj' = obj /\ owner' = owner /\ Forget(k)
    BY <1>7 DEF ServerEnds, network, clients
  <2>2. CASE j = k
    <3>1. ~Listening(k) /\ up[k] = <<>>
      BY <1>7 DEF ServerEnds, Listening
    <3>2. down[k] = <<>>
      BY <1>0, <3>1 DEF Identity, SilentTo
    <3> QED BY <1>0, <1>3, <2>1, <2>2, <3>1, <3>2
            DEF Identity, Named, OwnJoinFirst, SilentTo, JoinsOnce, Fresh, Listening
  <2>3. CASE j # k
    BY <1>0, <1>3, <2>1, <2>3, IdentityUntouched DEF Untouched
  <2> QED BY <2>2, <2>3
<1> QED BY <1>2, <1>4, <1>5, <1>6, <1>7 DEF ServerStep

\* A browser step of one connection leaves the others alone.
LEMMA IdentityElsewhere ==
    ASSUME Types, NEW k \in Conns, BrowserStep(k) \/ Cut(k), NEW j \in Conns, j # k,
           Identity(j)
    PROVE  Identity(j)'
<1>1. Untouched(j)
  <2>1. CASE OnOpen(k)
    BY <2>1 DEF Untouched, Types, OnOpen, server
  <2>2. CASE OnMessage(k)
    BY <2>2 DEF Untouched, Types, OnMessage, server
  <2>3. CASE OnClose(k) \/ OnError(k)
    BY <2>3 DEF Untouched, Types, OnClose, OnError, Gone, server
  <2>4. CASE BrowserNotices(k)
    BY <2>4 DEF Untouched, Types, BrowserNotices, server
  <2>5. CASE ConnectionHealthTick(k)
    BY <2>5 DEF Untouched, Types, ConnectionHealthTick, server, network
  <2>6. CASE Cut(k)
    BY <2>6 DEF Untouched, Types, Cut, server, clients
  <2> QED BY <2>1, <2>2, <2>3, <2>4, <2>5, <2>6 DEF BrowserStep
<1> QED BY <1>1, IdentityUntouched

LEMMA IdentityBrowser ==
    ASSUME Types, NEW k \in Conns, BrowserStep(k) \/ Cut(k), Identity(k)
    PROVE  Identity(k)'
<1> USE DEF Identity
<1>0. up[k] \in Seq(UpMessages) /\ down[k] \in Seq(AnyDownMessages) /\ obj[k] \in AnyObjects
  BY DEF Types
<1>1. CASE OnOpen(k)
  <2> DEFINE msg == [type |-> "join", name |-> NameOf[owner[k]], faction |-> PrefOf[owner[k]]]
  <2>1. up[k] = <<>> /\ players[k] = None /\ obj[k].faction = None /\ down[k] = <<>>
    BY <1>1 DEF OnOpen, Fresh, SilentTo
  <2>2. up'[k] = <<msg>>
    BY <1>1, <2>1 DEF OnOpen, Types
  <2>3. /\ obj'[k].faction = None /\ obj'[k].socket = "OPEN"
        /\ players' = players /\ down' = down
    BY <1>0, <1>1, <2>1 DEF OnOpen, server, Types, AnyObjects
  <2>4. JoinsOnce(k)'
    BY <2>1, <2>2, <2>3 DEF JoinsOnce
  <2> QED BY <2>1, <2>3, <2>4 DEF Named, OwnJoinFirst, SilentTo, Fresh
<1>2. CASE OnMessage(k)
  <2> DEFINE msg == Head(down[k])
  <2>1. /\ Listening(k) /\ down[k] # <<>> /\ obj[k].socket = "OPEN"
        /\ players' = players /\ up' = up /\ cut' = cut /\ owner' = owner
    BY <1>2 DEF OnMessage, SilentTo, server
  <2>2. msg \in AnyDownMessages
    BY <1>0, <2>1
  <2>3. players[k] # None \/ obj[k].faction # None
    BY <2>1 DEF SilentTo
  <2>4. \A i \in DOMAIN up[k] : up[k][i].type \notin {"join", "leave"}
    BY <2>1, <2>3 DEF JoinsOnce
  <2>5. SUFFICES /\ obj'[k].socket = "OPEN" /\ obj'[k].faction # None
                 /\ obj'[k].id = k /\ players[k] \in {obj'[k].faction, None}
    BY <2>1, <2>4 DEF Named, OwnJoinFirst, SilentTo, JoinsOnce, Fresh, Listening
  <2>6. CASE obj[k].faction = None
    <3>1. players[k] # None /\ msg = Joined(k, players[k])
      BY <2>1, <2>3, <2>6 DEF OwnJoinFirst
    <3>2. /\ msg.type = "joined" /\ msg.name = NameOf[owner[k]]
          /\ msg.faction = players[k] /\ msg.id = k
      BY <3>1 DEF Joined
    <3>3. obj'[k] = OnJoined(obj[k], msg, NameOf[owner[k]])
      BY <1>2, <3>2 DEF OnMessage, Types
    <3> HIDE DEF msg
    <3> QED BY <1>0, <2>1, <2>6, <3>1, <3>2, <3>3 DEF OnJoined, AnyObjects
  <2>7. CASE obj[k].faction # None
    <3>1. CASE msg.type = "joined"
      <4>1. obj'[k] = OnJoined(obj[k], msg, NameOf[owner[k]])
        BY <1>2, <3>1 DEF OnMessage, Types
      <4> QED BY <2>1, <2>7, <4>1 DEF OnJoined, Named
    <3>2. CASE msg.type = "update"
      <4>1. obj'[k] = OnUpdate(obj[k], msg)
        BY <1>2, <3>2 DEF OnMessage, Types
      <4> HIDE DEF msg
      <4>2. /\ obj'[k].socket = obj[k].socket /\ obj'[k].id = obj[k].id
            /\ obj'[k].faction = obj[k].faction
        BY <1>0, <4>1 DEF OnUpdate, AnyObjects
      <4> QED BY <2>1, <2>7, <4>2 DEF Named
    <3> QED BY <2>2, <3>1, <3>2 DEF AnyDownMessages
  <2> QED BY <2>6, <2>7
<1>3. CASE OnClose(k) \/ OnError(k)
  <2>1. /\ obj'[k] = [NewObject EXCEPT !.socket = "CLOSED"] /\ down'[k] = <<>>
        /\ up' = up /\ players' = players
    BY <1>3 DEF OnClose, OnError, Gone, server, Types
  <2>2. obj'[k].socket = "CLOSED" /\ obj'[k].faction = None
    BY <2>1 DEF NewObject
  <2> QED BY <2>1, <2>2 DEF Named, OwnJoinFirst, SilentTo, JoinsOnce, Fresh, Listening
<1>4. CASE BrowserNotices(k)
  <2>1. /\ obj'[k].socket = "CLOSING" /\ obj'[k].faction = obj[k].faction
        /\ obj'[k].id = obj[k].id
        /\ down'[k] = <<>> /\ up' = up /\ players' = players
    BY <1>0, <1>4 DEF BrowserNotices, server, Types, AnyObjects
  <2> QED BY <2>1 DEF Named, OwnJoinFirst, SilentTo, JoinsOnce, Fresh, Listening
<1>5. CASE ConnectionHealthTick(k)
  <2>1. /\ obj'[k] = Disconnected(obj[k]) /\ down' = down /\ up' = up /\ players' = players
        /\ obj[k].socket # "OPEN" /\ obj[k].socket # "NONE"
    BY <1>5 DEF ConnectionHealthTick, server, network, Types
  <2>2. down[k] = <<>>
    BY <2>1 DEF SilentTo, Listening
  <2>3. /\ obj'[k].faction = None
        /\ obj'[k].socket \notin {"NONE", "OPEN", "CONNECTING"}
    BY <1>0, <2>1, DisconnectedType
  <2> QED BY <2>1, <2>2, <2>3 DEF Named, OwnJoinFirst, SilentTo, JoinsOnce, Fresh, Listening
<1>6. CASE Cut(k)
  <2>1. /\ obj' = obj /\ players' = players /\ down'[k] = <<>> /\ k \in cut'
        /\ obj[k].socket \in {"OPEN", "CLOSING"}
    BY <1>6 DEF Cut, server, clients, Types
  <2>2. PICK n \in 0..Len(up[k]) : up' = [up EXCEPT ![k] = SubSeq(@, 1, n)]
    BY <1>6 DEF Cut
  <2>3. \A i \in DOMAIN up'[k] : i \in DOMAIN up[k] /\ up'[k][i] = up[k][i]
    BY <1>0, <2>2 DEF Types
  <2>4. JoinsOnce(k)'
    BY <2>1, <2>3 DEF JoinsOnce
  <2> QED BY <2>1, <2>4 DEF Named, OwnJoinFirst, SilentTo, Fresh, Listening
<1> QED BY <1>1, <1>2, <1>3, <1>4, <1>5, <1>6 DEF BrowserStep

\* A client that disconnects forgets who it is, and may send that it leaves.
LEMMA IdentityDropped ==
    ASSUME Types, NEW k \in Conns, Identity(k), obj'[k] = Disconnected(obj[k]),
           up'[k] = Leaves(k)[k], down'[k] = <<>>, players'[k] = players[k]
    PROVE  Identity(k)'
<1>1. up[k] \in Seq(UpMessages) /\ obj[k] \in AnyObjects
  BY DEF Types
<1>2. /\ obj'[k].faction = None
      /\ obj'[k].socket \notin {"OPEN", "CONNECTING"}
      /\ obj'[k].socket = "NONE" => obj[k].socket = "NONE"
  BY <1>1, DisconnectedType
<1>3. \A i \in DOMAIN up'[k] : \/ i \in DOMAIN up[k] /\ up'[k][i] = up[k][i]
                               \/ up'[k][i] = [type |-> "leave"]
  BY <1>1 DEF Leaves
<1>4. JoinsOnce(k)'
  BY <1>2, <1>3 DEF Identity, JoinsOnce
<1>5. Fresh(k)'
  BY <1>2 DEF Identity, Fresh, Leaves
<1> QED BY <1>2, <1>4, <1>5 DEF Identity, Named, OwnJoinFirst, SilentTo, Listening

LEMMA IdentityUser ==
    ASSUME Types, \A j \in Conns : Identity(j), NEW u \in Users, UserStep(u), NEW j \in Conns
    PROVE  Identity(j)'
<1>0. Identity(j)
  OBVIOUS
<1>1. CASE GameConnect(u)
  <2> DEFINE old == user[u].current
             k == opened + 1
  <2>1. k \in Conns /\ obj[k].socket = "NONE" /\ Connecting(obj[k]) \in AnyObjects
    <3>1. k \in Conns /\ k > opened
      BY <1>1, SessionAssumption DEF GameConnect, Conns, Types
    <3> HIDE DEF k
    <3> QED BY <3>1 DEF Types, Connecting, AnyObjects
  <2>2. /\ obj' = DropClient(old, [obj EXCEPT ![k] = Connecting(@)])
        /\ owner' = [owner EXCEPT ![k] = u]
        /\ up' = Leaves(old)
        /\ down'[j] = IF j = old THEN <<>> ELSE down[j]
        /\ cut' = cut /\ players' = players
    BY <1>1 DEF GameConnect, server
  <2> HIDE DEF k, old
  <2>3. /\ obj'[j] = LET o == IF j = k THEN Connecting(obj[k]) ELSE obj[j]
                     IN  IF j = old THEN Disconnected(o) ELSE o
        /\ j # k => owner'[j] = owner[j]
    BY <2>1, <2>2 DEF DropClient, Types
  <2>4. CASE j = k
    <3>1. up[k] = <<>> /\ players[k] = None /\ obj[k].faction = None /\ down[k] = <<>>
      BY <1>0, <2>1, <2>4 DEF Identity, Fresh, SilentTo
    <3>2. up'[k] = <<>> /\ down'[k] = <<>>
      BY <2>1, <2>2, <2>4, <3>1 DEF Leaves
    <3>3. obj'[k].faction = None /\ obj'[k].socket # "OPEN"
      <4>1. Connecting(obj[k]).faction = None /\ Connecting(obj[k]).socket = "CONNECTING"
        BY <2>1, <3>1 DEF Connecting, Types, AnyObjects
      <4> QED BY <2>1, <2>3, <2>4, <4>1, DisconnectedType
    <3> QED BY <2>2, <2>4, <3>1, <3>2, <3>3
            DEF Identity, Named, OwnJoinFirst, SilentTo, JoinsOnce, Fresh, Listening
  <2>5. CASE j # k /\ j = old
    BY <1>0, <2>2, <2>3, <2>5, IdentityDropped
  <2>6. CASE j # k /\ j # old
    BY <1>0, <2>2, <2>3, <2>6, IdentityUntouched DEF Untouched, Leaves
  <2> QED BY <2>4, <2>5, <2>6
<1>2. CASE GameDisconnect(u)
  <2> DEFINE old == user[u].current
  <2>1. /\ old \in Conns
        /\ obj' = DropClient(old, obj) /\ owner' = owner
        /\ up' = Leaves(old)
        /\ down' = [down EXCEPT ![old] = <<>>]
        /\ cut' = cut /\ players' = players
    BY <1>2 DEF GameDisconnect, server, Types
  <2> HIDE DEF old
  <2>2. CASE j = old
    BY <1>0, <2>1, <2>2, IdentityDropped DEF DropClient, Types
  <2>3. CASE j # old
    BY <1>0, <2>1, <2>3, IdentityUntouched DEF Untouched, DropClient, Leaves, Types
  <2> QED BY <2>2, <2>3
<1>3. ASSUME NEW type \in Requests, SendRequest(u, type)
      PROVE  Identity(j)'
  <2> DEFINE k == user[u].current
  <2>1. /\ k \in Conns
        /\ up' = [up EXCEPT ![k] = IF Listening(k) THEN Append(@, [type |-> type]) ELSE @]
        /\ obj' = obj /\ owner' = owner /\ down' = down /\ cut' = cut /\ players' = players
    BY <1>3 DEF SendRequest, server, clients, Types
  <2> HIDE DEF k
  <2>2. CASE j = k /\ Listening(k)
    <3>1. up[j] \in Seq(UpMessages) /\ up'[j] = Append(up[j], [type |-> type])
      BY <2>1, <2>2 DEF Types
    <3>2. \A i \in DOMAIN up'[j] : \/ i \in DOMAIN up[j] /\ up'[j][i] = up[j][i]
                                   \/ up'[j][i].type \in Requests
      BY <3>1
    <3>3. JoinsOnce(j)'
      BY <1>0, <2>1, <2>2, <3>2 DEF Identity, JoinsOnce, Requests
    <3>4. Fresh(j)'
      BY <2>1, <2>2 DEF Fresh, Listening
    <3> QED BY <1>0, <2>1, <2>2, <3>3, <3>4
            DEF Identity, Named, OwnJoinFirst, SilentTo, Listening, Joined
  <2>3. CASE ~(j = k /\ Listening(k))
    BY <1>0, <2>1, <2>3, IdentityUntouched DEF Untouched, Types
  <2> QED BY <2>2, <2>3
<1> QED BY <1>1, <1>2, <1>3 DEF UserStep

LEMMA IdentityStep ==
    ASSUME IdentityInv, [Next]_vars
    PROVE  IdentityInv'
<1>1. Types'
  BY TypesStep DEF IdentityInv
<1>2. ASSUME NEW j \in Conns
      PROVE  Identity(j)'
  <2>1. CASE UNCHANGED vars
    BY <2>1, IdentityUntouched DEF vars, Untouched, IdentityInv
  <2>2. ASSUME NEW k \in Conns, ServerStep(k)
        PROVE  Identity(j)'
    BY <2>2, IdentityServer DEF IdentityInv
  <2>3. ASSUME NEW k \in Conns, BrowserStep(k) \/ Cut(k)
        PROVE  Identity(j)'
    BY <2>3, IdentityBrowser, IdentityElsewhere DEF IdentityInv
  <2>4. ASSUME NEW u \in Users, UserStep(u)
        PROVE  Identity(j)'
    BY <2>4, IdentityUser DEF IdentityInv
  <2> QED BY <2>1, <2>2, <2>3, <2>4 DEF Next
<1> QED BY <1>1, <1>2 DEF IdentityInv

\* A client that knows who it is is right, though player_joined is sent to all
\* and told apart by the name (WebSocketClient._handle_player_joined).
THEOREM IdentityCorrect == Spec => []IdentityAgrees
<1>1. Init => IdentityInv
  BY IdentityInit
<1>2. IdentityInv /\ [Next]_vars => IdentityInv'
  BY IdentityStep
<1>3. IdentityInv => IdentityAgrees
  BY DEF IdentityInv, Identity, Named, IdentityAgrees
<1> QED BY <1>1, <1>2, <1>3, PTL DEF Spec

-----------------------------------------------------------------------------
(* Who may set the connected flag: only the current client of a Game is in  *)
(* any state but disconnected, and while an abandoned attempt of its user   *)
(* still waits for its error event, which clears the flag, the flag is not  *)
(* set.  The browser, which makes one attempt at a time, keeps it so.       *)

Attached(j) ==
    /\ obj[j].conn # "DISCONNECTED" => user[owner[j]].current = j
    /\ obj[j].socket = "CONNECTING" => obj[j].conn = "CONNECTING"
    /\ obj[j].socket = "OPEN" => obj[j].conn = "CONNECTED"
    /\ obj[j].socket = "FAILING" => obj[j].conn = "DISCONNECTED" /\ ~user[owner[j]].connected

Owned(u) ==
    user[u].current # None =>
        owner[user[u].current] = u /\ obj[user[u].current].socket # "NONE"

Flagged(u) ==
    user[u].connected <=>
        user[u].current # None /\ obj[user[u].current].conn = "CONNECTED"

FlagInv ==
    /\ Types
    /\ \A j \in Conns : Attached(j)
    /\ \A u \in Users : Owned(u) /\ Flagged(u)

LEMMA FlagInit ==
    ASSUME Init
    PROVE  FlagInv
<1>1. Types
  BY TypesInit
<1>2. ASSUME NEW j \in Conns PROVE Attached(j)
  BY DEF Init, NewObject, Attached
<1>3. ASSUME NEW u \in Users PROVE Owned(u) /\ Flagged(u)
  BY DEF Init, NewObject, Owned, Flagged
<1> QED BY <1>1, <1>2, <1>3 DEF FlagInv

LEMMA FlagUntouched ==
    ASSUME FlagInv, Types', UNCHANGED clients
    PROVE  FlagInv'
<1>1. ASSUME NEW j \in Conns PROVE Attached(j)'
  BY DEF FlagInv, Attached, clients
<1>2. ASSUME NEW u \in Users PROVE Owned(u)' /\ Flagged(u)'
  BY DEF FlagInv, Owned, Flagged, clients
<1> QED BY <1>1, <1>2 DEF FlagInv

\* A browser event changes one client object and what it tells its Game.
LEMMA FlagEvent ==
    ASSUME FlagInv, Types', NEW k \in Conns, NEW o, NEW g,
           obj[k].socket # "NONE",
           obj' = [obj EXCEPT ![k] = o],
           owner' = owner,
           user' = [user EXCEPT ![owner[k]] = g],
           g.current = user[owner[k]].current,
           o.socket # "NONE",
           o.conn # "DISCONNECTED" => g.current = k,
           o.socket = "CONNECTING" => o.conn = "CONNECTING",
           o.socket = "OPEN" => o.conn = "CONNECTED",
           o.socket = "FAILING" => o.conn = "DISCONNECTED" /\ ~g.connected,
           g.connected <=> IF g.current = k THEN o.conn = "CONNECTED"
                           ELSE user[owner[k]].connected,
           g.connected => \A j \in Conns \ {k} :
                            owner[j] = owner[k] => obj[j].socket # "FAILING"
    PROVE  FlagInv'
<1> USE DEF FlagInv, Types
<1>1. owner[k] \in Users
  OBVIOUS
<1>2. obj'[k] = o /\ \A j \in Conns \ {k} : obj'[j] = obj[j]
  OBVIOUS
<1>3. user'[owner[k]] = g /\ \A u \in Users \ {owner[k]} : user'[u] = user[u]
  BY <1>1
<1>4. ASSUME NEW j \in Conns PROVE Attached(j)'
  <2>1. CASE j = k
    BY <1>1, <1>2, <1>3, <2>1 DEF Attached
  <2>2. CASE j # k
    <3>1. Attached(j) /\ obj'[j] = obj[j]
      BY <1>2, <2>2
    <3>2. obj[j].socket # "NONE" => owner[j] \in Users
      OBVIOUS
    <3>3. obj[j].socket = "NONE" => obj[j].conn = "DISCONNECTED"
      OBVIOUS
    <3> QED BY <1>1, <1>3, <2>2, <3>1, <3>2, <3>3 DEF Attached
  <2> QED BY <2>1, <2>2
<1>5. ASSUME NEW u \in Users PROVE Owned(u)'
  BY <1>1, <1>2, <1>3 DEF Owned
<1>6. ASSUME NEW u \in Users PROVE Flagged(u)'
  <2>0. k # None
    BY SessionAssumption
  <2>1. CASE u = owner[k]
    <3>1. CASE g.current = k
      BY <1>1, <1>2, <1>3, <2>0, <2>1, <3>1 DEF Flagged
    <3>2. CASE g.current # k
      BY <1>1, <1>2, <1>3, <2>1, <3>2 DEF Flagged
    <3> QED BY <3>1, <3>2
  <2>2. CASE u # owner[k]
    <3>1. user'[u] = user[u] /\ user[u].current # k
      BY <1>3, <2>2, <2>0 DEF Owned
    <3> QED BY <1>2, <3>1 DEF Flagged
  <2> QED BY <2>1, <2>2
<1> QED BY <1>4, <1>5, <1>6

\* Nothing that is told is told in vain: the flag after a change of state.
LEMMA FlagTold ==
    ASSUME NEW g \in Games, NEW old, NEW new
    PROVE  /\ Told(g, old, new).current = g.current
           /\ Told(g, old, new).connected =
                IF old = new THEN g.connected ELSE new = "CONNECTED"
  BY DEF Told, Games

LEMMA FlagBrowser ==
    ASSUME FlagInv, NEW k \in Conns, BrowserStep(k)
    PROVE  FlagInv'
<1>0. Types'
  BY TypesBrowser DEF FlagInv
<1> USE DEF FlagInv
<1>1. obj[k] \in AnyObjects /\ Attached(k)
  BY DEF Types
<1>2. obj[k].socket # "NONE" => user[owner[k]] \in Games /\ owner[k] \in Users
  BY DEF Types, Games
<1>3. obj[k].socket # "NONE" => Owned(owner[k]) /\ Flagged(owner[k])
  BY <1>2
<1>4. obj[k].socket # "NONE" /\ user[owner[k]].connected =>
            \A j \in Conns \ {k} : owner[j] = owner[k] => obj[j].socket # "FAILING"
  BY DEF Attached
<1>5. CASE OnOpen(k)
  <2> DEFINE o == [obj[k] EXCEPT !.conn = "CONNECTED", !.socket = "OPEN"]
             g == Told(user[owner[k]], obj[k].conn, "CONNECTED")
  <2>1. obj[k].socket = "CONNECTING" /\ obj[k].conn = "CONNECTING"
    BY <1>1, <1>5 DEF OnOpen, Attached
  <2>2. o.conn = "CONNECTED" /\ o.socket = "OPEN"
    BY <1>1 DEF AnyObjects
  <2>3. /\ obj' = [obj EXCEPT ![k] = o] /\ owner' = owner
        /\ user' = [user EXCEPT ![owner[k]] = g]
    BY <1>1, <1>5 DEF OnOpen
  <2>4. g.current = k /\ user[owner[k]].current = k /\ g.connected
    <3>1. user[owner[k]] \in Games /\ user[owner[k]].current = k
      BY <1>1, <1>2, <2>1 DEF Attached
    <3> QED BY <2>1, <3>1 DEF Told, Games
  <2>5. \A j \in Conns \ {k} : owner[j] = owner[k] => obj[j].socket # "FAILING"
    BY <1>5 DEF OnOpen, Undisturbed
  <2> HIDE DEF o, g
  <2> QED BY <1>0, <2>1, <2>2, <2>3, <2>4, <2>5, FlagEvent
<1>6. CASE OnMessage(k)
  <2> DEFINE msg == Head(down[k])
             o == CASE msg.type = "joined" -> OnJoined(obj[k], msg, NameOf[owner[k]])
                    [] msg.type = "update" -> OnUpdate(obj[k], msg)
             g == user[owner[k]]
  <2>1. msg \in AnyDownMessages
    BY <1>6 DEF OnMessage, Types
  <2>2. o.conn = obj[k].conn /\ o.socket = obj[k].socket /\ o.socket = "OPEN"
    BY <1>1, <1>6, <2>1 DEF OnMessage, OnJoined, OnUpdate, AnyObjects, AnyDownMessages
  <2>3. obj' = [obj EXCEPT ![k] = o] /\ owner' = owner /\ user' = user
    BY <1>6 DEF OnMessage
  <2>4. user' = [user EXCEPT ![owner[k]] = g]
    BY <1>2, <2>2, <2>3 DEF Types
  <2>5. o.conn = "CONNECTED" /\ g.current = k
    BY <1>1, <2>2 DEF Attached
  <2>6. g.connected
    BY <1>3, <2>2, <2>5, SessionAssumption DEF Flagged
  <2> HIDE DEF o, g, msg
  <2>7. g = user[owner[k]]
    BY DEF g
  <2> QED BY <1>0, <1>4, <2>2, <2>3, <2>4, <2>5, <2>6, <2>7, FlagEvent
\* The object is gone and its Game has been told so.
<1>7. ASSUME NEW g, Gone(k), obj[k].socket # "NONE", user' = [user EXCEPT ![owner[k]] = g],
             g.current = user[owner[k]].current,
             g.connected <=> g.current # k /\ user[owner[k]].connected
      PROVE  FlagInv'
  <2> DEFINE o == [NewObject EXCEPT !.socket = "CLOSED"]
  <2>1. o.conn = "DISCONNECTED" /\ o.socket = "CLOSED"
    BY DEF NewObject
  <2>2. obj' = [obj EXCEPT ![k] = o] /\ owner' = owner
    BY <1>7 DEF Gone
  <2> HIDE DEF o
  <2> QED BY <1>0, <1>4, <1>7, <2>1, <2>2, FlagEvent
<1>8. CASE OnClose(k)
  <2> DEFINE g == Told(user[owner[k]], obj[k].conn, "DISCONNECTED")
  <2>1. obj[k].socket # "NONE"
    BY <1>8 DEF OnClose
  <2>2. g.current = user[owner[k]].current
    BY <1>2, <2>1, FlagTold
  <2>3. g.connected <=> g.current # k /\ user[owner[k]].connected
    <3>1. CASE obj[k].conn = "DISCONNECTED"
      BY <1>2, <1>3, <2>1, <2>2, <3>1, FlagTold DEF Flagged
    <3>2. CASE obj[k].conn # "DISCONNECTED"
      BY <1>1, <1>2, <2>1, <2>2, <3>2, FlagTold DEF Attached
    <3> QED BY <3>1, <3>2
  <2>4. user' = [user EXCEPT ![owner[k]] = g] /\ Gone(k)
    BY <1>8 DEF OnClose
  <2> HIDE DEF g
  <2> QED BY <1>7, <2>1, <2>2, <2>3, <2>4
<1>9. CASE OnError(k)
  <2> DEFINE h == Told(user[owner[k]], obj[k].conn, "FAILED")
             g == Told(h, "FAILED", "DISCONNECTED")
  <2>1. obj[k].socket # "NONE"
    BY <1>9 DEF OnError
  <2>2. h \in Games /\ h.current = user[owner[k]].current
    BY <1>2, <2>1, FlagTold, ToldType
  <2> HIDE DEF h
  <2>3. g.current = user[owner[k]].current /\ ~g.connected
    BY <2>2 DEF Told, Games
  <2>4. g.current # k => ~user[owner[k]].connected
    <3>1. CASE obj[k].socket = "FAILING"
      BY <1>1, <3>1 DEF Attached
    <3>2. CASE obj[k].socket # "FAILING"
      BY <1>1, <1>9, <2>3, <3>2 DEF OnError, Attached
    <3> QED BY <3>1, <3>2
  <2>5. user' = [user EXCEPT ![owner[k]] = g] /\ Gone(k)
    BY <1>9 DEF OnError, h
  <2> HIDE DEF g
  <2> QED BY <1>7, <2>1, <2>3, <2>4, <2>5
<1>10. CASE BrowserNotices(k)
  <2> DEFINE o == [obj[k] EXCEPT !.socket = "CLOSING"]
             g == user[owner[k]]
  <2>1. obj[k].socket = "OPEN" /\ obj[k].conn = "CONNECTED" /\ g.current = k
    BY <1>1, <1>10 DEF BrowserNotices, Attached
  <2>2. o.conn = "CONNECTED" /\ o.socket = "CLOSING"
    BY <1>1, <2>1 DEF AnyObjects
  <2>3. obj' = [obj EXCEPT ![k] = o] /\ owner' = owner /\ user' = user
    BY <1>1, <1>10 DEF BrowserNotices
  <2>4. user' = [user EXCEPT ![owner[k]] = g]
    BY <1>2, <2>1, <2>3 DEF Types
  <2>5. g.connected
    BY <1>3, <2>1, SessionAssumption DEF Flagged
  <2> HIDE DEF o, g
  <2>6. g = user[owner[k]]
    BY DEF g
  <2> QED BY <1>0, <1>4, <2>1, <2>2, <2>3, <2>4, <2>5, <2>6, FlagEvent
<1>11. CASE ConnectionHealthTick(k)
  <2> DEFINE o == Disconnected(obj[k])
             g == Told(user[owner[k]], obj[k].conn, "DISCONNECTED")
  <2>1. obj[k].conn = "CONNECTED" /\ obj[k].socket \notin {"OPEN", "CONNECTING", "NONE", "FAILING"}
    BY <1>1, <1>11 DEF ConnectionHealthTick, Attached, Types
  <2>2. o.conn = "DISCONNECTED" /\ o.socket = obj[k].socket
    BY <1>1, <2>1 DEF Disconnected, Closed, NewObject, AnyObjects
  <2>3. /\ obj' = [obj EXCEPT ![k] = o] /\ owner' = owner
        /\ user' = [user EXCEPT ![owner[k]] = g]
    BY <1>11 DEF ConnectionHealthTick
  <2>4. g.current = k /\ user[owner[k]].current = k /\ ~g.connected
    <3>1. user[owner[k]] \in Games /\ user[owner[k]].current = k
      BY <1>1, <1>2, <2>1 DEF Attached
    <3> QED BY <2>1, <3>1 DEF Told, Games
  <2> HIDE DEF o, g
  <2> QED BY <1>0, <2>1, <2>2, <2>3, <2>4, FlagEvent
<1> QED BY <1>5, <1>6, <1>8, <1>9, <1>10, <1>11 DEF BrowserStep

\* A Game connects or disconnects: its earlier client is disconnected with it.
LEMMA FlagUser ==
    ASSUME FlagInv, NEW u \in Users, UserStep(u)
    PROVE  FlagInv'
<1>0. Types'
  BY TypesUser DEF FlagInv
<1> USE DEF FlagInv
<1>1. Owned(u) /\ Flagged(u)
  OBVIOUS
<1>2. CASE GameConnect(u)
  <2> DEFINE old == user[u].current
             k == opened + 1
  <2>1. k \in Conns /\ obj[k].socket = "NONE" /\ obj[k] \in AnyObjects
    BY <1>2, SessionAssumption DEF GameConnect, Conns, Types
  <2>2. /\ owner' = [owner EXCEPT ![k] = u]
        /\ obj' = DropClient(old, [obj EXCEPT ![k] = Connecting(@)])
        /\ user' = [user EXCEPT ![u] = [current |-> k, connected |-> FALSE]]
    BY <1>2 DEF GameConnect
  <2>3. old # k
    BY <1>1, <2>1, SessionAssumption DEF Owned
  <2> HIDE DEF k
  <2>4. obj'[k].conn = "CONNECTING" /\ obj'[k].socket = "CONNECTING"
    BY <2>1, <2>2, <2>3 DEF DropClient, Connecting, AnyObjects, Types
  <2>5. \A j \in Conns \ {k} : obj'[j] = IF j = old THEN Disconnected(obj[j]) ELSE obj[j]
    BY <2>1, <2>2 DEF DropClient, Types
  <2>6. /\ owner'[k] = u /\ \A j \in Conns \ {k} : owner'[j] = owner[j]
        /\ user'[u].current = k /\ ~user'[u].connected
        /\ \A v \in Users \ {u} : user'[v] = user[v]
    BY <2>1, <2>2 DEF Types
  <2>7. old # None => owner[old] = u /\ obj[old].socket # "NONE" /\ old \in Conns
    BY <1>1 DEF Owned, Types
  <2>8. ASSUME NEW j \in Conns PROVE Attached(j)'
    <3>1. CASE j = k
      BY <2>4, <2>6, <3>1 DEF Attached
    <3>2. CASE j # k /\ j = old
      <4>1. /\ obj'[j].conn = "DISCONNECTED" /\ obj'[j].socket \notin {"OPEN", "CONNECTING"}
            /\ owner'[j] = u
        BY <2>5, <2>6, <2>7, <3>2, DisconnectedType, SessionAssumption DEF Types
      <4> QED BY <2>6, <4>1 DEF Attached
    <3>3. CASE j # k /\ j # old
      <4>1. obj'[j] = obj[j] /\ owner'[j] = owner[j] /\ Attached(j)
        BY <2>5, <2>6, <3>3
      <4>2. CASE owner[j] = u
        BY <2>6, <3>3, <4>1, <4>2 DEF Attached
      <4>3. CASE owner[j] # u
        <5>1. obj[j].socket # "NONE" => owner[j] \in Users
          BY DEF Types
        <5>2. obj[j].socket = "NONE" => obj[j].conn = "DISCONNECTED"
          BY DEF Types
        <5> QED BY <2>6, <4>1, <4>3, <5>1, <5>2 DEF Attached
      <4> QED BY <4>2, <4>3
    <3> QED BY <3>1, <3>2, <3>3
  <2>9. ASSUME NEW v \in Users PROVE Owned(v)' /\ Flagged(v)'
    <3>1. CASE v = u
      BY <2>1, <2>4, <2>6, <3>1, SessionAssumption DEF Owned, Flagged
    <3>2. CASE v # u
      <4> DEFINE c == user[v].current
      <4>1. user'[v] = user[v] /\ Owned(v) /\ Flagged(v)
        BY <2>6, <3>2
      <4>2. c # None => c \in Conns /\ c # k /\ c # old
        BY <2>1, <2>7, <3>2, <4>1 DEF Owned, Types
      <4>3. c # None => obj'[c] = obj[c] /\ owner'[c] = owner[c]
        BY <2>5, <2>6, <4>2
      <4> QED BY <4>1, <4>3 DEF Owned, Flagged
    <3> QED BY <3>1, <3>2
  <2> QED BY <1>0, <2>8, <2>9
<1>3. CASE GameDisconnect(u)
  <2> DEFINE old == user[u].current
  <2>1. /\ old \in Conns /\ owner[old] = u /\ obj[old].socket # "NONE"
        /\ owner' = owner
        /\ obj' = DropClient(old, obj)
        /\ user' = [user EXCEPT ![u] = [current |-> None, connected |-> FALSE]]
    BY <1>1, <1>3 DEF GameDisconnect, Owned, Types
  <2>2. \A j \in Conns : obj'[j] = IF j = old THEN Disconnected(obj[j]) ELSE obj[j]
    BY <2>1 DEF DropClient
  <2>3. /\ user'[u].current = None /\ ~user'[u].connected
        /\ \A v \in Users \ {u} : user'[v] = user[v]
    BY <2>1 DEF Types
  <2>4. ASSUME NEW j \in Conns PROVE Attached(j)'
    <3>1. CASE j = old
      <4>1. obj'[j].conn = "DISCONNECTED" /\ obj'[j].socket \notin {"OPEN", "CONNECTING"}
        BY <2>2, <3>1, DisconnectedType DEF Types
      <4> QED BY <2>1, <2>3, <3>1, <4>1 DEF Attached
    <3>2. CASE j # old
      <4>1. obj'[j] = obj[j] /\ owner'[j] = owner[j] /\ Attached(j)
        BY <2>1, <2>2, <3>2
      <4>2. CASE owner[j] = u
        BY <2>3, <3>2, <4>1, <4>2 DEF Attached
      <4>3. CASE owner[j] # u
        <5>1. obj[j].socket # "NONE" => owner[j] \in Users
          BY DEF Types
        <5>2. obj[j].socket = "NONE" => obj[j].conn = "DISCONNECTED"
          BY DEF Types
        <5> QED BY <2>3, <4>1, <4>3, <5>1, <5>2 DEF Attached
      <4> QED BY <4>2, <4>3
    <3> QED BY <3>1, <3>2
  <2>5. ASSUME NEW v \in Users PROVE Owned(v)' /\ Flagged(v)'
    <3>1. CASE v = u
      BY <2>3, <3>1 DEF Owned, Flagged
    <3>2. CASE v # u
      <4> DEFINE c == user[v].current
      <4>1. user'[v] = user[v] /\ Owned(v) /\ Flagged(v)
        BY <2>3, <3>2
      <4>2. c # None => c \in Conns /\ c # old
        BY <2>1, <3>2, <4>1 DEF Owned, Types
      <4>3. c # None => obj'[c] = obj[c] /\ owner'[c] = owner[c]
        BY <2>1, <2>2, <4>2
      <4> QED BY <4>1, <4>3 DEF Owned, Flagged
    <3> QED BY <3>1, <3>2
  <2> QED BY <1>0, <2>4, <2>5
<1>4. ASSUME NEW type \in Requests, SendRequest(u, type)
      PROVE  FlagInv'
  BY <1>0, <1>4, FlagUntouched DEF SendRequest
<1> QED BY <1>2, <1>3, <1>4 DEF UserStep

LEMMA FlagStep ==
    ASSUME FlagInv, [Next]_vars
    PROVE  FlagInv'
<1>0. Types'
  BY TypesStep DEF FlagInv
<1>1. CASE UNCHANGED vars
  BY <1>0, <1>1, FlagUntouched DEF vars, clients
<1>2. ASSUME NEW k \in Conns, ServerStep(k) \/ Cut(k)
      PROVE  FlagInv'
  BY <1>0, <1>2, FlagUntouched
     DEF ServerStep, HandleJoin, HandleLeave, HandleRequest, Accept, ServerEnds, Cut
<1> QED BY <1>1, <1>2, FlagBrowser, FlagUser DEF Next

\* The flag that lets a Game send says whether its current client is connected,
\* whatever events the sockets of its earlier clients still have for it
\* (BrowserWebSocketClient._on_close and _on_error, Game.connect).
THEOREM ConnectedFlagCorrect == Spec => []ConnectedFlagIsCurrent
<1>1. Init => FlagInv
  BY FlagInit
<1>2. FlagInv /\ [Next]_vars => FlagInv'
  BY FlagStep
<1>3. FlagInv => ConnectedFlagIsCurrent
  BY DEF FlagInv, Flagged, ConnectedFlagIsCurrent
<1> QED BY <1>1, <1>2, <1>3, PTL DEF Spec

-----------------------------------------------------------------------------
(* Nothing is lost: the newest update on its way to a player who listens,   *)
(* or else what it shows, is the state of the server.                       *)

IsUpdate(q, i) == i \in DOMAIN q /\ q[i].type = "update"

\* The last update of a queue, or without one the view, is st.
Shows(q, view, st) ==
    \/ view = st /\ \A i \in DOMAIN q : ~IsUpdate(q, i)
    \/ \E i \in DOMAIN q :
        /\ IsUpdate(q, i) /\ q[i].state = st
        /\ \A j \in DOMAIN q : IsUpdate(q, j) => j <= i

UpToDate(k) == players[k] # None /\ Listening(k) => Shows(down[k], obj[k].view, state)

LostInv == IdentityInv /\ \A k \in Conns : UpToDate(k)

LEMMA ShowsAppended ==
    ASSUME NEW S, NEW q \in Seq(S), NEW m \in S, NEW view, NEW st, m.type = "update", m.state = st
    PROVE  Shows(Append(q, m), view, st)
<1> DEFINE n == Len(q) + 1
<1>1. n \in DOMAIN Append(q, m) /\ Append(q, m)[n] = m
  OBVIOUS
<1>2. \A j \in DOMAIN Append(q, m) : j <= n
  OBVIOUS
<1> HIDE DEF n
<1> QED BY <1>1, <1>2 DEF Shows, IsUpdate

\* A welcome puts two messages on the queue: the second is what ShowsAppended needs.
LEMMA TwoAppended ==
    ASSUME NEW S, NEW q \in Seq(S), NEW a \in S, NEW b \in S
    PROVE  Append(q, a) \in Seq(S) /\ q \o <<a, b>> = Append(Append(q, a), b)
OBVIOUS

LEMMA ShowsStill ==
    ASSUME NEW S, NEW q \in Seq(S), NEW m \in S, NEW view, NEW st, m.type # "update",
           Shows(q, view, st)
    PROVE  Shows(Append(q, m), view, st)
<1> DEFINE r == Append(q, m)
<1>1. DOMAIN r = DOMAIN q \union {Len(q) + 1} /\ \A i \in DOMAIN q : r[i] = q[i]
  OBVIOUS
<1>2. r[Len(q) + 1] = m
  OBVIOUS
<1>3. \A i \in DOMAIN r : IsUpdate(r, i) <=> IsUpdate(q, i)
  <2>1. Len(q) + 1 \notin DOMAIN q
    OBVIOUS
  <2> HIDE DEF r
  <2> QED BY <1>1, <1>2, <2>1 DEF IsUpdate
<1> HIDE DEF r
<1>4. CASE view = st /\ \A i \in DOMAIN q : ~IsUpdate(q, i)
  BY <1>3, <1>4 DEF Shows, IsUpdate
<1>5. ASSUME NEW i \in DOMAIN q, IsUpdate(q, i), q[i].state = st,
             \A j \in DOMAIN q : IsUpdate(q, j) => j <= i
      PROVE  Shows(r, view, st)
  <2>1. i \in DOMAIN r /\ IsUpdate(r, i) /\ r[i].state = st
    BY <1>1, <1>3, <1>5
  <2>2. \A j \in DOMAIN r : IsUpdate(r, j) => j <= i
    BY <1>3, <1>5 DEF IsUpdate
  <2> QED BY <2>1, <2>2 DEF Shows
<1> QED BY <1>4, <1>5 DEF Shows, r

\* The client takes the first message: an update is what it shows from then on.
LEMMA ShowsTaken ==
    ASSUME NEW S, NEW q \in Seq(S), NEW view, NEW after, NEW st, q # <<>>, Shows(q, view, st),
           after = IF Head(q).type = "update" THEN Head(q).state ELSE view
    PROVE  Shows(Tail(q), after, st)
<1> DEFINE r == Tail(q)
<1>1. DOMAIN r = 1..(Len(q) - 1) /\ DOMAIN q = 1..Len(q) /\ Len(q) \in Nat \ {0}
  OBVIOUS
<1>2. \A i \in DOMAIN r : i + 1 \in DOMAIN q /\ r[i] = q[i + 1]
  OBVIOUS
<1>3. 1 \in DOMAIN q /\ Head(q) = q[1]
  OBVIOUS
<1> HIDE DEF r
<1>4. \A i \in DOMAIN r : IsUpdate(r, i) <=> IsUpdate(q, i + 1)
  BY <1>2 DEF IsUpdate
<1>5. CASE view = st /\ \A i \in DOMAIN q : ~IsUpdate(q, i)
  <2>1. after = st
    BY <1>3, <1>5 DEF IsUpdate
  <2>2. \A i \in DOMAIN r : ~IsUpdate(r, i)
    BY <1>2, <1>4, <1>5
  <2> QED BY <2>1, <2>2 DEF Shows, r
<1>6. ASSUME NEW i \in DOMAIN q, IsUpdate(q, i), q[i].state = st,
             \A j \in DOMAIN q : IsUpdate(q, j) => j <= i
      PROVE  Shows(r, after, st)
  <2>1. CASE i = 1
    <3>1. after = st
      BY <1>3, <1>6, <2>1 DEF IsUpdate
    <3>2. \A j \in DOMAIN r : ~IsUpdate(r, j)
      BY <1>1, <1>2, <1>4, <1>6, <2>1
    <3> QED BY <3>1, <3>2 DEF Shows
  <2>2. CASE i # 1
    <3>1. i - 1 \in DOMAIN r
      BY <1>1, <2>2
    <3>2. IsUpdate(r, i - 1) /\ r[i - 1].state = st
      BY <1>1, <1>2, <1>4, <1>6, <3>1
    <3>3. \A j \in DOMAIN r : IsUpdate(r, j) => j <= i - 1
      BY <1>1, <1>2, <1>4, <1>6
    <3> QED BY <3>1, <3>2, <3>3 DEF Shows
  <2> QED BY <2>1, <2>2
<1> QED BY <1>5, <1>6 DEF Shows, r

LEMMA LostUntouched ==
    ASSUME NEW j \in Conns, UpToDate(j), state' = state, players'[j] \in {players[j], None},
           Listening(j)' => Listening(j) /\ down'[j] = down[j] /\ obj'[j].view = obj[j].view
    PROVE  UpToDate(j)'
  BY DEF UpToDate

\* Posting an update to a listener shows it; posting another message hides nothing.
LEMMA PostedShows ==
    ASSUME Types, NEW j \in Conns, Listening(j), NEW n \in Nat, NEW st \in AnyStates, NEW view
    PROVE  Shows(Posts(j, <<Update(n, st)>>), view, st)
<1>1. down[j] \in Seq(AnyDownMessages) /\ Update(n, st) \in AnyDownMessages
  BY UpdateType DEF Types
<1>2. Posts(j, <<Update(n, st)>>) = Append(down[j], Update(n, st))
  BY <1>1 DEF Posts
<1>3. Update(n, st).type = "update" /\ Update(n, st).state = st
  BY DEF Update
<1> QED BY <1>1, <1>2, <1>3, ShowsAppended

LEMMA LostServer ==
    ASSUME LostInv, NEW k \in Conns, ServerStep(k), NEW j \in Conns
    PROVE  UpToDate(j)'
<1> USE DEF LostInv, IdentityInv
<1>0. /\ Types /\ UpToDate(j) /\ (players[k] # None => k \in served)
      /\ down[j] \in Seq(AnyDownMessages) /\ state \in AnyStates /\ seqno \in Nat
  BY DEF Types
<1>1. CASE HandleJoin(k)
  <2>1. state' = state /\ (Listening(j)' <=> Listening(j)) /\ obj'[j].view = obj[j].view
    BY <1>1 DEF HandleJoin, clients, Listening
  <2>2. CASE players[k] # None
    <3>1. players' = players /\ down' = [down EXCEPT ![k] = Posts(k, <<Update(seqno, state)>>)]
      BY <1>1, <2>2 DEF HandleJoin
    <3>2. CASE j = k /\ Listening(k)
      <4>1. Shows(Posts(k, <<Update(seqno, state)>>), obj[k].view, state)
        BY <1>0, <3>2, PostedShows
      <4> QED BY <1>0, <2>1, <3>1, <3>2, <4>1 DEF UpToDate, Types
    <3>3. CASE ~(j = k /\ Listening(k))
      BY <1>0, <2>1, <3>1, <3>3, LostUntouched DEF Types
    <3> QED BY <3>2, <3>3
  <2>3. CASE players[k] = None /\ FactionFor(Head(up[k]).faction) = None
    BY <1>0, <1>1, <2>1, <2>3, LostUntouched DEF HandleJoin
  <2>4. CASE players[k] = None /\ FactionFor(Head(up[k]).faction) # None
    <3> DEFINE f == FactionFor(Head(up[k]).faction)
               m == Joined(k, f)
    <3>1. /\ players' = [players EXCEPT ![k] = f] /\ down' = Welcomes(k, f) /\ k \in served
      BY <1>1, <2>4 DEF HandleJoin, Receives
    <3>2. m \in AnyDownMessages /\ m.type # "update"
      BY <1>0, <2>4, <3>1, JoinedType, FactionForFree DEF Types, Joined
    <3> HIDE DEF m, f
    <3>3. CASE ~Listening(j)
      BY <2>1, <3>3 DEF UpToDate
    <3>4. CASE Listening(j) /\ j = k
      <4>1. down'[j] = down[j] \o <<m, Update(seqno, state)>>
        BY <3>1, <3>4 DEF Welcomes, Posts, m
      <4>2. Update(seqno, state) \in AnyDownMessages
        BY <1>0, UpdateType
      <4>3. /\ Append(down[j], m) \in Seq(AnyDownMessages)
            /\ down'[j] = Append(Append(down[j], m), Update(seqno, state))
        BY <1>0, <3>2, <4>1, <4>2, TwoAppended DEF Types
      <4>4. Shows(down'[j], obj[j].view, state)
        BY <4>2, <4>3, ShowsAppended DEF Update
      <4> QED BY <2>1, <4>4 DEF UpToDate
    <3>5. CASE Listening(j) /\ j # k /\ players[j] # None
      <4>1. down'[j] = Append(down[j], m)
        BY <1>0, <3>1, <3>2, <3>5 DEF Welcomes, Posts, m
      <4>2. Shows(down'[j], obj[j].view, state)
        BY <1>0, <3>2, <3>5, <4>1, ShowsStill DEF UpToDate
      <4> QED BY <2>1, <4>2 DEF UpToDate
    <3>6. CASE j # k /\ players[j] = None
      BY <1>0, <3>1, <3>6 DEF UpToDate, Types, SeatTypes
    <3> QED BY <3>3, <3>4, <3>5, <3>6
  <2> QED BY <2>2, <2>3, <2>4
<1>2. CASE HandleRequest(k)
  <2>1. players' = players /\ (Listening(j)' <=> Listening(j)) /\ obj'[j].view = obj[j].view
    BY <1>2 DEF HandleRequest, clients, Listening
  <2>2. CASE UNCHANGED <<seqno, state, down>>
    BY <1>0, <2>1, <2>2, LostUntouched
  <2>3. CASE ~UNCHANGED <<seqno, state, down>>
    <3>1. /\ Head(up[k]).type \in Requests
          /\ state' \in Outcomes(Head(up[k]).type)
          /\ down' = Broadcasts(seqno + 1, state')
      BY <1>2, <2>3 DEF HandleRequest, Receives
    <3>2. state' \in AnyStates
      BY <1>0, <3>1, OutcomesType
    <3>3. ASSUME players[j] # None, Listening(j)
          PROVE  Shows(down'[j], obj[j].view, state')
      <4>1. down'[j] = Posts(j, <<Update(seqno + 1, state')>>)
        BY <3>1, <3>3 DEF Broadcasts
      <4> QED BY <1>0, <3>2, <3>3, <4>1, PostedShows
    <3> QED BY <2>1, <3>3 DEF UpToDate
  <2> QED BY <2>2, <2>3
<1>3. CASE HandleLeave(k) \/ Accept(k) \/ ServerEnds(k)
  <2>1. /\ state' = state /\ (Listening(j)' <=> Listening(j)) /\ obj'[j].view = obj[j].view
        /\ down' = down
    BY <1>3 DEF HandleLeave, Accept, ServerEnds, clients, network, Listening
  <2>2. players'[j] \in {players[j], None}
    BY <1>0, <1>3 DEF HandleLeave, Accept, ServerEnds, Forget, Types, SeatTypes
  <2> QED BY <1>0, <2>1, <2>2, LostUntouched
<1> QED BY <1>1, <1>2, <1>3 DEF ServerStep

LEMMA LostClient ==
    ASSUME LostInv, NEW j \in Conns,
           \/ \E k \in Conns : BrowserStep(k) \/ Cut(k)
           \/ \E u \in Users : UserStep(u)
    PROVE  UpToDate(j)'
<1> USE DEF LostInv, IdentityInv
<1>0. /\ Types /\ UpToDate(j) /\ Identity(j)
      /\ down[j] \in Seq(AnyDownMessages) /\ obj[j] \in AnyObjects
  BY DEF Types
<1>1. state' = state /\ players' = players
  BY DEF BrowserStep, OnOpen, OnMessage, OnClose, OnError, Gone, BrowserNotices,
         ConnectionHealthTick, Cut, UserStep, GameConnect, GameDisconnect, SendRequest, server
<1>2. ASSUME NEW k \in Conns, OnOpen(k)
      PROVE  UpToDate(j)'
  <2>1. CASE j = k
    BY <1>0, <1>1, <1>2, <2>1 DEF OnOpen, Identity, Fresh, UpToDate
  <2>2. CASE j # k
    BY <1>0, <1>1, <1>2, <2>2, LostUntouched DEF OnOpen, Listening, Types
  <2> QED BY <2>1, <2>2
<1>3. ASSUME NEW k \in Conns, OnMessage(k)
      PROVE  UpToDate(j)'
  <2>1. CASE j = k
    <3> DEFINE msg == Head(down[k])
    <3>1. msg \in AnyDownMessages /\ down[k] # <<>> /\ down'[k] = Tail(down[k]) /\ cut' = cut
      BY <1>0, <1>3, <2>1 DEF OnMessage, Types
    <3>2. obj'[k].view = IF msg.type = "update" THEN msg.state ELSE obj[k].view
      <4>1. CASE msg.type = "update"
        <5>1. obj'[k] = OnUpdate(obj[k], msg)
          BY <1>3, <4>1 DEF OnMessage, Types
        <5> QED BY <1>0, <2>1, <4>1, <5>1 DEF OnUpdate, AnyObjects
      <4>2. CASE msg.type = "joined"
        <5>1. obj'[k] = OnJoined(obj[k], msg, NameOf[owner[k]])
          BY <1>3, <4>2 DEF OnMessage, Types
        <5> QED BY <1>0, <2>1, <4>2, <5>1 DEF OnJoined, AnyObjects
      <4> QED BY <3>1, <4>1, <4>2 DEF AnyDownMessages
    <3>3. Listening(j)' => Listening(j)
      BY <1>3, <2>1, <3>1 DEF OnMessage, Listening
    <3>4. Shows(down[j], obj[j].view, state) => Shows(down'[j], obj'[j].view, state)
      BY <1>0, <2>1, <3>1, <3>2, ShowsTaken
    <3> QED BY <1>0, <1>1, <3>3, <3>4 DEF UpToDate
  <2>2. CASE j # k
    BY <1>0, <1>1, <1>3, <2>2, LostUntouched DEF OnMessage, Listening, Types
  <2> QED BY <2>1, <2>2
<1>4. ASSUME NEW k \in Conns, OnClose(k) \/ OnError(k) \/ BrowserNotices(k)
      PROVE  UpToDate(j)'
  <2>1. CASE j = k
    <3>1. ~Listening(j)'
      BY <1>0, <1>4, <2>1 DEF OnClose, OnError, Gone, BrowserNotices, Listening, NewObject, Types, AnyObjects
    <3> QED BY <3>1 DEF UpToDate
  <2>2. CASE j # k
    <3>1. obj'[j] = obj[j] /\ down'[j] = down[j] /\ (j \in cut' <=> j \in cut)
      BY <1>4, <2>2 DEF OnClose, OnError, Gone, BrowserNotices, Types
    <3> QED BY <1>0, <1>1, <3>1, LostUntouched DEF Listening
  <2> QED BY <2>1, <2>2
<1>5. ASSUME NEW k \in Conns, ConnectionHealthTick(k)
      PROVE  UpToDate(j)'
  <2>1. CASE j = k
    <3>1. ~Listening(j)'
      BY <1>0, <1>5, <2>1, DisconnectedType DEF ConnectionHealthTick, Listening, Types
    <3> QED BY <3>1 DEF UpToDate
  <2>2. CASE j # k
    BY <1>0, <1>1, <1>5, <2>2, LostUntouched DEF ConnectionHealthTick, Listening, Types, network
  <2> QED BY <2>1, <2>2
<1>6. ASSUME NEW k \in Conns, Cut(k)
      PROVE  UpToDate(j)'
  BY <1>0, <1>1, <1>6, LostUntouched DEF Cut, clients, Listening, Types
<1>7. ASSUME NEW u \in Users, GameConnect(u) \/ GameDisconnect(u)
      PROVE  UpToDate(j)'
  <2>1. Listening(j)' => obj'[j] = obj[j] /\ down'[j] = down[j] /\ Listening(j)
    <3>1. CASE j = user[u].current
      <4>1. obj'[j].socket # "OPEN"
        <5>1. CASE GameDisconnect(u)
          BY <1>0, <3>1, <5>1, DisconnectedType DEF GameDisconnect, DropClient
        <5>2. CASE GameConnect(u)
          <6>1. [obj EXCEPT ![opened + 1] = Connecting(@)][j] \in AnyObjects
            BY <1>0 DEF Connecting, AnyObjects, Types
          <6> QED BY <3>1, <5>2, <6>1, DisconnectedType DEF GameConnect, DropClient
        <5> QED BY <1>7, <5>1, <5>2
      <4> QED BY <4>1 DEF Listening
    <3>2. CASE j # user[u].current /\ GameDisconnect(u)
      BY <3>2 DEF GameDisconnect, DropClient, Listening, Types
    <3>3. CASE j # user[u].current /\ GameConnect(u) /\ j = opened + 1
      BY <1>0, <3>3 DEF GameConnect, DropClient, Listening, Connecting, Types, AnyObjects
    <3>4. CASE j # user[u].current /\ GameConnect(u) /\ j # opened + 1
      BY <1>0, <3>4 DEF GameConnect, DropClient, Listening, Types
    <3> QED BY <1>7, <3>1, <3>2, <3>3, <3>4
  <2> QED BY <1>0, <1>1, <2>1, LostUntouched
<1>8. ASSUME NEW u \in Users, NEW type \in Requests, SendRequest(u, type)
      PROVE  UpToDate(j)'
  BY <1>0, <1>1, <1>8, LostUntouched DEF SendRequest, clients, Listening
<1> QED BY <1>2, <1>3, <1>4, <1>5, <1>6, <1>7, <1>8 DEF BrowserStep, UserStep

LEMMA LostStep ==
    ASSUME LostInv, [Next]_vars
    PROVE  LostInv'
<1>1. IdentityInv'
  BY IdentityStep DEF LostInv
<1>2. ASSUME NEW j \in Conns PROVE UpToDate(j)'
  <2>1. CASE UNCHANGED vars
    BY <2>1, LostUntouched DEF vars, LostInv, Listening
  <2> QED BY <2>1, LostServer, LostClient DEF Next
<1> QED BY <1>1, <1>2 DEF LostInv

\* No player who listens misses a change, whenever it joined and whoever joins,
\* leaves or is lost beside it (GameServer._handle_join_game,
\* _broadcast_state_update).
THEOREM UpdatesReach == Spec => []NoUpdateLost
<1>1. Init => LostInv
  BY IdentityInit DEF Init, LostInv, UpToDate
<1>2. LostInv /\ [Next]_vars => LostInv'
  BY LostStep
<1>3. LostInv => NoUpdateLost
  <2>1. ASSUME NEW k \in Conns, Shows(down[k], obj[k].view, state)
        PROVE  IF Updates(k) = {} THEN obj[k].view = state
               ELSE \E i \in Updates(k) :
                        (\A j \in Updates(k) : j <= i) /\ down[k][i].state = state
    <3>1. \A i : i \in Updates(k) <=> i \in DOMAIN down[k] /\ IsUpdate(down[k], i)
      BY DEF Updates, IsUpdate
    <3> QED BY <2>1, <3>1 DEF Shows
  <2> QED BY <2>1 DEF LostInv, UpToDate, NoUpdateLost
<1> QED BY <1>1, <1>2, <1>3, PTL DEF Spec

-----------------------------------------------------------------------------
(* Nothing goes back: what a client shows and the updates on their way to  *)
(* it are in the order of the changes, and none is ahead of the server.    *)

InOrder(q, view, n) ==
    /\ \A i \in DOMAIN q : IsUpdate(q, i) =>
        /\ q[i].state.changes <= n
        /\ view # None => view.changes <= q[i].state.changes
        /\ \A j \in DOMAIN q : IsUpdate(q, j) /\ i <= j =>
            q[i].state.changes <= q[j].state.changes
    /\ view # None => view.changes <= n

OrderInv == Types /\ \A k \in Conns : InOrder(down[k], obj[k].view, state.changes)

\* The view does not go back in this step.
Advances(k) ==
    obj[k].view # None /\ obj'[k].conn = "CONNECTED" =>
        /\ obj'[k].view # None
        /\ obj'[k].view.changes >= obj[k].view.changes

\* An update of the newest state goes to the end of the queue.
LEMMA OrderAppended ==
    ASSUME NEW q \in Seq(AnyDownMessages), NEW m \in AnyDownMessages, NEW view \in AnyStates \union {None},
           NEW n \in Nat, NEW after \in Nat, n <= after, InOrder(q, view, n),
           m.type = "update" => m.state.changes = after
    PROVE  Append(q, m) \in Seq(AnyDownMessages) /\ InOrder(Append(q, m), view, after)
<1> DEFINE r == Append(q, m)
           l == Len(q) + 1
<1>1. /\ r \in Seq(AnyDownMessages)
      /\ DOMAIN r = DOMAIN q \union {l} /\ r[l] = m
      /\ \A i \in DOMAIN q : r[i] = q[i] /\ i < l
      /\ DOMAIN r \subseteq Nat /\ l \in Nat
  OBVIOUS
<1>2. \A i \in DOMAIN q : IsUpdate(q, i) => q[i].state.changes \in Nat
  BY DEF IsUpdate, AnyDownMessages, AnyStates
<1>3. view # None => view.changes \in Nat /\ view.changes <= n
  BY DEF InOrder, AnyStates
<1> HIDE DEF r, l
<1>4. ASSUME NEW i \in DOMAIN r, IsUpdate(r, i)
      PROVE  /\ r[i].state.changes <= after
             /\ view # None => view.changes <= r[i].state.changes
             /\ \A j \in DOMAIN r : IsUpdate(r, j) /\ i <= j =>
                    r[i].state.changes <= r[j].state.changes
  <2>1. CASE i = l
    <3>1. r[i].state.changes = after
      BY <1>1, <1>4, <2>1 DEF IsUpdate
    <3>2. \A j \in DOMAIN r : i <= j => j = i
      BY <1>1, <2>1
    <3> QED BY <1>3, <3>1, <3>2
  <2>2. CASE i # l
    <3>1. /\ i \in DOMAIN q /\ r[i] = q[i] /\ IsUpdate(q, i)
      BY <1>1, <1>4, <2>2 DEF IsUpdate
    <3>2. /\ q[i].state.changes \in Nat /\ q[i].state.changes <= n
          /\ view # None => view.changes <= q[i].state.changes
      BY <1>2, <3>1 DEF InOrder
    <3>3. r[i].state.changes <= after
      BY <3>1, <3>2
    <3>4. ASSUME NEW j \in DOMAIN r, IsUpdate(r, j), i <= j
          PROVE  r[i].state.changes <= r[j].state.changes
      <4>1. CASE j = l
        BY <1>1, <3>3, <3>4, <4>1 DEF IsUpdate
      <4>2. CASE j # l
        <5>1. j \in DOMAIN q /\ r[j] = q[j] /\ IsUpdate(q, j)
          BY <1>1, <3>4, <4>2 DEF IsUpdate
        <5> QED BY <3>1, <3>4, <5>1 DEF InOrder
      <4> QED BY <4>1, <4>2
    <3> QED BY <3>1, <3>2, <3>3, <3>4
  <2> QED BY <2>1, <2>2
<1>5. view # None => view.changes <= after
  BY <1>3
<1> QED BY <1>1, <1>4, <1>5 DEF InOrder, r

\* The client takes the first message.
LEMMA OrderTaken ==
    ASSUME NEW q \in Seq(AnyDownMessages), q # <<>>, NEW view \in AnyStates \union {None},
           NEW n \in Nat, NEW after, InOrder(q, view, n),
           after = IF Head(q).type = "update" THEN Head(q).state ELSE view
    PROVE  /\ InOrder(Tail(q), after, n)
           /\ view # None => after # None /\ after.changes >= view.changes
<1> DEFINE r == Tail(q)
<1>1. /\ 1 \in DOMAIN q /\ Head(q) = q[1] /\ q[1] \in AnyDownMessages
      /\ \A i \in DOMAIN r : i + 1 \in DOMAIN q /\ r[i] = q[i + 1] /\ i \in Nat /\ 1 <= i + 1
  OBVIOUS
<1>2. \A i \in DOMAIN q : IsUpdate(q, i) => q[i].state.changes \in Nat
  BY DEF IsUpdate, AnyDownMessages, AnyStates
<1>3. view # None => view.changes \in Nat
  BY DEF AnyStates
<1> HIDE DEF r
<1>4. \A i \in DOMAIN r : IsUpdate(r, i) => IsUpdate(q, i + 1)
  BY <1>1 DEF IsUpdate
<1>5. /\ after # None => after.changes <= n
      /\ \A i \in DOMAIN r : IsUpdate(r, i) /\ after # None =>
            after.changes <= r[i].state.changes
  <2>1. CASE Head(q).type = "update"
    <3>1. IsUpdate(q, 1) /\ after = q[1].state
      BY <1>1, <2>1 DEF IsUpdate
    <3> QED BY <1>1, <1>4, <3>1 DEF InOrder
  <2>2. CASE Head(q).type # "update"
    BY <1>1, <1>4, <2>2 DEF InOrder
  <2> QED BY <2>1, <2>2
<1>6. \A i \in DOMAIN r : IsUpdate(r, i) =>
        /\ r[i].state.changes <= n
        /\ \A j \in DOMAIN r : IsUpdate(r, j) /\ i <= j =>
                r[i].state.changes <= r[j].state.changes
  <2>1. \A i, j \in DOMAIN r : i <= j => i + 1 <= j + 1
    BY <1>1
  <2> QED BY <1>1, <1>4, <2>1 DEF InOrder
<1>7. view # None => after # None /\ after.changes >= view.changes
  <2>1. CASE Head(q).type = "update"
    <3>1. IsUpdate(q, 1) /\ after = q[1].state /\ after \in AnyStates
      BY <1>1, <2>1 DEF IsUpdate, AnyDownMessages
    <3>2. view # None => view.changes <= after.changes
      BY <1>1, <3>1 DEF InOrder
    <3>3. after.changes \in Nat
      BY <3>1 DEF AnyStates
    <3>4. after # None
      BY <3>1, SessionAssumption DEF AnyStates
    <3> QED BY <1>3, <3>2, <3>3, <3>4
  <2>2. CASE Head(q).type # "update"
    BY <1>3, <2>2
  <2> QED BY <2>1, <2>2
<1> QED BY <1>5, <1>6, <1>7 DEF InOrder, r

LEMMA OrderLater ==
    ASSUME NEW q \in Seq(AnyDownMessages), NEW view \in AnyStates \union {None},
           NEW n \in Nat, NEW after \in Nat, n <= after, InOrder(q, view, n)
    PROVE  InOrder(q, view, after)
<1>1. \A i \in DOMAIN q : IsUpdate(q, i) => q[i].state.changes \in Nat
  BY DEF IsUpdate, AnyDownMessages, AnyStates
<1>2. view # None => view.changes \in Nat
  BY DEF AnyStates
<1> QED BY <1>1, <1>2 DEF InOrder

\* What is on its way to a client and what it shows stay, while the server goes on.
LEMMA OrderUntouched ==
    ASSUME OrderInv, Types', NEW j \in Conns, obj'[j].view = obj[j].view, down'[j] \in {down[j], <<>>},
           state.changes <= state'.changes
    PROVE  InOrder(down[j], obj[j].view, state.changes)' /\ Advances(j)
<1>1. /\ down[j] \in Seq(AnyDownMessages) /\ obj[j].view \in AnyStates \union {None}
      /\ state.changes \in Nat /\ state'.changes \in Nat
      /\ obj[j].view # None => obj[j].view.changes \in Nat
  BY DEF OrderInv, Types, AnyObjects, AnyStates
<1>2. InOrder(down[j], obj[j].view, state.changes)
  BY DEF OrderInv
<1>3. InOrder(down[j], obj[j].view, state'.changes)
  BY <1>1, <1>2, OrderLater
<1>4. InOrder(<<>>, obj[j].view, state'.changes)
  BY <1>3 DEF InOrder
<1>5. InOrder(down'[j], obj'[j].view, state'.changes)
  BY <1>3, <1>4
<1> QED BY <1>1, <1>5 DEF Advances

\* A client that forgets what it showed has nothing to be behind of.
LEMMA OrderForgotten ==
    ASSUME OrderInv, NEW j \in Conns, obj'[j].view = None, obj'[j].conn # "CONNECTED",
           down'[j] \in {down[j], <<>>}, state' = state
    PROVE  InOrder(down[j], obj[j].view, state.changes)' /\ Advances(j)
<1>1. InOrder(down[j], obj[j].view, state.changes)
  BY DEF OrderInv
<1>2. InOrder(down'[j], None, state.changes)
  BY <1>1 DEF InOrder
<1> QED BY <1>2 DEF Advances

LEMMA OrderPosted ==
    ASSUME OrderInv, NEW j \in Conns, NEW m \in AnyDownMessages, NEW n \in Nat, state.changes <= n,
           m.type = "update" => m.state.changes = n
    PROVE  /\ Posts(j, <<m>>) \in Seq(AnyDownMessages)
           /\ InOrder(Posts(j, <<m>>), obj[j].view, n)
<1>1. /\ down[j] \in Seq(AnyDownMessages) /\ obj[j].view \in AnyStates \union {None}
      /\ state.changes \in Nat /\ InOrder(down[j], obj[j].view, state.changes)
  BY DEF OrderInv, Types, AnyObjects, AnyStates
<1>2. CASE Listening(j)
  <2>1. Posts(j, <<m>>) = Append(down[j], m)
    BY <1>1, <1>2 DEF Posts
  <2> QED BY <1>1, <2>1, OrderAppended
<1>3. CASE ~Listening(j)
  <2>1. Posts(j, <<m>>) = down[j]
    BY <1>3 DEF Posts
  <2>2. InOrder(down[j], obj[j].view, n)
    BY <1>1, OrderLater
  <2> QED BY <1>1, <2>1, <2>2
<1> QED BY <1>2, <1>3

LEMMA OrderServer ==
    ASSUME OrderInv, Types', NEW k \in Conns, ServerStep(k), NEW j \in Conns
    PROVE  InOrder(down[j], obj[j].view, state.changes)' /\ Advances(j)
<1>0. /\ Types /\ down[j] \in Seq(AnyDownMessages) /\ obj[j].view \in AnyStates \union {None}
      /\ state \in AnyStates /\ state.changes \in Nat /\ seqno \in Nat
      /\ obj[j].view # None => obj[j].view.changes \in Nat
  BY DEF OrderInv, Types, AnyObjects, AnyStates
<1>1. obj' = obj
  BY DEF ServerStep, HandleJoin, HandleLeave, HandleRequest, Accept, ServerEnds, clients
<1>2. Advances(j)
  BY <1>0, <1>1 DEF Advances
<1>3. CASE HandleJoin(k)
  <2> DEFINE f == FactionFor(Head(up[k]).faction)
             m == Joined(k, f)
             news == Update(seqno, state)
  <2>1. state' = state
    BY <1>3 DEF HandleJoin
  <2>2. news \in AnyDownMessages /\ news.type = "update" /\ news.state = state
    BY <1>0, UpdateType DEF Update
  <2>3. CASE down'[j] = down[j]
    BY <1>0, <1>1, <2>1, <2>3, OrderUntouched
  <2>4. CASE down'[j] = Posts(j, <<news>>)
    <3>1. InOrder(Posts(j, <<news>>), obj[j].view, state.changes)
      BY <1>0, <2>2, OrderPosted
    <3> QED BY <1>1, <1>2, <2>1, <2>4, <3>1
  <2>5. ASSUME f # None, k \in served, down'[j] \in {Posts(j, <<m>>), Posts(j, <<m, news>>)}
        PROVE  InOrder(down[j], obj[j].view, state.changes)'
    <3>1. m \in AnyDownMessages /\ m.type = "joined"
      BY <1>0, <2>5, JoinedType, FactionForFree DEF Types, Joined
    <3> HIDE DEF m, news
    <3>2. InOrder(Posts(j, <<m>>), obj[j].view, state.changes)
      BY <1>0, <3>1, OrderPosted
    <3>3. CASE Listening(j)
      <4>1. Posts(j, <<m>>) = Append(down[j], m)
        BY <1>0, <3>1, <3>3 DEF Posts
      <4>2. /\ Append(down[j], m) \in Seq(AnyDownMessages)
            /\ Posts(j, <<m, news>>) = Append(Append(down[j], m), news)
        BY <1>0, <2>2, <3>1, <3>3, TwoAppended DEF Posts
      <4>3. InOrder(Append(down[j], m), obj[j].view, state.changes)
        BY <3>2, <4>1
      <4>4. InOrder(Append(Append(down[j], m), news), obj[j].view, state.changes)
        <5> DEFINE q == Append(down[j], m)
                   n == state.changes
        <5>1. q \in Seq(AnyDownMessages) /\ InOrder(q, obj[j].view, n) /\ n \in Nat /\ n <= n
          BY <1>0, <4>2, <4>3
        <5>2. news.type = "update" => news.state.changes = n
          BY <2>2
        <5> HIDE DEF q, n
        <5>3. InOrder(Append(q, news), obj[j].view, n)
          BY <1>0, <2>2, <5>1, <5>2, OrderAppended
        <5> QED BY <5>3 DEF q, n
      <4> QED BY <1>1, <2>1, <2>5, <3>2, <4>2, <4>4
    <3>4. CASE ~Listening(j)
      BY <1>1, <2>1, <2>5, <3>2, <3>4 DEF Posts
    <3> QED BY <3>3, <3>4
  <2>6. \/ down'[j] = down[j] \/ down'[j] = Posts(j, <<news>>)
        \/ f # None /\ k \in served /\ down'[j] \in {Posts(j, <<m>>), Posts(j, <<m, news>>)}
    <3>1. CASE players[k] # None
      <4>1. down' = [down EXCEPT ![k] = Posts(k, <<news>>)]
        BY <1>3, <3>1 DEF HandleJoin
      <4> QED BY <1>0, <4>1 DEF Types
    <3>2. CASE players[k] = None /\ f = None
      BY <1>3, <3>2 DEF HandleJoin
    <3>3. CASE players[k] = None /\ f # None
      <4>1. down' = Welcomes(k, f) /\ k \in served
        BY <1>3, <3>3 DEF HandleJoin, Receives
      <4> QED BY <3>3, <4>1 DEF Welcomes
    <3> QED BY <3>1, <3>2, <3>3
  <2> QED BY <1>2, <2>3, <2>4, <2>5, <2>6
<1>4. CASE HandleRequest(k)
  <2>1. CASE UNCHANGED <<seqno, state, down>>
    BY <1>0, <1>1, <2>1, OrderUntouched
  <2>2. CASE ~UNCHANGED <<seqno, state, down>>
    <3>1. /\ Head(up[k]).type \in Requests
          /\ state' \in Outcomes(Head(up[k]).type)
          /\ down' = Broadcasts(seqno + 1, state')
      BY <1>4, <2>2 DEF HandleRequest, Receives
    <3>2. state' \in AnyStates /\ state'.changes = state.changes + 1
      <4>1. state' \in AnyStates
        BY <1>0, <3>1, OutcomesType
      <4>2. PICK g : state' = [turn |-> g, changes |-> state.changes + 1]
        BY <3>1 DEF Outcomes
      <4> QED BY <4>1, <4>2
    <3> DEFINE news == Update(seqno + 1, state')
    <3>3. news \in AnyDownMessages /\ news.type = "update" /\ news.state = state'
      <4>1. seqno + 1 \in Nat
        BY <1>0
      <4> QED BY <3>2, <4>1, UpdateType DEF Update
    <3>4. state'.changes \in Nat /\ state.changes <= state'.changes
      BY <1>0, <3>2
    <3>5. CASE players[j] = None
      <4>1. down'[j] = down[j]
        BY <3>1, <3>5 DEF Broadcasts
      <4> QED BY <1>1, <3>4, <4>1, OrderUntouched
    <3>6. CASE players[j] # None
      <4>1. down'[j] = Posts(j, <<news>>)
        BY <3>1, <3>6 DEF Broadcasts
      <4> HIDE DEF news
      <4>2. InOrder(Posts(j, <<news>>), obj[j].view, state'.changes)
        BY <3>3, <3>4, OrderPosted
      <4> QED BY <1>1, <1>2, <4>1, <4>2
    <3> QED BY <3>5, <3>6
  <2> QED BY <2>1, <2>2
<1>5. CASE HandleLeave(k) \/ Accept(k) \/ ServerEnds(k)
  <2>1. state' = state /\ down' = down
    BY <1>5 DEF HandleLeave, Accept, ServerEnds, network
  <2> QED BY <1>0, <1>1, <2>1, OrderUntouched
<1> QED BY <1>3, <1>4, <1>5 DEF ServerStep

LEMMA OrderClient ==
    ASSUME OrderInv, Types', NEW j \in Conns,
           \/ \E k \in Conns : BrowserStep(k) \/ Cut(k)
           \/ \E u \in Users : UserStep(u)
    PROVE  InOrder(down[j], obj[j].view, state.changes)' /\ Advances(j)
<1>0. /\ Types /\ down[j] \in Seq(AnyDownMessages) /\ obj[j] \in AnyObjects
      /\ obj[j].view \in AnyStates \union {None} /\ state.changes \in Nat
      /\ InOrder(down[j], obj[j].view, state.changes)
  BY DEF OrderInv, Types, AnyObjects, AnyStates
<1>1. state' = state
  BY DEF BrowserStep, OnOpen, OnMessage, OnClose, OnError, Gone, BrowserNotices,
         ConnectionHealthTick, Cut, UserStep, GameConnect, GameDisconnect, SendRequest, server
<1> DEFINE Still == obj'[j].view = obj[j].view /\ down'[j] \in {down[j], <<>>}
           Forgets == /\ obj'[j].view = None /\ obj'[j].conn # "CONNECTED"
                      /\ down'[j] \in {down[j], <<>>}
<1>2. Still => InOrder(down[j], obj[j].view, state.changes)' /\ Advances(j)
  BY <1>0, <1>1, OrderUntouched
<1>3. Forgets => InOrder(down[j], obj[j].view, state.changes)' /\ Advances(j)
  BY <1>1, OrderForgotten
<1>4. ASSUME NEW k \in Conns, OnOpen(k) \/ BrowserNotices(k) \/ Cut(k)
      PROVE  Still
  <2>1. down'[j] \in {down[j], <<>>}
    BY <1>0, <1>4 DEF OnOpen, BrowserNotices, Cut, Types
  <2>2. obj' = obj \/ obj' = [obj EXCEPT ![k].socket = "CLOSING"]
          \/ obj' = [obj EXCEPT ![k].conn = "CONNECTED", ![k].socket = "OPEN"]
    BY <1>4 DEF OnOpen, BrowserNotices, Cut, clients
  <2>3. \/ obj'[j] = obj[j] \/ obj'[j] = [obj[j] EXCEPT !.socket = "CLOSING"]
        \/ obj'[j] = [obj[j] EXCEPT !.conn = "CONNECTED", !.socket = "OPEN"]
    BY <1>0, <2>2 DEF Types
  <2>4. obj'[j].view = obj[j].view
    BY <1>0, <2>3 DEF AnyObjects
  <2> QED BY <2>1, <2>4
<1>5. ASSUME NEW k \in Conns, OnMessage(k)
      PROVE  InOrder(down[j], obj[j].view, state.changes)' /\ Advances(j)
  <2>1. CASE j = k
    <3> DEFINE msg == Head(down[k])
    <3>1. msg \in AnyDownMessages /\ down[k] # <<>> /\ down'[k] = Tail(down[k])
      BY <1>0, <1>5, <2>1 DEF OnMessage, Types
    <3>2. obj'[k].view = IF msg.type = "update" THEN msg.state ELSE obj[k].view
      <4>1. CASE msg.type = "update"
        <5>1. obj'[k] = OnUpdate(obj[k], msg)
          BY <1>5, <4>1 DEF OnMessage, Types
        <5> QED BY <1>0, <2>1, <4>1, <5>1 DEF OnUpdate, AnyObjects
      <4>2. CASE msg.type = "joined"
        <5>1. obj'[k] = OnJoined(obj[k], msg, NameOf[owner[k]])
          BY <1>0, <1>5, <4>2 DEF OnMessage, Types
        <5> QED BY <1>0, <2>1, <4>2, <5>1 DEF OnJoined, AnyObjects
      <4> QED BY <3>1, <4>1, <4>2 DEF AnyDownMessages
    <3>3. /\ InOrder(Tail(down[j]), obj'[j].view, state.changes)
          /\ obj[j].view # None =>
                obj'[j].view # None /\ obj'[j].view.changes >= obj[j].view.changes
      <4> DEFINE q == down[j]
                 view == obj[j].view
                 after == obj'[j].view
      <4>1. /\ q \in Seq(AnyDownMessages) /\ q # <<>> /\ view \in AnyStates \union {None}
            /\ InOrder(q, view, state.changes)
            /\ after = IF Head(q).type = "update" THEN Head(q).state ELSE view
        BY <1>0, <2>1, <3>1, <3>2
      <4> HIDE DEF q, view, after
      <4>2. /\ InOrder(Tail(q), after, state.changes)
            /\ view # None => after # None /\ after.changes >= view.changes
        BY <1>0, <4>1, OrderTaken
      <4> QED BY <4>2 DEF q, view, after
    <3> QED BY <1>1, <2>1, <3>1, <3>3 DEF Advances
  <2>2. CASE j # k
    <3>1. Still
      BY <1>0, <1>5, <2>2 DEF OnMessage, Types
    <3> QED BY <1>2, <3>1
  <2> QED BY <2>1, <2>2
<1>6. ASSUME NEW k \in Conns, OnClose(k) \/ OnError(k) \/ ConnectionHealthTick(k)
      PROVE  Still \/ Forgets
  <2>1. CASE j # k
    BY <1>0, <1>6, <2>1 DEF OnClose, OnError, Gone, ConnectionHealthTick, network, Types
  <2>2. CASE j = k /\ (OnClose(k) \/ OnError(k))
    <3>1. obj'[j] = [NewObject EXCEPT !.socket = "CLOSED"] /\ down'[j] = <<>>
      BY <1>0, <2>2 DEF OnClose, OnError, Gone, Types
    <3> QED BY <3>1 DEF NewObject
  <2>3. CASE j = k /\ ConnectionHealthTick(k)
    <3>1. obj'[j] = Disconnected(obj[j]) /\ down' = down
      BY <1>0, <2>3 DEF ConnectionHealthTick, network, Types
    <3> QED BY <3>1 DEF Disconnected, NewObject
  <2> QED BY <1>6, <2>1, <2>2, <2>3
<1>7. ASSUME NEW u \in Users, GameConnect(u) \/ GameDisconnect(u)
      PROVE  Still \/ Forgets
  <2>1. CASE GameDisconnect(u)
    <3>1. down'[j] \in {down[j], <<>>}
      BY <1>0, <2>1 DEF GameDisconnect, Types
    <3>2. obj'[j] = IF j = user[u].current THEN Disconnected(obj[j]) ELSE obj[j]
      BY <2>1 DEF GameDisconnect, DropClient
    <3> QED BY <3>1, <3>2 DEF Disconnected, NewObject
  <2>2. CASE GameConnect(u)
    <3> DEFINE o == [obj EXCEPT ![opened + 1] = Connecting(@)]
    <3>1. down'[j] \in {down[j], <<>>}
      BY <2>2 DEF GameConnect
    <3>2. obj'[j] = IF j = user[u].current THEN Disconnected(o[j]) ELSE o[j]
      BY <2>2 DEF GameConnect, DropClient
    <3>3. o[j].view = obj[j].view
      BY <1>0 DEF Connecting, Types, AnyObjects
    <3> QED BY <3>1, <3>2, <3>3 DEF Disconnected, NewObject
  <2> QED BY <1>7, <2>1, <2>2
<1>8. ASSUME NEW u \in Users, NEW type \in Requests, SendRequest(u, type)
      PROVE  Still
  BY <1>8 DEF SendRequest, clients
<1> QED BY <1>2, <1>3, <1>4, <1>5, <1>6, <1>7, <1>8 DEF BrowserStep, UserStep

LEMMA OrderStep ==
    ASSUME OrderInv, [Next]_vars
    PROVE  OrderInv' /\ \A k \in Conns : Advances(k)
<1>1. Types'
  BY TypesStep DEF OrderInv
<1>2. ASSUME NEW j \in Conns
      PROVE  InOrder(down[j], obj[j].view, state.changes)' /\ Advances(j)
  <2>1. CASE UNCHANGED vars
    <3>1. state.changes \in Nat /\ UNCHANGED <<obj, down, state>>
      BY <2>1 DEF vars, OrderInv, Types, AnyStates
    <3> QED BY <1>1, <3>1, OrderUntouched
  <2> QED BY <1>1, <2>1, OrderServer, OrderClient DEF Next
<1> QED BY <1>1, <1>2 DEF OrderInv

\* What a client shows never goes back to an older state, whoever joins and whatever is
\* lost, and though updates and welcomes are sent from different handlers
\* (GameServer._handle_join_game, _broadcast_state_update, BrowserWebSocketClient).
THEOREM ViewsAdvance == Spec => ViewAdvances
<1>1. Init => OrderInv
  BY TypesInit DEF Init, NewObject, OrderInv, InOrder
<1>2. OrderInv /\ [Next]_vars => OrderInv'
  BY OrderStep
<1>3. OrderInv /\ [Next]_vars =>
        [\A k \in Conns :
            obj[k].view # None /\ obj'[k].conn = "CONNECTED" =>
                /\ obj'[k].view # None
                /\ obj'[k].view.changes >= obj[k].view.changes]_vars
  BY OrderStep DEF Advances
<1> QED BY <1>1, <1>2, <1>3, PTL DEF Spec, ViewAdvances
=============================================================================
