--------------------------- MODULE ChatRoomsProofs ---------------------------
(***************************************************************************)
(* Theorems about ChatRooms for any users, sockets in any namespaces,       *)
(* chats, pages, messages and number of events in flight.                   *)
(***************************************************************************)
EXTENDS ChatRooms, FiniteSetTheorems, SequenceTheorems, WellFoundedInduction, TLAPS

-----------------------------------------------------------------------------
(* Pages of a list, latest first.                                           *)

Rank(ids, i) == Cardinality(Before(ids, "DESC", i))

LEMMA RankType ==
  ASSUME NEW ids \in SUBSET Nat, IsFiniteSet(ids), NEW i
  PROVE  Rank(ids, i) \in Nat /\ IsFiniteSet(Before(ids, "DESC", i))
<1>1. Before(ids, "DESC", i) \subseteq ids
  BY DEF Before
<1> QED
  BY <1>1, FS_Subset, FS_CardinalityType DEF Rank

\* Rows that are added put a row further back, never to the front.
LEMMA RankGrows ==
  ASSUME NEW more \in SUBSET Nat, IsFiniteSet(more), NEW ids \in SUBSET more, NEW i
  PROVE  Rank(ids, i) <= Rank(more, i)
<1>1. Before(ids, "DESC", i) \subseteq Before(more, "DESC", i)
  BY DEF Before
<1> QED
  BY <1>1, RankType, FS_Subset DEF Rank

\* Numbers have a least one.
LEMMA Least ==
  ASSUME NEW S \in SUBSET Nat, S # {}
  PROVE  \E x \in S : \A y \in S : x <= y
<1>1. PICK x \in S : \A y \in S : ~ (<<y, x>> \in OpToRel(<, Nat))
  BY NatLessThanWellFounded, WFMin
<1>2. \A y \in S : y < x => <<y, x>> \in OpToRel(<, Nat)
  BY DEF OpToRel
<1>3. \A y \in S : ~ (y < x)
  BY <1>1, <1>2
<1> QED
  BY <1>3

\* The row just before a row has one rank less.
LEMMA RankBefore ==
  ASSUME NEW ids \in SUBSET Nat, IsFiniteSet(ids), NEW i \in ids, Rank(ids, i) # 0
  PROVE  \E j \in ids : Rank(ids, i) = Rank(ids, j) + 1
<1> DEFINE B == Before(ids, "DESC", i)
<1>1. B # {} /\ B \in SUBSET Nat /\ B \subseteq ids
  BY FS_EmptySet DEF Rank, Before
<1>2. PICK j \in B : \A n \in B : j <= n
  BY <1>1, Least
<1>3. Before(ids, "DESC", i) = Before(ids, "DESC", j) \cup {j} /\ j \notin Before(ids, "DESC", j)
  <2>1. j \in ids /\ j > i
    BY <1>2 DEF Before
  <2>2. \A n \in ids : n > i <=> n > j \/ n = j
    BY <1>2, <2>1 DEF Before
  <2>3. {n \in ids : n > i} = {n \in ids : n > j} \cup {j}
    BY <2>1, <2>2
  <2> QED
    BY <2>1, <2>3 DEF Before
<1>4. Rank(ids, i) = Rank(ids, j) + 1
  BY <1>3, RankType, FS_AddElement DEF Rank
<1> QED
  BY <1>1, <1>4

\* No rank is left out: a row far back has a row before it at every rank.
LEMMA NoGap ==
  ASSUME NEW ids \in SUBSET Nat, IsFiniteSet(ids), NEW i \in ids, NEW k \in Nat,
         k <= Rank(ids, i)
  PROVE  \E j \in ids : Rank(ids, j) = k
<1> DEFINE R == {n \in Nat : k <= n /\ \E j \in ids : Rank(ids, j) = n}
<1>1. R # {} /\ R \in SUBSET Nat
  BY RankType
<1>2. PICK n \in R : \A m \in R : n <= m
  BY <1>1, Least
<1>3. PICK j \in ids : Rank(ids, j) = n
  BY <1>2
<1>4. ASSUME n # k
      PROVE  FALSE
  <2>1. PICK a \in ids : n = Rank(ids, a) + 1
    BY <1>2, <1>3, <1>4, RankBefore
  <2>2. Rank(ids, a) \in R
    BY <1>2, <1>4, <2>1, RankType
  <2> QED
    BY <1>2, <2>1, <2>2, RankType
<1> QED
  BY <1>3, <1>4

LEMMA SkipNext ==
  ASSUME NEW take \in Nat, NEW page \in Nat \ {0}
  PROVE  /\ Skip(take, page) \in Nat
         /\ Skip(take, page + 1) = Skip(take, page) + take
         /\ Skip(take, 1) = 0
<1>1. \A n \in Nat : take * n \in Nat /\ take * (n + 1) = take * n + take /\ take * 0 = 0
  OBVIOUS
<1>2. page - 1 \in Nat /\ (page - 1) + 1 = page /\ (page + 1) - 1 = page /\ 1 - 1 = 0
  OBVIOUS
<1>3. take * page = take * (page - 1) + take
  BY <1>1, <1>2
<1> QED
  BY <1>1, <1>2, <1>3 DEF Skip

\* A row that no page before has shown is on the page, or no later page before
\* the next one can have shown it; an empty page is the end of the list.
LEMMA PageAdvances ==
  ASSUME NEW ids \in SUBSET Nat, IsFiniteSet(ids), NEW page \in Nat \ {0}, NEW i \in ids,
         Skip(Take, page) <= Rank(ids, i)
  PROVE  /\ i \in PageOf(ids, "DESC", Take, page) \/ Skip(Take, page + 1) <= Rank(ids, i)
         /\ PageOf(ids, "DESC", Take, page) # {}
<1> DEFINE skip == Skip(Take, page)
<1>0. /\ Take \in Nat \ {0} /\ skip \in Nat /\ Skip(Take, page + 1) = skip + Take
      /\ Rank(ids, i) \in Nat
  BY ChatAssumption, SkipNext, RankType
<1>1. PageOf(ids, "DESC", Take, page) = {j \in ids : Rank(ids, j) \in skip .. skip + Take - 1}
  BY DEF PageOf, Rank
<1> HIDE DEF skip
<1>2. i \in PageOf(ids, "DESC", Take, page) \/ Skip(Take, page + 1) <= Rank(ids, i)
  BY <1>0, <1>1 DEF skip
<1>3. PICK j \in ids : Rank(ids, j) = skip
  BY <1>0, NoGap DEF skip
<1>4. j \in PageOf(ids, "DESC", Take, page)
  BY <1>0, <1>1, <1>3
<1> QED
  BY <1>2, <1>4

-----------------------------------------------------------------------------
(* Types.                                                                   *)

\* An event that is about to go out announces a message that is stored, with the
\* chat and the sender it was stored with.
Announces(q) ==
  q.pc = "emit" =>
    q.id \in DOMAIN messages /\ messages[q.id] = [chat |-> q.chat, from |-> q.socket]

TInv == TypeOK /\ \A r \in Request : Announces(req[r])

LEMMA IdleType == Idle \in RequestState /\ NoReader \in Reader
<1>1. PICK s \in Socket : UserOf[s] \in User
  BY ChatAssumption
<1>2. /\ (CHOOSE x \in Socket : TRUE) \in Socket
      /\ (CHOOSE c \in Chat : TRUE) \in Chat
      /\ (CHOOSE u \in User : TRUE) \in User
  BY <1>1, ChatAssumption
<1> QED
  BY <1>2 DEF Idle, RequestState, NoReader, Reader

\* What a step leaves of the types when it changes the events in flight only, and
\* none of them comes to announce a message.
LEMMA MoveType ==
  ASSUME TInv, NEW r \in Request, NEW p \in RequestState, p.pc # "emit",
         req' = [req EXCEPT ![r] = p],
         messages' = messages
  PROVE  req' \in [Request -> RequestState] /\ (\A a \in Request : Announces(req[a]))'
<1>1. req \in [Request -> RequestState]
  BY DEF TInv, TypeOK
<1>2. req' \in [Request -> RequestState]
  BY <1>1
<1>3. ASSUME NEW a \in Request
      PROVE  Announces(req[a])'
  <2>1. CASE a = r
    BY <1>1, <2>1 DEF Announces
  <2>2. CASE a # r
    <3>1. req'[a] = req[a]
      BY <1>1, <2>2
    <3> QED
      BY <3>1 DEF TInv, Announces
  <2> QED
    BY <2>1, <2>2
<1> QED
  BY <1>2, <1>3

\* Requests that begin
LEMMA BeginType ==
  ASSUME NEW s \in Socket, NEW c \in Chat, NEW u \in User,
         NEW pc \in {"connect", "join", "kickTarget", "leaveRemove", "save"}
  PROVE  /\ [Idle EXCEPT !.pc = pc, !.socket = s, !.chat = c] \in RequestState
         /\ [Idle EXCEPT !.pc = pc, !.socket = s, !.chat = c].pc # "emit"
         /\ [Idle EXCEPT !.pc = pc, !.socket = s, !.chat = c, !.target = u] \in RequestState
         /\ [Idle EXCEPT !.pc = pc, !.socket = s, !.chat = c, !.target = u].pc # "emit"
BY IdleType DEF RequestState

LEMMA TypeInit == Init => TInv
<1> SUFFICES ASSUME Init
             PROVE  TInv
  OBVIOUS
<1> USE DEF Init
<1>1. \E chats \in SUBSET Chat : users \in [chats -> SUBSET User]
  BY ChatAssumption
<1>2. online \subseteq Socket /\ room \in [Chat -> SUBSET online]
  OBVIOUS
<1>3. messages \in Seq(Message) /\ heard \in [Socket -> SUBSET DOMAIN messages]
  OBVIOUS
<1>4. reader \in [Socket -> Reader] /\ req \in [Request -> RequestState]
  BY IdleType
<1>5. fails \in 0 .. MaxFails
  BY ChatAssumption
<1>6. \A r \in Request : Announces(req[r])
  BY DEF Announces, Idle
<1> QED
  BY <1>1, <1>2, <1>3, <1>4, <1>5, <1>6 DEF TInv, TypeOK

\* The steps of an event that touch neither the messages nor the readers.
LEMMA TypeEvent ==
  ASSUME TInv, NEW r \in Request, NEW s \in Socket, NEW c \in Chat, NEW u \in User,
         \/ HandleConnection(r, s) \/ EnterRoom(r, s, c) \/ LeaveRoom(r, s, c)
         \/ SendMessage(r, s, c) \/ KickOut(r, s, c, u) \/ Join(r) \/ KickTarget(r)
         \/ KickRemove(r) \/ LeaveRemove(r)
  PROVE  TInv'
<1> PICK q \in RequestState : q = req[r]
  BY DEF TInv, TypeOK
<1> USE IdleType
<1>1. TypeOK
  BY DEF TInv
<1>2. PICK chats \in SUBSET Chat : users \in [chats -> SUBSET User]
  BY <1>1 DEF TypeOK
<1>3. CASE HandleConnection(r, s)
  <2>1. NspOf[s] \in Chat
    BY ChatAssumption
  <2>2. req' \in [Request -> RequestState] /\ (\A a \in Request : Announces(req[a]))'
    BY <1>3, <2>1, MoveType, BeginType DEF HandleConnection, Begin, Move
  <2> QED
    BY <1>3, <2>2, <1>1 DEF HandleConnection, TypeOK, TInv
<1>4. CASE EnterRoom(r, s, c)
  <2>1. req' \in [Request -> RequestState] /\ (\A a \in Request : Announces(req[a]))'
    BY <1>4, MoveType, BeginType DEF EnterRoom, Begin, Move
  <2> QED
    BY <1>4, <2>1, <1>1 DEF EnterRoom, TypeOK, TInv
<1>5. CASE LeaveRoom(r, s, c)
  <2>1. req' \in [Request -> RequestState] /\ (\A a \in Request : Announces(req[a]))'
    BY <1>5, MoveType, BeginType DEF LeaveRoom, Begin, Move
  <2> QED
    BY <1>5, <2>1, <1>1 DEF LeaveRoom, TypeOK, TInv
<1>6. CASE SendMessage(r, s, c)
  <2>1. req' \in [Request -> RequestState] /\ (\A a \in Request : Announces(req[a]))'
    BY <1>6, MoveType, BeginType DEF SendMessage, Begin, Move
  <2> QED
    BY <1>6, <2>1, <1>1 DEF SendMessage, TypeOK, TInv
<1>7. CASE KickOut(r, s, c, u)
  <2>1. req' \in [Request -> RequestState] /\ (\A a \in Request : Announces(req[a]))'
    BY <1>7, MoveType, BeginType DEF KickOut, Begin, Move
  <2> QED
    BY <1>7, <2>1, <1>1 DEF KickOut, TypeOK, TInv
<1>8. CASE Join(r)
  <2>1. req' \in [Request -> RequestState] /\ (\A a \in Request : Announces(req[a]))'
    BY <1>8, MoveType DEF Join, Reply, Move, Idle
  <2>2. room' \in [Chat -> SUBSET online]
    BY <1>8, <1>1 DEF Join, TypeOK, RequestState
  <2> QED
    BY <1>8, <2>1, <2>2, <1>1 DEF Join, TypeOK, TInv
<1>9. CASE KickTarget(r)
  <2>1. [q EXCEPT !.pc = "kickRemove"] \in RequestState /\ [q EXCEPT !.pc = "kickRemove"].pc # "emit"
    BY DEF RequestState
  <2>2. req' \in [Request -> RequestState] /\ (\A a \in Request : Announces(req[a]))'
    BY <1>9, <2>1, MoveType DEF KickTarget, Reply, Move, Idle
  <2> QED
    BY <1>9, <2>2, <1>1 DEF KickTarget, TypeOK, TInv
<1>10. CASE KickRemove(r)
  <2>1. req' \in [Request -> RequestState] /\ (\A a \in Request : Announces(req[a]))'
    BY <1>10, MoveType DEF KickRemove, Reply, Move, Idle
  <2>2. users' \in [chats -> SUBSET User]
    BY <1>10, <1>2 DEF KickRemove
  <2>3. \E cs \in SUBSET Chat : users' \in [cs -> SUBSET User]
    BY <2>2
  <2> QED
    BY <1>10, <2>1, <2>3, <1>1 DEF KickRemove, TypeOK, TInv
<1>11. CASE LeaveRemove(r)
  <2>1. [q EXCEPT !.pc = "leave"] \in RequestState /\ [q EXCEPT !.pc = "leave"].pc # "emit"
    BY DEF RequestState
  <2>2. req' \in [Request -> RequestState] /\ (\A a \in Request : Announces(req[a]))'
    BY <1>11, <2>1, MoveType DEF LeaveRemove, Move
  <2>3. users' \in [chats -> SUBSET User]
    BY <1>11, <1>2 DEF LeaveRemove
  <2>4. \E cs \in SUBSET Chat : users' \in [cs -> SUBSET User]
    BY <2>3
  <2> QED
    BY <1>11, <2>2, <2>4, <1>1 DEF LeaveRemove, TypeOK, TInv
<1> QED
  BY <1>3, <1>4, <1>5, <1>6, <1>7, <1>8, <1>9, <1>10, <1>11

\* The steps of an event that touch the readers, the messages or the failures.
LEMMA TypeMessages ==
  ASSUME TInv, NEW r \in Request,
         Leave(r) \/ SaveMessage(r) \/ EmitMessage(r) \/ Fail(r)
  PROVE  TInv'
<1> PICK q \in RequestState : q = req[r]
  BY DEF TInv, TypeOK
<1> USE IdleType
<1>1. TypeOK /\ q.socket \in Socket /\ q.chat \in Chat /\ q.id \in Nat
  BY DEF TInv, RequestState
<1>2. CASE Leave(r)
  <2>1. req' \in [Request -> RequestState] /\ (\A a \in Request : Announces(req[a]))'
    BY <1>2, MoveType DEF Leave, Reply, Move, Idle
  <2>2. room' \in [Chat -> SUBSET online]
    BY <1>1, <1>2 DEF Leave, TypeOK
  <2>3. PICK p \in Reader : p = reader[q.socket]
    BY <1>1 DEF TypeOK
  <2>4. \A b \in BOOLEAN : [p EXCEPT !.inRoom = b] \in Reader
    BY DEF Reader
  <2>5. (p.inRoom /\ p.chat # q.chat) \in BOOLEAN
    BY DEF Reader
  <2>6. reader' = [reader EXCEPT ![q.socket] = [p EXCEPT !.inRoom = (p.inRoom /\ p.chat # q.chat)]]
    BY <1>1, <1>2, <2>3 DEF Leave, LeftRoom, TypeOK
  <2>7. reader' \in [Socket -> Reader]
    BY <1>1, <2>4, <2>5, <2>6 DEF TypeOK
  <2> QED
    BY <1>2, <2>1, <2>2, <2>7, <1>1 DEF Leave, TypeOK, TInv
<1>3. CASE SaveMessage(r)
  <2> DEFINE m == [chat |-> q.chat, from |-> q.socket]
             p == [q EXCEPT !.pc = "emit", !.id = Len(messages) + 1]
  <2>1. m \in Message
    BY <1>1 DEF Message
  <2>2. messages \in Seq(Message) /\ Len(messages) \in Nat
    BY <1>1 DEF TypeOK
  <2>3. messages' = Append(messages, m) /\ req' = [req EXCEPT ![r] = p]
    BY <1>3 DEF SaveMessage, Move
  <2>4. p \in RequestState /\ p.pc = "emit" /\ p.id = Len(messages) + 1 /\ p.chat = q.chat
        /\ p.socket = q.socket
    <3>1. \A n \in Nat : [q EXCEPT !.pc = "emit", !.id = n] \in RequestState
      BY DEF RequestState
    <3>2. Len(messages) + 1 \in Nat
      BY <2>2
    <3>3. p \in RequestState
      BY <3>1, <3>2
    <3> QED
      BY <3>3 DEF RequestState
  <2>5. /\ messages' \in Seq(Message)
        /\ DOMAIN messages \subseteq DOMAIN messages'
        /\ \A i \in DOMAIN messages : messages'[i] = messages[i]
        /\ Len(messages) + 1 \in DOMAIN messages' /\ messages'[Len(messages) + 1] = m
    BY <2>1, <2>2, <2>3
  <2> HIDE DEF p
  <2>6. req' \in [Request -> RequestState]
    BY <1>1, <2>3, <2>4 DEF TypeOK
  <2>7. ASSUME NEW a \in Request
        PROVE  Announces(req[a])'
    <3>1. CASE a = r
      <4>1. req'[a] = p
        BY <1>1, <2>3, <3>1 DEF TypeOK
      <4> QED
        BY <4>1, <2>4, <2>5 DEF Announces
    <3>2. CASE a # r
      <4>1. req'[a] = req[a]
        BY <1>1, <2>3, <3>2 DEF TypeOK
      <4> QED
        BY <4>1, <2>5 DEF TInv, Announces
    <3> QED
      BY <3>1, <3>2
  <2>8. heard' \in [Socket -> SUBSET DOMAIN messages']
    BY <1>1, <1>3, <2>5 DEF SaveMessage, TypeOK
  <2> QED
    BY <1>3, <2>5, <2>6, <2>7, <2>8, <1>1 DEF SaveMessage, TypeOK, TInv
<1>4. CASE EmitMessage(r)
  <2>1. req' \in [Request -> RequestState] /\ (\A a \in Request : Announces(req[a]))'
    BY <1>4, MoveType DEF EmitMessage, Reply, Move, Idle
  <2>2. q.id \in DOMAIN messages
    BY <1>4 DEF EmitMessage, At, TInv, Announces
  <2>3. heard' \in [Socket -> SUBSET DOMAIN messages]
    BY <1>4, <2>2, <1>1 DEF EmitMessage, TypeOK
  <2> QED
    BY <1>4, <2>1, <2>3, <1>1 DEF EmitMessage, TypeOK, TInv
<1>5. CASE Fail(r)
  <2>1. req' \in [Request -> RequestState] /\ (\A a \in Request : Announces(req[a]))'
    BY <1>5, MoveType DEF Fail, Reply, Move, Idle
  <2>2. fails' \in 0 .. MaxFails
    BY <1>5, <1>1, ChatAssumption DEF Fail, TypeOK
  <2> QED
    BY <1>5, <2>1, <2>2, <1>1 DEF Fail, TypeOK, TInv
<1> QED
  BY <1>2, <1>3, <1>4, <1>5

\* A process that ends leaves what is stored.
LEMMA TypeEnds ==
  ASSUME TInv, NEW r \in Request, RejectConnection(r) \/ FailConnection(r)
  PROVE  TInv'
<1>1. TypeOK /\ ProcessEnds
  BY DEF TInv, RejectConnection, FailConnection
<1>2. fails' \in 0 .. MaxFails
  BY <1>1, ChatAssumption DEF RejectConnection, FailConnection, TypeOK
<1>3. /\ online' \subseteq Socket /\ room' \in [Chat -> SUBSET online']
      /\ heard' \in [Socket -> SUBSET DOMAIN messages']
      /\ reader' \in [Socket -> Reader] /\ req' \in [Request -> RequestState]
      /\ messages' = messages /\ users' = users
  BY <1>1, IdleType DEF ProcessEnds
<1>4. \A a \in Request : Announces(req[a])'
  BY <1>1 DEF ProcessEnds, Announces, Idle
<1> QED
  BY <1>1, <1>2, <1>3, <1>4 DEF TypeOK, TInv

\* The pages a client has been given hold messages of the chat.
LEMMA PageType ==
  ASSUME TypeOK, NEW c, NEW page
  PROVE  /\ Ids(c) \in SUBSET DOMAIN messages /\ Ids(c) \in SUBSET Nat /\ IsFiniteSet(Ids(c))
         /\ PageOf(Ids(c), "DESC", Take, page) \subseteq Ids(c)
<1>1. Ids(c) \subseteq DOMAIN messages /\ DOMAIN messages = 1 .. Len(messages) /\ Len(messages) \in Nat
  BY DEF TypeOK, Ids
<1>2. IsFiniteSet(DOMAIN messages)
  BY <1>1, FS_Interval
<1> QED
  BY <1>1, <1>2, FS_Subset DEF PageOf

\* The steps of no event
LEMMA TypeOthers ==
  ASSUME TInv, NEW s \in Socket, NEW c \in Chat, NEW us \in SUBSET User, NEW u \in User,
         \/ Disconnect(s) \/ ReadPage(s) \/ StartReading(s, c)
         \/ CreateChat(c, us) \/ InviteChat(c, u)
  PROVE  TInv'
<1> USE IdleType
<1>1. TypeOK
  BY DEF TInv
<1>2. req' = req /\ messages' = messages
  BY DEF Disconnect, ReadPage, StartReading, CreateChat, InviteChat
<1>3. (\A a \in Request : Announces(req[a]))'
  BY <1>2 DEF TInv, Announces
<1>4. PICK chats \in SUBSET Chat : users \in [chats -> SUBSET User]
  BY <1>1 DEF TypeOK
<1>5. CASE Disconnect(s)
  <2>1. online' \subseteq Socket /\ room' \in [Chat -> SUBSET online']
    BY <1>5, <1>1 DEF Disconnect, TypeOK
  <2>2. heard' \in [Socket -> SUBSET DOMAIN messages'] /\ reader' \in [Socket -> Reader]
    BY <1>5, <1>1, <1>2 DEF Disconnect, TypeOK
  <2> QED
    BY <1>5, <1>1, <1>3, <2>1, <2>2 DEF Disconnect, TypeOK, TInv
<1>6. CASE ReadPage(s)
  <2>1. PICK q \in Reader : q = reader[s]
    BY <1>1 DEF TypeOK
  <2> DEFINE page == PageOf(Ids(q.chat), "DESC", Take, q.page)
             p == [q EXCEPT !.page = q.page + 1, !.seen = q.seen \cup page, !.done = (page = {})]
  <2>2. page \subseteq Nat
    BY <1>1, PageType
  <2>3. reader' = [reader EXCEPT ![s] = p]
    BY <1>6, <1>1, <2>1 DEF ReadPage, TypeOK
  <2> HIDE DEF page
  <2>4. p \in Reader
    <3>1. \A n \in Nat, seen \in SUBSET Nat, b \in BOOLEAN :
            [q EXCEPT !.page = n, !.seen = seen, !.done = b] \in Reader
      BY DEF Reader
    <3>2. q.page \in Nat /\ q.seen \in SUBSET Nat
      BY DEF Reader
    <3>3. q.page + 1 \in Nat
      BY <3>2
    <3>4. q.seen \cup page \in SUBSET Nat
      BY <2>2, <3>2
    <3>5. (page = {}) \in BOOLEAN
      OBVIOUS
    <3> QED
      BY <3>1, <3>3, <3>4, <3>5
  <2>5. reader' \in [Socket -> Reader]
    BY <1>1, <2>3, <2>4 DEF TypeOK
  <2> QED
    BY <1>6, <1>1, <1>3, <2>5 DEF ReadPage, TypeOK, TInv
<1>7. CASE StartReading(s, c)
  <2>1. [NoReader EXCEPT !.chat = c, !.page = 1, !.inRoom = s \in room[c]] \in Reader
    <3>1. \A n \in Nat, b \in BOOLEAN :
            [NoReader EXCEPT !.chat = c, !.page = n, !.inRoom = b] \in Reader
      BY DEF Reader
    <3>2. (s \in room[c]) \in BOOLEAN
      OBVIOUS
    <3> QED
      BY <3>1, <3>2
  <2>2. reader' \in [Socket -> Reader]
    BY <1>1, <1>7, <2>1 DEF StartReading, TypeOK
  <2> QED
    BY <1>7, <1>1, <1>3, <2>2 DEF StartReading, TypeOK, TInv
<1>8. CASE CreateChat(c, us)
  <2>1. chats \cup {c} \in SUBSET Chat /\ users' \in [chats \cup {c} -> SUBSET User]
    BY <1>4, <1>8 DEF CreateChat
  <2>2. \E cs \in SUBSET Chat : users' \in [cs -> SUBSET User]
    BY <2>1
  <2> QED
    BY <1>8, <1>1, <1>3, <2>2 DEF CreateChat, TypeOK, TInv
<1>9. CASE InviteChat(c, u)
  <2>1. users' \in [chats -> SUBSET User]
    BY <1>4, <1>9 DEF InviteChat
  <2>2. \E cs \in SUBSET Chat : users' \in [cs -> SUBSET User]
    BY <2>1
  <2> QED
    BY <1>9, <1>1, <1>3, <2>2 DEF InviteChat, TypeOK, TInv
<1> QED
  BY <1>5, <1>6, <1>7, <1>8, <1>9

LEMMA TypeStep == TInv /\ [Next]_vars => TInv'
<1> SUFFICES ASSUME TInv, [Next]_vars
             PROVE  TInv'
  OBVIOUS
<1>1. Socket # {} /\ Chat # {} /\ User # {} /\ Clients \subseteq Socket
  BY ChatAssumption
<1>2. ASSUME NEW r \in Request, NEW s \in Socket, NEW c \in Chat,
             \/ HandleConnection(r, s) \/ EnterRoom(r, s, c) \/ LeaveRoom(r, s, c)
             \/ SendMessage(r, s, c) \/ \E u \in User : KickOut(r, s, c, u)
      PROVE  TInv'
  BY <1>1, <1>2, TypeEvent
<1>3. ASSUME NEW r \in Request, Join(r) \/ KickTarget(r) \/ KickRemove(r) \/ LeaveRemove(r)
      PROVE  TInv'
  <2>1. PICK s \in Socket, c \in Chat, u \in User : TRUE
    BY <1>1
  <2> QED
    BY <1>3, TypeEvent
<1>4. ASSUME NEW r \in Request, Leave(r) \/ SaveMessage(r) \/ EmitMessage(r) \/ Fail(r)
      PROVE  TInv'
  BY <1>4, TypeMessages
<1>5. PICK s0 \in Socket, c0 \in Chat, u0 \in User : TRUE
  BY <1>1
<1>6. ASSUME NEW s \in Socket, Disconnect(s)
      PROVE  TInv'
  BY <1>5, <1>6, TypeOthers
<1>7. ASSUME NEW s \in Clients, ReadPage(s) \/ \E c \in Chat : StartReading(s, c)
      PROVE  TInv'
  BY <1>1, <1>5, <1>7, TypeOthers
<1>8. ASSUME NEW c \in Chat,
             (\E us \in SUBSET User : CreateChat(c, us)) \/ \E u \in User : InviteChat(c, u)
      PROVE  TInv'
  BY <1>5, <1>8, TypeOthers
<1>9. ASSUME NEW r \in Request, RejectConnection(r) \/ FailConnection(r)
      PROVE  TInv'
  BY <1>9, TypeEnds
<1>10. CASE UNCHANGED vars
  BY <1>10 DEF vars, TInv, TypeOK, Announces
<1>11. ASSUME NEW r \in Request, NEW s \in Socket, HandleConnection(r, s)
       PROVE  TInv'
  BY <1>2, <1>5, <1>11
<1> QED
  BY <1>2, <1>3, <1>4, <1>6, <1>7, <1>8, <1>9, <1>10, <1>11 DEF Next

\* In every state of the program every variable of the chats has its type.
THEOREM TypeCorrect == Spec => []TypeOK
<1>1. TInv => TypeOK
  BY DEF TInv
<1> QED
  BY <1>1, TypeInit, TypeStep, PTL DEF Spec

-----------------------------------------------------------------------------
(* What a client that stays in the room misses.                             *)

\* A client counted as in the room has begun to read, and its socket is there.
Listening ==
  \A s \in Socket : \A q \in {reader[s]} :
    q.inRoom => s \in Clients /\ s \in room[q.chat] /\ q.page > 0

\* A message from another namespace, which the socket s does not get.
Foreign(s, i) == NspOf[messages[i].from] # NspOf[s]

\* How the client of s has come by message i, or will, unless it is foreign.
Reached(s, q, i) ==
  i \in q.seen \cup heard[s] \/ messages[i].from = s \/ Pending(i) \/ Foreign(s, i)

\* No page the client has asked for reaches back as far as message i.
Ahead(q, i) == ~ q.done /\ Skip(Take, q.page) <= Rank(Ids(q.chat), i)

NothingLost ==
  fails = 0 =>
    \A s \in Socket : \A q \in {reader[s]} :
      q.inRoom => \A i \in Ids(q.chat) : Reached(s, q, i) \/ Ahead(q, i)

IInv == TInv /\ Listening /\ NothingLost

LEMMA ListeningMissesNothing == IInv => NothingMissed
<1> SUFFICES ASSUME IInv, fails = 0, NEW s \in online, reader[s].done, reader[s].inRoom,
                    NEW i \in Ids(reader[s].chat), NspOf[messages[i].from] = NspOf[s]
             PROVE  \/ i \in reader[s].seen \cup heard[s]
                    \/ messages[i].from = s
                    \/ Pending(i)
  BY DEF NothingMissed
<1>1. s \in Socket
  BY DEF IInv, TInv, TypeOK
<1> QED
  BY <1>1 DEF IInv, NothingLost, Reached, Foreign, Ahead

\* What an event that does not announce a message leaves pending
LEMMA PendingKept ==
  ASSUME TInv, NEW r \in Request, req[r].pc # "emit", NEW p, req' = [req EXCEPT ![r] = p]
  PROVE  \A i : Pending(i) => Pending(i)'
<1> SUFFICES ASSUME NEW i, NEW a \in Request, req[a].pc = "emit", req[a].id = i
             PROVE  Pending(i)'
  BY DEF Pending, At
<1>1. a # r /\ req'[a] = req[a]
  BY DEF TInv, TypeOK
<1> QED
  BY <1>1 DEF Pending, At

\* A step is quiet when the messages, the readers and what they have heard stay,
\* and nothing that is about to go out is lost.
LEMMA Quiet ==
  ASSUME Listening, NothingLost,
         reader' = reader, messages' = messages, heard' = heard, fails' = fails,
         \A c \in Chat : room[c] \subseteq room'[c],
         \A s \in Socket : reader[s].chat \in Chat,
         \A i : Pending(i) => Pending(i)'
  PROVE  Listening' /\ NothingLost'
<1>1. Listening'
  BY DEF Listening
<1>2. ASSUME fails' = 0, NEW s \in Socket, NEW q, q = reader[s], q.inRoom, NEW i \in Ids(q.chat)'
      PROVE  (Reached(s, q, i) \/ Ahead(q, i))'
  <2>1. i \in Ids(q.chat) /\ Ids(q.chat)' = Ids(q.chat)
    BY <1>2 DEF Ids
  <2>2. Reached(s, q, i) \/ Ahead(q, i)
    BY <1>2, <2>1 DEF NothingLost
  <2>3. Reached(s, q, i) => Reached(s, q, i)'
    BY DEF Reached, Foreign
  <2>4. Ahead(q, i) => Ahead(q, i)'
    BY <2>1 DEF Ahead, Rank
  <2> QED
    BY <2>2, <2>3, <2>4
<1> QED
  BY <1>1, <1>2 DEF NothingLost

LEMMA MissesInit == Init => Listening /\ NothingLost
BY DEF Init, Listening, NothingLost, NoReader

LEMMA MissesEvent ==
  ASSUME IInv, NEW r \in Request, NEW s \in Socket, NEW c \in Chat, NEW u \in User,
         \/ HandleConnection(r, s) \/ EnterRoom(r, s, c) \/ LeaveRoom(r, s, c)
         \/ SendMessage(r, s, c) \/ KickOut(r, s, c, u) \/ Join(r) \/ KickTarget(r)
         \/ KickRemove(r) \/ LeaveRemove(r)
  PROVE  Listening' /\ NothingLost'
<1> USE DEF Move, Reply, Begin, At
<1>1. /\ TInv /\ Listening /\ NothingLost
      /\ \A a \in Socket : reader[a].chat \in Chat
      /\ room \in [Chat -> SUBSET online]
  BY DEF IInv, TInv, TypeOK, Reader
<1>2. reader' = reader /\ messages' = messages /\ heard' = heard /\ fails' = fails
  BY DEF HandleConnection, EnterRoom, LeaveRoom, SendMessage, KickOut, Join, KickTarget,
         KickRemove, LeaveRemove
<1>3. \A d \in Chat : room[d] \subseteq room'[d]
  BY <1>1 DEF HandleConnection, EnterRoom, LeaveRoom, SendMessage, KickOut, Join, KickTarget,
              KickRemove, LeaveRemove
<1>4. \A i : Pending(i) => Pending(i)'
  <2>1. CASE req' = req
    BY <2>1 DEF Pending
  <2>2. CASE req[r].pc # "emit" /\ \E p : req' = [req EXCEPT ![r] = p]
    BY <1>1, <2>2, PendingKept
  <2>3. req' = req \/ (req[r].pc # "emit" /\ \E p : req' = [req EXCEPT ![r] = p])
    BY DEF HandleConnection, EnterRoom, LeaveRoom, SendMessage, KickOut, Join, KickTarget,
           KickRemove, LeaveRemove
  <2> QED
    BY <2>1, <2>2, <2>3
<1> QED
  BY <1>1, <1>2, <1>3, <1>4, Quiet

\* A socket that leaves the room of a chat is no longer counted on for it.
LEMMA MissesLeave ==
  ASSUME IInv, NEW r \in Request, Leave(r)
  PROVE  Listening' /\ NothingLost'
<1> PICK p \in RequestState : p = req[r]
  BY DEF IInv, TInv, TypeOK
<1>1. TInv /\ TypeOK /\ Listening /\ NothingLost /\ p.socket \in Socket /\ p.chat \in Chat
  BY DEF IInv, TInv, RequestState
<1>2. \A i : Pending(i) => Pending(i)'
  BY <1>1, PendingKept DEF Leave, Reply, Move, At
<1>3. /\ messages' = messages /\ heard' = heard /\ fails' = fails
      /\ room' = [room EXCEPT ![p.chat] = @ \ {p.socket}]
  BY DEF Leave
<1>4. ASSUME NEW s \in Socket, NEW q, q = reader'[s], q.inRoom
      PROVE  q = reader[s] /\ (s # p.socket \/ q.chat # p.chat)
  <2>1. CASE s = p.socket
    <3>1. PICK o \in Reader : o = reader[s]
      BY <1>1 DEF TypeOK
    <3>2. q = [o EXCEPT !.inRoom = (o.inRoom /\ o.chat # p.chat)]
      BY <1>1, <1>4, <2>1, <3>1 DEF Leave, LeftRoom, TypeOK
    <3>3. o.inRoom /\ o.chat # p.chat
      BY <1>4, <3>2 DEF Reader
    <3>4. o.inRoom = TRUE /\ q.inRoom = TRUE
      BY <3>2, <3>3 DEF Reader
    <3>5. q = o
      BY <3>2, <3>4, <3>3 DEF Reader
    <3> QED
      BY <3>1, <3>3, <3>5
  <2>2. CASE s # p.socket
    BY <1>1, <1>4, <2>2 DEF Leave, LeftRoom, TypeOK
  <2> QED
    BY <2>1, <2>2
<1>5. Listening'
  <2> SUFFICES ASSUME NEW s \in Socket, NEW q, q = reader'[s], q.inRoom
               PROVE  s \in Clients /\ s \in room'[q.chat] /\ q.page > 0
    BY DEF Listening
  <2>1. q = reader[s] /\ (s # p.socket \/ q.chat # p.chat)
    BY <1>4
  <2>2. s \in Clients /\ s \in room[q.chat] /\ q.page > 0 /\ q.chat \in Chat
    BY <1>1, <2>1 DEF Listening, TypeOK, Reader
  <2> QED
    BY <1>1, <1>3, <2>1, <2>2 DEF TypeOK
<1>6. ASSUME fails' = 0, NEW s \in Socket, NEW q, q = reader'[s], q.inRoom, NEW i \in Ids(q.chat)'
      PROVE  (Reached(s, q, i) \/ Ahead(q, i))'
  <2>1. i \in Ids(q.chat) /\ Ids(q.chat)' = Ids(q.chat)
    BY <1>3, <1>6 DEF Ids
  <2>2. Reached(s, q, i) \/ Ahead(q, i)
    BY <1>1, <1>3, <1>4, <1>6, <2>1 DEF NothingLost
  <2>3. Reached(s, q, i) => Reached(s, q, i)'
    BY <1>2, <1>3 DEF Reached, Foreign
  <2>4. Ahead(q, i) => Ahead(q, i)'
    BY <2>1 DEF Ahead, Rank
  <2> QED
    BY <2>2, <2>3, <2>4
<1> QED
  BY <1>5, <1>6 DEF NothingLost

\* A message that is stored is about to go out, and pushes the others back.
LEMMA MissesSave ==
  ASSUME IInv, NEW r \in Request, SaveMessage(r)
  PROVE  Listening' /\ NothingLost'
<1> PICK p \in RequestState : p = req[r]
  BY DEF IInv, TInv, TypeOK
<1> PICK n : n = Len(messages) + 1
  OBVIOUS
<1>1. TInv /\ TypeOK /\ Listening /\ NothingLost /\ TypeOK'
  <2>1. TInv'
    BY TypeMessages DEF IInv
  <2> QED
    BY <2>1 DEF IInv, TInv
<1>2. /\ reader' = reader /\ heard' = heard /\ fails' = fails /\ room' = room
      /\ messages' = Append(messages, [chat |-> p.chat, from |-> p.socket])
      /\ req' = [req EXCEPT ![r] = [p EXCEPT !.pc = "emit", !.id = n]]
  BY DEF SaveMessage, Move
<1>3. /\ DOMAIN messages' = DOMAIN messages \cup {n}
      /\ \A i \in DOMAIN messages : messages'[i] = messages[i]
  BY <1>1, <1>2 DEF TypeOK
<1>4. Pending(n)'
  <2>1. req'[r] = [p EXCEPT !.pc = "emit", !.id = n]
    BY <1>1, <1>2 DEF TypeOK
  <2>2. req'[r].pc = "emit" /\ req'[r].id = n
    BY <2>1 DEF RequestState
  <2> QED
    BY <2>2 DEF Pending, At
<1>5. \A i : Pending(i) => Pending(i)'
  BY <1>1, <1>2, PendingKept DEF SaveMessage, At
<1>6. \A c : Ids(c)' \in SUBSET Nat /\ IsFiniteSet(Ids(c)')
  <2>1. DOMAIN messages' = 1 .. Len(messages') /\ Len(messages') \in Nat
    BY <1>1 DEF TypeOK
  <2>2. IsFiniteSet(DOMAIN messages') /\ DOMAIN messages' \in SUBSET Nat
    <3>1. \A k \in Nat : IsFiniteSet(1 .. k) /\ 1 .. k \in SUBSET Nat
      BY FS_Interval
    <3> QED
      BY <2>1, <3>1
  <2>3. \A c : Ids(c)' \subseteq DOMAIN messages'
    BY DEF Ids
  <2> QED
    BY <2>2, <2>3, FS_Subset
<1>7. Listening'
  BY <1>1, <1>2 DEF Listening
<1>8. ASSUME fails' = 0, NEW s \in Socket, NEW q, q = reader[s], q.inRoom, NEW i \in Ids(q.chat)'
      PROVE  (Reached(s, q, i) \/ Ahead(q, i))'
  <2>1. CASE i = n
    BY <1>4, <2>1 DEF Reached, Foreign
  <2>2. CASE i # n
    <3>1. i \in DOMAIN messages /\ i \in Ids(q.chat)
      BY <1>3, <1>8, <2>2 DEF Ids
    <3>2. Reached(s, q, i) \/ Ahead(q, i)
      BY <1>1, <1>2, <1>8, <3>1 DEF NothingLost
    <3>3. Reached(s, q, i) => Reached(s, q, i)'
      BY <1>2, <1>3, <1>5, <3>1 DEF Reached, Foreign
    <3>4. Rank(Ids(q.chat), i) <= Rank(Ids(q.chat)', i)
      <4>1. Ids(q.chat) \subseteq Ids(q.chat)'
        BY <1>3 DEF Ids
      <4> QED
        BY <1>6, <4>1, RankGrows
    <3>5. Ahead(q, i) => Ahead(q, i)'
      <4>1. Rank(Ids(q.chat), i) \in Nat /\ Rank(Ids(q.chat)', i) \in Nat
        BY <1>1, <1>6, PageType, RankType
      <4>2. q.page \in Nat \ {0}
        BY <1>1, <1>8 DEF Listening, TypeOK, Reader
      <4>3. Skip(Take, q.page) \in Nat
        BY <4>2, SkipNext, ChatAssumption
      <4>4. Skip(Take, q.page) <= Rank(Ids(q.chat), i) => Skip(Take, q.page) <= Rank(Ids(q.chat)', i)
        BY <3>4, <4>1, <4>3
      <4> QED
        BY <4>4 DEF Ahead, Rank
    <3> QED
      BY <3>2, <3>3, <3>5
  <2> QED
    BY <2>1, <2>2
<1> QED
  BY <1>2, <1>7, <1>8 DEF NothingLost

\* The message that goes out is heard by all clients in the room but the sender.
LEMMA MissesEmit ==
  ASSUME IInv, NEW r \in Request, EmitMessage(r)
  PROVE  Listening' /\ NothingLost'
<1> PICK p \in RequestState : p = req[r]
  BY DEF IInv, TInv, TypeOK
<1>1. TInv /\ TypeOK /\ Listening /\ NothingLost
  BY DEF IInv, TInv
<1>2. /\ reader' = reader /\ fails' = fails /\ room' = room /\ messages' = messages
      /\ req' = [req EXCEPT ![r] = Idle]
      /\ \A s \in Socket : heard[s] \subseteq heard'[s]
      /\ \A s \in (room[p.chat] \ {p.socket}) \cap Clients \cap Socket :
           NspOf[s] = NspOf[p.socket] => p.id \in heard'[s]
  BY DEF EmitMessage, Reply, Move, Receivers
<1>3. p.id \in DOMAIN messages /\ messages[p.id] = [chat |-> p.chat, from |-> p.socket]
  BY <1>1 DEF EmitMessage, At, TInv, Announces
<1>4. \A i : Pending(i) => i = p.id \/ Pending(i)'
  <2> SUFFICES ASSUME NEW i, NEW a \in Request, req[a].pc = "emit", req[a].id = i, i # p.id
               PROVE  Pending(i)'
    BY DEF Pending, At
  <2>1. req'[a] = req[a]
    BY <1>1, <1>2 DEF TypeOK
  <2> QED
    BY <2>1 DEF Pending, At
<1>5. Listening'
  BY <1>1, <1>2 DEF Listening
<1>6. ASSUME fails' = 0, NEW s \in Socket, NEW q, q = reader[s], q.inRoom, NEW i \in Ids(q.chat)'
      PROVE  (Reached(s, q, i) \/ Ahead(q, i))'
  <2>1. i \in Ids(q.chat) /\ Ids(q.chat)' = Ids(q.chat)
    BY <1>2, <1>6 DEF Ids
  <2>2. Reached(s, q, i) \/ Ahead(q, i)
    BY <1>1, <1>2, <1>6, <2>1 DEF NothingLost
  <2>3. Reached(s, q, i) => Reached(s, q, i)'
    <3>1. CASE Pending(i) /\ i = p.id
      <4>1. q.chat = p.chat /\ messages[i].from = p.socket
        BY <1>3, <2>1, <3>1 DEF Ids
      <4>2. s \in Clients /\ s \in room[q.chat]
        BY <1>1, <1>6 DEF Listening
      <4>3. messages[i].from = s \/ i \in heard'[s] \/ Foreign(s, i)
        BY <1>2, <3>1, <4>1, <4>2 DEF Foreign
      <4> QED
        BY <1>2, <4>3 DEF Reached, Foreign
    <3>2. CASE ~ (Pending(i) /\ i = p.id)
      BY <1>2, <1>4, <3>2 DEF Reached, Foreign
    <3> QED
      BY <3>1, <3>2
  <2>4. Ahead(q, i) => Ahead(q, i)'
    BY <2>1 DEF Ahead, Rank
  <2> QED
    BY <2>2, <2>3, <2>4
<1> QED
  BY <1>2, <1>5, <1>6 DEF NothingLost

LEMMA MissesFail ==
  ASSUME IInv, NEW r \in Request, Fail(r)
  PROVE  Listening' /\ NothingLost'
<1>1. fails' # 0
  BY DEF Fail, IInv, TInv, TypeOK
<1>2. Listening'
  BY DEF Fail, IInv, Listening
<1> QED
  BY <1>1, <1>2 DEF NothingLost

\* All clients start anew when the process has ended.
LEMMA MissesEnds ==
  ASSUME IInv, NEW r \in Request, RejectConnection(r) \/ FailConnection(r)
  PROVE  Listening' /\ NothingLost'
<1>1. \A s \in Socket : reader'[s].inRoom = FALSE
  BY DEF RejectConnection, FailConnection, ProcessEnds, NoReader
<1> QED
  BY <1>1 DEF Listening, NothingLost

\* A client whose socket closes starts anew.
LEMMA MissesDisconnect ==
  ASSUME IInv, NEW s \in Socket, Disconnect(s)
  PROVE  Listening' /\ NothingLost'
<1>1. TypeOK /\ Listening /\ NothingLost
  BY DEF IInv, TInv
<1>2. ASSUME NEW t \in Socket, NEW q, q = reader'[t], q.inRoom
      PROVE  t # s /\ q = reader[t] /\ heard'[t] = heard[t]
  <2>1. CASE t = s
    <3>1. q = NoReader
      BY <1>1, <1>2, <2>1 DEF Disconnect, TypeOK
    <3> QED
      BY <1>2, <3>1 DEF NoReader
  <2>2. CASE t # s
    BY <1>1, <1>2, <2>2 DEF Disconnect, TypeOK
  <2> QED
    BY <2>1, <2>2
<1>3. Listening'
  <2> SUFFICES ASSUME NEW t \in Socket, NEW q, q = reader'[t], q.inRoom
               PROVE  t \in Clients /\ t \in room'[q.chat] /\ q.page > 0
    BY DEF Listening
  <2>1. t # s /\ q = reader[t]
    BY <1>2
  <2>2. t \in Clients /\ t \in room[q.chat] /\ q.page > 0 /\ q.chat \in Chat
    BY <1>1, <2>1 DEF Listening, TypeOK, Reader
  <2> QED
    BY <2>1, <2>2 DEF Disconnect
<1>4. ASSUME fails' = 0, NEW t \in Socket, NEW q, q = reader'[t], q.inRoom, NEW i \in Ids(q.chat)'
      PROVE  (Reached(t, q, i) \/ Ahead(q, i))'
  <2>1. i \in Ids(q.chat) /\ Ids(q.chat)' = Ids(q.chat)
    BY <1>4 DEF Ids, Disconnect
  <2>2. Reached(t, q, i) \/ Ahead(q, i)
    BY <1>1, <1>2, <1>4, <2>1 DEF NothingLost, Disconnect
  <2>3. Pending(i) => Pending(i)'
    BY DEF Pending, At, Disconnect
  <2>4. Reached(t, q, i) => Reached(t, q, i)'
    BY <1>2, <1>4, <2>3 DEF Reached, Foreign, Disconnect
  <2>5. Ahead(q, i) => Ahead(q, i)'
    BY <2>1 DEF Ahead, Rank
  <2> QED
    BY <2>2, <2>4, <2>5
<1> QED
  BY <1>3, <1>4 DEF NothingLost

\* Before page 1 every message of the chat is ahead.
LEMMA MissesStart ==
  ASSUME IInv, NEW s \in Clients, NEW c \in Chat, StartReading(s, c)
  PROVE  Listening' /\ NothingLost'
<1> USE IdleType
<1>1. TypeOK /\ Listening /\ NothingLost /\ s \in Socket
  BY ChatAssumption DEF IInv, TInv
<1> DEFINE new == [NoReader EXCEPT !.chat = c, !.page = 1, !.inRoom = s \in room[c]]
<1>2. /\ new.chat = c /\ new.page = 1 /\ (new.inRoom <=> s \in room[c])
      /\ new.done = FALSE
  BY DEF NoReader
<1>3. reader' = [reader EXCEPT ![s] = new] /\ room' = room
  BY DEF StartReading
<1> HIDE DEF new
<1>4. ASSUME NEW t \in Socket, NEW q, q = reader'[t], q.inRoom
      PROVE  (t = s /\ q = new) \/ q = reader[t]
  BY <1>1, <1>3, <1>4 DEF TypeOK
<1>5. Listening'
  <2> SUFFICES ASSUME NEW t \in Socket, NEW q, q = reader'[t], q.inRoom
               PROVE  t \in Clients /\ t \in room'[q.chat] /\ q.page > 0
    BY DEF Listening
  <2> QED
    BY <1>1, <1>2, <1>3, <1>4 DEF Listening
<1>6. ASSUME fails' = 0, NEW t \in Socket, NEW q, q = reader'[t], q.inRoom, NEW i \in Ids(q.chat)'
      PROVE  (Reached(t, q, i) \/ Ahead(q, i))'
  <2>1. i \in Ids(q.chat) /\ Ids(q.chat)' = Ids(q.chat)
    BY <1>6 DEF Ids, StartReading
  <2>2. CASE q = new
    <3>1. Rank(Ids(q.chat), i) \in Nat /\ Skip(Take, 1) = 0
      BY <1>1, PageType, RankType, SkipNext, ChatAssumption
    <3> QED
      BY <1>2, <2>1, <2>2, <3>1 DEF Ahead, Rank
  <2>3. CASE q = reader[t]
    <3>1. Reached(t, q, i) \/ Ahead(q, i)
      BY <1>1, <1>6, <2>1, <2>3 DEF NothingLost, StartReading
    <3>2. Reached(t, q, i) => Reached(t, q, i)'
      BY DEF Reached, Foreign, Pending, At, StartReading
    <3>3. Ahead(q, i) => Ahead(q, i)'
      BY <2>1 DEF Ahead, Rank
    <3> QED
      BY <3>1, <3>2, <3>3
  <2> QED
    BY <1>4, <1>6, <2>2, <2>3
<1> QED
  BY <1>5, <1>6 DEF NothingLost

\* A page shows a message that was ahead or leaves it ahead of the next page, and
\* the walk does not end while one is ahead.
LEMMA MissesRead ==
  ASSUME IInv, NEW s \in Clients, ReadPage(s)
  PROVE  Listening' /\ NothingLost'
<1>1. TypeOK /\ Listening /\ NothingLost /\ s \in Socket
  BY ChatAssumption DEF IInv, TInv
<1> PICK o \in Reader : o = reader[s]
  BY <1>1 DEF TypeOK
<1> DEFINE page == PageOf(Ids(o.chat), "DESC", Take, o.page)
           new == [o EXCEPT !.page = o.page + 1, !.seen = o.seen \cup page, !.done = (page = {})]
<1>2. reader' = [reader EXCEPT ![s] = new] /\ room' = room
  BY <1>1 DEF ReadPage, TypeOK
<1>3. /\ new.chat = o.chat /\ new.page = o.page + 1 /\ new.seen = o.seen \cup page
      /\ new.inRoom = o.inRoom /\ new.done = (page = {})
  BY DEF Reader
<1>4. o.page \in Nat \ {0} /\ ~ o.done /\ o.chat \in Chat
  BY DEF ReadPage, Reader
<1> HIDE DEF new
<1>5. ASSUME NEW t \in Socket, NEW q, q = reader'[t], q.inRoom
      PROVE  (t = s /\ q = new) \/ q = reader[t]
  BY <1>1, <1>2, <1>5 DEF TypeOK
<1>6. Listening'
  <2> SUFFICES ASSUME NEW t \in Socket, NEW q, q = reader'[t], q.inRoom
               PROVE  t \in Clients /\ t \in room'[q.chat] /\ q.page > 0
    BY DEF Listening
  <2>1. CASE t = s /\ q = new
    BY <1>1, <1>2, <1>3, <1>4, <2>1 DEF Listening
  <2>2. CASE q = reader[t]
    BY <1>1, <1>2, <2>2 DEF Listening
  <2> QED
    BY <1>5, <2>1, <2>2
<1>7. ASSUME fails' = 0, NEW t \in Socket, NEW q, q = reader'[t], q.inRoom, NEW i \in Ids(q.chat)'
      PROVE  (Reached(t, q, i) \/ Ahead(q, i))'
  <2>1. i \in Ids(q.chat) /\ Ids(q.chat)' = Ids(q.chat) /\ fails = 0
    BY <1>7 DEF Ids, ReadPage
  <2>2. \A p : Reached(t, p, i) => Reached(t, p, i)'
    BY DEF Reached, Foreign, Pending, At, ReadPage
  <2>3. CASE t = s /\ q = new
    <3>1. Reached(s, o, i) \/ Ahead(o, i)
      BY <1>1, <1>3, <1>7, <2>1, <2>3 DEF NothingLost
    <3>2. CASE Reached(s, o, i)
      <4>1. Reached(s, q, i)
        BY <1>3, <2>3, <3>2 DEF Reached, Foreign
      <4> QED
        BY <2>2, <2>3, <4>1
    <3>3. CASE Ahead(o, i)
      <4>1. /\ i \in page \/ Skip(Take, o.page + 1) <= Rank(Ids(o.chat), i)
            /\ page # {}
        BY <1>1, <1>3, <1>4, <2>1, <2>3, <3>3, PageAdvances, PageType DEF Ahead
      <4> HIDE DEF page
      <4>2. CASE i \in page
        BY <1>3, <2>3, <4>2 DEF Reached, Foreign
      <4>3. CASE Skip(Take, o.page + 1) <= Rank(Ids(o.chat), i)
        <5>1. Ahead(q, i)
          BY <1>3, <2>3, <4>1, <4>3 DEF Ahead
        <5> QED
          BY <2>1, <5>1 DEF Ahead, Rank
      <4> QED
        BY <4>1, <4>2, <4>3
    <3> QED
      BY <3>1, <3>2, <3>3
  <2>4. CASE q = reader[t]
    <3>1. Reached(t, q, i) \/ Ahead(q, i)
      BY <1>1, <1>7, <2>1, <2>4 DEF NothingLost
    <3>2. Ahead(q, i) => Ahead(q, i)'
      BY <2>1 DEF Ahead, Rank
    <3> QED
      BY <2>2, <3>1, <3>2
  <2> QED
    BY <1>5, <1>7, <2>3, <2>4
<1> QED
  BY <1>6, <1>7 DEF NothingLost

LEMMA MissesStep == IInv /\ [Next]_vars => Listening' /\ NothingLost'
<1> SUFFICES ASSUME IInv, [Next]_vars
             PROVE  Listening' /\ NothingLost'
  OBVIOUS
<1>1. PICK s0 \in Socket, c0 \in Chat, u0 \in User : TRUE
  BY ChatAssumption
<1>2. ASSUME NEW r \in Request, NEW s \in Socket, NEW c \in Chat,
             \/ HandleConnection(r, s) \/ EnterRoom(r, s, c) \/ LeaveRoom(r, s, c)
             \/ SendMessage(r, s, c) \/ \E u \in User : KickOut(r, s, c, u)
      PROVE  Listening' /\ NothingLost'
  BY <1>1, <1>2, MissesEvent
<1>3. ASSUME NEW r \in Request, Join(r) \/ KickTarget(r) \/ KickRemove(r) \/ LeaveRemove(r)
      PROVE  Listening' /\ NothingLost'
  BY <1>1, <1>3, MissesEvent
<1>4. ASSUME NEW r \in Request, Leave(r) \/ SaveMessage(r) \/ EmitMessage(r) \/ Fail(r)
      PROVE  Listening' /\ NothingLost'
  BY <1>4, MissesLeave, MissesSave, MissesEmit, MissesFail
<1>5. ASSUME NEW s \in Socket, Disconnect(s)
      PROVE  Listening' /\ NothingLost'
  BY <1>5, MissesDisconnect
<1>6. ASSUME NEW s \in Clients, ReadPage(s) \/ \E c \in Chat : StartReading(s, c)
      PROVE  Listening' /\ NothingLost'
  BY <1>6, MissesStart, MissesRead
<1>7. ASSUME \/ \E c \in Chat, us \in SUBSET User : CreateChat(c, us)
             \/ \E c \in Chat, u \in User : InviteChat(c, u)
             \/ UNCHANGED vars
      PROVE  Listening' /\ NothingLost'
  <2>1. /\ reader' = reader /\ messages' = messages /\ heard' = heard /\ fails' = fails
        /\ room' = room /\ req' = req
    BY <1>7 DEF CreateChat, InviteChat, vars
  <2>2. \A s \in Socket : reader[s].chat \in Chat
    BY DEF IInv, TInv, TypeOK, Reader
  <2>3. \A i : Pending(i) => Pending(i)'
    BY <2>1 DEF Pending, At
  <2> QED
    BY <2>1, <2>2, <2>3, Quiet DEF IInv
<1>8. ASSUME NEW r \in Request, RejectConnection(r) \/ FailConnection(r)
      PROVE  Listening' /\ NothingLost'
  BY <1>8, MissesEnds
<1>9. ASSUME NEW r \in Request, NEW s \in Socket, HandleConnection(r, s)
      PROVE  Listening' /\ NothingLost'
  BY <1>1, <1>2, <1>9
<1> QED
  BY <1>2, <1>3, <1>4, <1>5, <1>6, <1>7, <1>8, <1>9 DEF Next

\* A client that is in the room before it asks for the first page of the history,
\* and stays, misses nothing that is sent in its namespace, however the messages
\* that arrive push the pages, for any sockets, chats and namespaces.
THEOREM ClientsMissNothing == Spec => []NothingMissed
<1>1. Init => IInv
  BY TypeInit, MissesInit DEF IInv
<1>2. IInv /\ [Next]_vars => IInv'
  BY TypeStep, MissesStep DEF IInv
<1> QED
  BY <1>1, <1>2, ListeningMissesNothing, PTL DEF Spec
=============================================================================
