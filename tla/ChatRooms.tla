------------------------------ MODULE ChatRooms ------------------------------
(***************************************************************************)
(* Chats: the users of a chat in the database, the sockets in its room,    *)
(* the messages, and clients that read the history page by page while      *)
(* messages arrive (chats.gateway.ts, chats.service.ts,                    *)
(* messages.service.ts, common.service.ts).                                *)
(*                                                                         *)
(* A socket lives in one namespace, /chats/<id>, for good, and the rooms   *)
(* it joins are rooms of that namespace, whatever chat they are named by.  *)
(* A handler is cut at every await; socket.io does not wait for a handler  *)
(* before it delivers the next event of the socket.  Texts are left out:   *)
(* the filter of bad words maps a text to a text and no step looks at it.  *)
(* enter_team only emits.                                                  *)
(*                                                                         *)
(* A definition D_Variant is D with a plausible mistake; nothing uses it   *)
(* but the runs that show which property the mistake breaks.               *)
(***************************************************************************)
EXTENDS Pagination, Sequences

CONSTANTS
  User, Socket, Chat,
  UserOf,      \* UserOf[s]: the user whose token socket s presents
  NspOf,       \* NspOf[s]: the id in the namespace of socket s
  Founded,     \* chats that exist at the start
  Clients,     \* bound: sockets whose client reads the history
  Events,      \* bound: what the sockets ask for: event, socket and chat
  Request,     \* slots for events in flight
  Take,        \* size of a page
  MaxMessages, \* bound: messages
  MaxFails     \* bound: failures of a behaviour

ASSUME ChatAssumption ==
  /\ Socket # {} /\ Chat # {}
  /\ UserOf \in [Socket -> User]
  /\ NspOf \in [Socket -> Chat]
  /\ Founded \subseteq Chat
  /\ Clients \subseteq Socket
  /\ Events \subseteq {"enter_room", "leave_room", "kick_out", "send_message"} \X Socket \X Chat
  /\ Take \in Nat \ {0}
  /\ MaxMessages \in Nat
  /\ MaxFails \in Nat

VARIABLES
  users,    \* users of each chat that exists
  online,   \* connected sockets
  room,     \* sockets in a room named by each chat, each in its own namespace
  messages, \* rows of messages: chat and sending socket; the index is the id
  heard,    \* ids the socket of a client has received since it connected
  reader,   \* where each client is in the history
  req,      \* events in flight
  fails

vars == <<users, online, room, messages, heard, reader, req, fails>>

Message == [chat : Chat, from : Socket]
Ids(c) == {i \in DOMAIN messages : messages[i].chat = c}

\* inRoom (history): the socket has been in the room since before page 1
Reader == [chat : Chat, page : Nat, seen : SUBSET Nat, done : BOOLEAN, inRoom : BOOLEAN]
NoReader == [chat |-> CHOOSE c \in Chat : TRUE, page |-> 0, seen |-> {}, done |-> FALSE,
             inRoom |-> FALSE]

RequestState ==
  [pc : {"idle", "connect", "join", "kickTarget", "kickRemove", "leaveRemove", "leave",
         "save", "emit"},
   socket : Socket, chat : Chat, target : User, id : Nat]
Idle == [pc |-> "idle", socket |-> CHOOSE s \in Socket : TRUE,
         chat |-> CHOOSE c \in Chat : TRUE, target |-> CHOOSE u \in User : TRUE, id |-> 0]

Init ==
  /\ users = [c \in Founded |-> User]
  /\ online = {}
  /\ room = [c \in Chat |-> {}]
  /\ messages = <<>>
  /\ heard = [s \in Socket |-> {}]
  /\ reader = [s \in Socket |-> NoReader]
  /\ req = [r \in Request |-> Idle]
  /\ fails = 0

At(r, pc) == req[r].pc = pc
Move(r, state) == req' = [req EXCEPT ![r] = state]
Reply(r) == Move(r, Idle)
Begin(r, pc, s, c) ==
  At(r, "idle") /\ Move(r, [Idle EXCEPT !.pc = pc, !.socket = s, !.chat = c])

Exists(c) == c \in DOMAIN users
IsMember(c, u) == Exists(c) /\ u \in users[c]

\* readers that leave the room of c with socket s
LeftRoom(s, c) ==
  [reader EXCEPT ![s].inRoom = reader[s].inRoom /\ reader[s].chat # c]

-----------------------------------------------------------------------------
(* Sockets and rooms.                                                       *)

\* handleConnection: enterRoom begins, for the chat of the namespace, and is
\* not awaited.
HandleConnection(r, s) ==
  /\ s \notin online
  /\ online' = online \cup {s}
  /\ Begin(r, "connect", s, NspOf[s])
  /\ UNCHANGED <<users, room, messages, heard, reader, fails>>

\* What the process holds is gone; the database stays.
ProcessEnds ==
  /\ online' = {}
  /\ room' = [c \in Chat |-> {}]
  /\ heard' = [s \in Socket |-> {}]
  /\ reader' = [s \in Socket |-> NoReader]
  /\ req' = [r \in Request |-> Idle]
  /\ UNCHANGED <<users, messages>>

\* A socket connects for a chat that does not exist: the exception of enterRoom
\* is a rejection that nobody handles.
RejectConnection(r) ==
  /\ At(r, "connect") /\ ~ Exists(req[r].chat)
  /\ ProcessEnds
  /\ UNCHANGED fails

\* enterRoom asks for the chat only, which need not be that of the namespace.
EnterRoom(r, s, c) ==
  /\ s \in online
  /\ Exists(c)
  /\ Begin(r, "join", s, c)
  /\ UNCHANGED <<users, online, room, messages, heard, reader, fails>>

\* socket.join, into a room of the socket's namespace; nothing on a closed socket
Join(r) ==
  LET q == req[r] IN
  /\ At(r, "join") \/ (At(r, "connect") /\ Exists(q.chat))
  /\ room' = IF q.socket \in online
             THEN [room EXCEPT ![q.chat] = @ \cup {q.socket}] ELSE room
  /\ Reply(r)
  /\ UNCHANGED <<users, online, messages, heard, reader, fails>>

Disconnect_StaysInRoom(s) ==
  /\ s \in online
  /\ online' = online \ {s}
  /\ heard' = [heard EXCEPT ![s] = {}]
  /\ reader' = [reader EXCEPT ![s] = NoReader]
  /\ UNCHANGED <<users, room, messages, req, fails>>

\* socket.io takes a closed socket out of its rooms; the client starts anew.
Disconnect(s) ==
  /\ s \in online
  /\ online' = online \ {s}
  /\ room' = [c \in Chat |-> room[c] \ {s}]
  /\ heard' = [heard EXCEPT ![s] = {}]
  /\ reader' = [reader EXCEPT ![s] = NoReader]
  /\ UNCHANGED <<users, messages, req, fails>>

-----------------------------------------------------------------------------
(* Users of a chat.                                                         *)

\* create_chat, and createTeam's chat
CreateChat(c, us) ==
  /\ ~ Exists(c)
  /\ users' = [d \in DOMAIN users \cup {c} |-> IF d = c THEN us ELSE users[d]]
  /\ UNCHANGED <<online, room, messages, heard, reader, req, fails>>

\* inviteChat; a second row for a user breaks the key of the join table
InviteChat(c, u) ==
  /\ Exists(c) /\ u \notin users[c]
  /\ users' = [users EXCEPT ![c] = @ \cup {u}]
  /\ UNCHANGED <<online, room, messages, heard, reader, req, fails>>

\* kickOut: the sender and then the target are looked up, then leaveChat runs.
KickOut(r, s, c, u) ==
  /\ s \in online
  /\ IsMember(c, UserOf[s])
  /\ At(r, "idle")
  /\ Move(r, [Idle EXCEPT !.pc = "kickTarget", !.socket = s, !.chat = c, !.target = u])
  /\ UNCHANGED <<users, online, room, messages, heard, reader, fails>>

KickTarget(r) ==
  LET q == req[r] IN
  /\ At(r, "kickTarget")
  /\ IF IsMember(q.chat, q.target) THEN Move(r, [q EXCEPT !.pc = "kickRemove"]) ELSE Reply(r)
  /\ UNCHANGED <<users, online, room, messages, heard, reader, fails>>

\* The target's sockets stay in the room.
KickRemove(r) ==
  LET q == req[r] IN
  /\ At(r, "kickRemove")
  /\ users' = [users EXCEPT ![q.chat] = @ \ {q.target}]
  /\ Reply(r)
  /\ UNCHANGED <<online, room, messages, heard, reader, fails>>

LeaveRoom(r, s, c) ==
  /\ s \in online
  /\ IsMember(c, UserOf[s])
  /\ Begin(r, "leaveRemove", s, c)
  /\ UNCHANGED <<users, online, room, messages, heard, reader, fails>>

LeaveRemove(r) ==
  LET q == req[r] IN
  /\ At(r, "leaveRemove")
  /\ users' = [users EXCEPT ![q.chat] = @ \ {UserOf[q.socket]}]
  /\ Move(r, [q EXCEPT !.pc = "leave"])
  /\ UNCHANGED <<online, room, messages, heard, reader, fails>>

\* socket.leave
Leave(r) ==
  LET q == req[r] IN
  /\ At(r, "leave")
  /\ room' = [room EXCEPT ![q.chat] = @ \ {q.socket}]
  /\ reader' = LeftRoom(q.socket, q.chat)
  /\ Reply(r)
  /\ UNCHANGED <<users, online, messages, heard, fails>>

-----------------------------------------------------------------------------
(* Messages.                                                                *)

\* sendMessage, for a chat that exists
SendMessage(r, s, c) ==
  /\ s \in online
  /\ Exists(c)
  /\ Begin(r, "save", s, c)
  /\ UNCHANGED <<users, online, room, messages, heard, reader, fails>>

\* createMessage
SaveMessage(r) ==
  LET q == req[r] IN
  /\ At(r, "save")
  /\ Len(messages) < MaxMessages
  /\ messages' = Append(messages, [chat |-> q.chat, from |-> q.socket])
  /\ Move(r, [q EXCEPT !.pc = "emit", !.id = Len(messages) + 1])
  /\ UNCHANGED <<users, online, room, heard, reader, fails>>

\* socket.to(room): everybody in that room of the sender's namespace but the sender
Receivers(q) == {s \in room[q.chat] : NspOf[s] = NspOf[q.socket]} \ {q.socket}

\* The stored row has been read back; receive_message goes out.
EmitMessage(r) ==
  LET q == req[r] IN
  /\ At(r, "emit")
  /\ heard' = [s \in Socket |-> IF s \in Receivers(q) \cap Clients THEN heard[s] \cup {q.id} ELSE heard[s]]
  /\ Reply(r)
  /\ UNCHANGED <<users, online, room, messages, reader, fails>>

\* A client asks for the history of a chat, latest first, page after page until
\* one is empty.  (The next link of the cursor leads to the first page again.)
StartReading(s, c) ==
  /\ s \in online
  /\ reader[s].page = 0
  /\ Exists(c)
  /\ reader' = [reader EXCEPT ![s] =
       [NoReader EXCEPT !.chat = c, !.page = 1, !.inRoom = s \in room[c]]]
  /\ UNCHANGED <<users, online, room, messages, heard, req, fails>>

\* paginateMessages
ReadPage(s) ==
  LET q == reader[s]  page == PageOf(Ids(q.chat), "DESC", Take, q.page) IN
  /\ q.page > 0 /\ ~ q.done
  /\ reader' = [reader EXCEPT ![s].page = @ + 1, ![s].seen = @ \cup page, ![s].done = page = {}]
  /\ UNCHANGED <<users, online, room, messages, heard, req, fails>>

\* A query fails and the event is not answered.
Fail(r) ==
  /\ req[r].pc \in {"kickTarget", "kickRemove", "leaveRemove", "save", "emit"}
  /\ fails < MaxFails
  /\ fails' = fails + 1
  /\ Reply(r)
  /\ UNCHANGED <<users, online, room, messages, heard, reader>>

\* The query of an enterRoom that nobody awaits fails.
FailConnection(r) ==
  /\ At(r, "connect")
  /\ fails < MaxFails
  /\ fails' = fails + 1
  /\ ProcessEnds

-----------------------------------------------------------------------------
Next ==
  \/ \E r \in Request :
       \/ \E s \in Socket : HandleConnection(r, s)
       \/ RejectConnection(r) \/ FailConnection(r)
       \/ \E s \in Socket, c \in Chat :
            \/ <<"enter_room", s, c>> \in Events /\ EnterRoom(r, s, c)
            \/ <<"leave_room", s, c>> \in Events /\ LeaveRoom(r, s, c)
            \/ <<"send_message", s, c>> \in Events /\ SendMessage(r, s, c)
            \/ <<"kick_out", s, c>> \in Events /\ \E u \in User : KickOut(r, s, c, u)
       \/ Join(r) \/ KickTarget(r) \/ KickRemove(r) \/ LeaveRemove(r) \/ Leave(r)
       \/ SaveMessage(r) \/ EmitMessage(r) \/ Fail(r)
  \/ \E s \in Socket : Disconnect(s)
  \/ \E s \in Clients : ReadPage(s) \/ \E c \in Chat : StartReading(s, c)
  \/ \E c \in Chat :
       \/ \E us \in SUBSET User : CreateChat(c, us)
       \/ \E u \in User : InviteChat(c, u)

Spec == Init /\ [][Next]_vars

-----------------------------------------------------------------------------
(* Properties.                                                              *)

\* Every variable has its type.
TypeOK ==
  /\ \E chats \in SUBSET Chat : users \in [chats -> SUBSET User]
  /\ online \subseteq Socket
  /\ room \in [Chat -> SUBSET online]
  /\ messages \in Seq(Message)
  /\ heard \in [Socket -> SUBSET DOMAIN messages]
  /\ reader \in [Socket -> Reader]
  /\ req \in [Request -> RequestState]
  /\ fails \in 0 .. MaxFails

Pending(i) == \E r \in Request : At(r, "emit") /\ req[r].id = i

\* A client that is in the room of a chat before it asks for the first page of
\* its history, and stays, misses nothing that is sent in its namespace: when its
\* walk through the history has ended, every such message of the chat was on one
\* of the pages, or has been heard, or is about to be sent out.  Messages arrive
\* between the pages and push what has not been read from page to page; users come
\* and go and are put out of the chat, sockets enter the rooms of other chats, and
\* the process ends and starts again meanwhile.  What is sent to the chat from
\* another namespace is only in the history.
NothingMissed ==
  fails = 0 =>
    \A s \in online :
      reader[s].done /\ reader[s].inRoom =>
        \A i \in {j \in Ids(reader[s].chat) : NspOf[messages[j].from] = NspOf[s]} :
          \/ i \in reader[s].seen \cup heard[s]
          \/ messages[i].from = s
          \/ Pending(i)

=============================================================================
