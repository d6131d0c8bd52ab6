------------------------------ MODULE Accounts ------------------------------
(***************************************************************************)
(* Accounts: sign-up by mail or through Kakao, what a user or a reset of   *)
(* the password saves, deletion, the profile that belongs to an account,   *)
(* the keys of Redis a session leaves, and an administrator who reads the  *)
(* list of users meanwhile (auth.service.ts, user.service.ts,              *)
(* profile.service.ts, admin.service.ts, redis.service.ts).                *)
(*                                                                         *)
(* A handler is cut at every statement.  TypeORM's save(entity) reads the  *)
(* row again and writes the columns that differ from the entity, which may *)
(* have been loaded before others changed the row.  Tokens are JWTs: no    *)
(* handler looks at the user before it answers a valid one.  Codes mailed  *)
(* before a sign-up or a reset are part of EmailVerification.              *)
(*                                                                         *)
(* A definition D_Variant is D with a plausible mistake; nothing uses it   *)
(* but the runs that show which property the mistake breaks.               *)
(***************************************************************************)
EXTENDS Pagination, Sequences

CONSTANTS
  Email, Name, Password,
  Code,        \* one-time codes of a Kakao sign-in
  Founders,    \* rows of users at the start
  Request,     \* slots for requests in flight
  Take,        \* size of a page of the list of users
  MaxUsers,    \* bound: rows of users
  MaxRequests, \* bound: requests
  MaxFails     \* bound: failures of a behaviour

None == "none"        \* no value given; the password of a social login
NotLoaded == "hidden" \* a column the query does not select

ASSUME AccountsAssumption ==
  /\ {None, NotLoaded} \cap (Email \cup Name \cup Password) = {}
  /\ Email # {} /\ Code # {}
  /\ Take \in Nat \ {0}
  /\ IsFiniteSet(Request)
  /\ MaxUsers \in Nat
  /\ MaxRequests \in Nat
  /\ MaxFails \in Nat

Row == [email : Email, name : Name, password : Password \cup {None}, deleted : BOOLEAN]
Column == {"email", "name", "password", "deleted"}
Entity == [email : Email, name : Name \cup {None}, password : Password \cup {None, NotLoaded},
           deleted : BOOLEAN]
Id == 1 .. MaxUsers

ASSUME FoundersAssumption == Founders \in Seq(Row) /\ Len(Founders) <= MaxUsers

VARIABLES
  users,     \* rows of users; the index is the id
  profile,   \* the location of each user's profile, 0 without a profile
  locations, \* rows of location inserted for profiles
  keys,      \* what Redis holds: refresh tokens by user, users by Kakao code
  list,      \* where the administrator is in the list of users
  req,       \* requests in flight
  begun, fails,
  lost       \* (history) locations whose registration was rolled back or cut off

vars == <<users, profile, locations, keys, list, req, begun, fails, lost>>

Key == ({"refreshToken"} \X Id) \cup ({"kakaoCode"} \X Code)
KeyState == [user : 0 .. MaxUsers, ttl : BOOLEAN]
NoKey == [user |-> 0, ttl |-> FALSE]

\* owed (history): users that were on the list when it was opened and still are
List == [pc : {"closed", "open", "read"}, cursor : 0 .. MaxUsers, seen : SUBSET Id,
         rows : Nat, owed : SUBSET Id]

\* overtaken (history): the row has changed since the entity was loaded
RequestState ==
  [pc : {"idle", "insert", "set", "expire", "diff", "write", "delete", "location", "profile"},
   user : 0 .. MaxUsers, key : Key, entity : Entity, asked : SUBSET Column,
   diff : SUBSET Column, social : BOOLEAN, overtaken : BOOLEAN, location : Nat]
Idle == [pc |-> "idle", user |-> 0, key |-> CHOOSE k \in Key : TRUE,
         entity |-> CHOOSE e \in Entity : TRUE, asked |-> {}, diff |-> {}, social |-> FALSE,
         overtaken |-> FALSE, location |-> 0]

Init ==
  /\ users = Founders
  /\ profile = [u \in Id |-> 0]
  /\ locations = 0
  /\ keys = [k \in Key |-> NoKey]
  /\ list = [pc |-> "closed", cursor |-> NoCursor, seen |-> {}, rows |-> 0, owed |-> {}]
  /\ req = [r \in Request |-> Idle]
  /\ begun = 0 /\ fails = 0 /\ lost = 0

-----------------------------------------------------------------------------
At(r, pc) == req[r].pc = pc
Move(r, state) == req' = [req EXCEPT ![r] = state]
Reply(r) == Move(r, Idle)
Begin(r, state) ==
  /\ At(r, "idle")
  /\ begun < MaxRequests
  /\ begun' = begun + 1
  /\ Move(r, state)

\* find leaves rows that are soft-deleted out.
Live(u) == u \in DOMAIN users /\ ~ users[u].deleted
WithEmail(e) == {u \in DOMAIN users : Live(u) /\ users[u].email = e}

\* The unique index holds the addresses of deleted rows, too.
EmailTaken(e, u) == \E v \in DOMAIN users \ {u} : users[v].email = e

TokenOf(u) == <<"refreshToken", u>>
KeepToken(r, u) == Move(r, [Idle EXCEPT !.pc = "set", !.user = u, !.key = TokenOf(u)])

\* the requests, that of r apart, after row u has changed
Overtake(r, u, state) ==
  [s \in Request |->
     IF s = r THEN state
     ELSE IF req[s].pc \in {"diff", "write"} /\ req[s].user = u
     THEN [req[s] EXCEPT !.overtaken = TRUE]
     ELSE req[s]]

-----------------------------------------------------------------------------
(* Signing up and in.                                                       *)

\* signUp looks for the address, then saves.
SignUp(r, e, n, p) ==
  /\ WithEmail(e) = {}
  /\ Begin(r, [Idle EXCEPT !.pc = "insert",
                 !.entity = [email |-> e, name |-> n, password |-> p, deleted |-> FALSE]])
  /\ UNCHANGED <<users, profile, locations, keys, list, fails, lost>>

\* generateKakaoCode.  The code of a known user is handed out before it is kept,
\* and nobody waits for it to be kept.
GenerateKakaoCode(r, e, n, c) ==
  /\ IF WithEmail(e) = {}
     THEN Begin(r, [Idle EXCEPT !.pc = "insert", !.social = TRUE, !.key = <<"kakaoCode", c>>,
                      !.entity = [email |-> e, name |-> n, password |-> None, deleted |-> FALSE]])
     ELSE \E u \in WithEmail(e) :
            Begin(r, [Idle EXCEPT !.pc = "set", !.user = u, !.key = <<"kakaoCode", c>>])
  /\ UNCHANGED <<users, profile, locations, keys, list, fails, lost>>

\* save of a new row.  The index refuses an address that is in use; a strict
\* mode of MySQL refuses a row without a password.
Insert(r) ==
  LET q == req[r]  u == Len(users) + 1 IN
  /\ At(r, "insert")
  /\ \/ /\ EmailTaken(q.entity.email, 0) \/ q.social
        /\ Reply(r)
        /\ UNCHANGED users
     \/ /\ ~ EmailTaken(q.entity.email, 0)
        /\ u \in Id
        /\ users' = Append(users, q.entity)
        /\ IF q.social
           THEN Move(r, [q EXCEPT !.pc = "set", !.user = u])
           ELSE KeepToken(r, u)
  /\ UNCHANGED <<profile, locations, keys, list, begun, fails, lost>>

\* validateUser, then signIn
SignIn(r, e, p) ==
  /\ \E u \in WithEmail(e) :
       /\ users[u].password = p
       /\ Begin(r, [Idle EXCEPT !.pc = "set", !.user = u, !.key = TokenOf(u)])
  /\ UNCHANGED <<users, profile, locations, keys, list, fails, lost>>

\* refreshToken of a user who holds a token
RefreshToken(r, u) ==
  /\ u \in DOMAIN users
  /\ Begin(r, [Idle EXCEPT !.pc = "set", !.user = u, !.key = TokenOf(u)])
  /\ UNCHANGED <<users, profile, locations, keys, list, fails, lost>>

\* verifyKakaoCode; the code stays until it expires.
VerifyKakaoCode(r, c) ==
  LET u == keys[<<"kakaoCode", c>>].user IN
  /\ u # 0
  /\ Begin(r, [Idle EXCEPT !.pc = "set", !.user = u, !.key = TokenOf(u)])
  /\ UNCHANGED <<users, profile, locations, keys, list, fails, lost>>

SetKey_Only(r) ==
  /\ At(r, "set")
  /\ keys' = [keys EXCEPT ![req[r].key] = [user |-> req[r].user, ttl |-> FALSE]]
  /\ Reply(r)
  /\ UNCHANGED <<users, profile, locations, list, begun, fails, lost>>

\* set, which takes a time to live away
SetKey(r) ==
  /\ At(r, "set")
  /\ keys' = [keys EXCEPT ![req[r].key] = [user |-> req[r].user, ttl |-> FALSE]]
  /\ Move(r, [req[r] EXCEPT !.pc = "expire"])
  /\ UNCHANGED <<users, profile, locations, list, begun, fails, lost>>

\* expire, which does nothing without a key
ExpireKey(r) ==
  LET k == req[r].key IN
  /\ At(r, "expire")
  /\ keys' = IF keys[k] = NoKey THEN keys ELSE [keys EXCEPT ![k].ttl = TRUE]
  /\ Reply(r)
  /\ UNCHANGED <<users, profile, locations, list, begun, fails, lost>>

\* signOut, one command
SignOut(u) ==
  /\ keys[TokenOf(u)] # NoKey
  /\ keys' = [keys EXCEPT ![TokenOf(u)] = NoKey]
  /\ UNCHANGED <<users, profile, locations, list, req, begun, fails, lost>>

\* A day, or three minutes, have passed.
Lapse(k) ==
  /\ keys[k].ttl
  /\ keys' = [keys EXCEPT ![k] = NoKey]
  /\ UNCHANGED <<users, profile, locations, list, req, begun, fails, lost>>

-----------------------------------------------------------------------------
(* Changing and deleting an account.                                        *)

Loaded_Password(u) == users[u]

\* an entity as find returns it: the password is not selected
Loaded(u) == [users[u] EXCEPT !.password = NotLoaded]

Given(e, n) == (IF e = None THEN {} ELSE {"email"}) \cup (IF n = None THEN {} ELSE {"name"})

\* updateMyInfo; e and n are None where the request leaves them out.
UpdateMyInfo(r, u, e, n) ==
  /\ Live(u)
  /\ Begin(r, [Idle EXCEPT !.pc = "diff", !.user = u, !.asked = Given(e, n),
                 !.entity = [Loaded(u) EXCEPT !.email = IF e = None THEN @ ELSE e,
                                              !.name = IF n = None THEN @ ELSE n]])
  /\ UNCHANGED <<users, profile, locations, keys, list, fails, lost>>

\* resetPassword after a code has been verified
ResetPassword(r, e, p) ==
  /\ \E u \in WithEmail(e) :
       Begin(r, [Idle EXCEPT !.pc = "diff", !.user = u, !.asked = {"password"},
                   !.entity = [Loaded(u) EXCEPT !.password = p]])
  /\ UNCHANGED <<users, profile, locations, keys, list, fails, lost>>

Differing_Hidden(entity, row) == {c \in Column : entity[c] # row[c]}

Differing(entity, row) ==
  {c \in Column : entity[c] # row[c] /\ (c = "password" => entity[c] # NotLoaded)}

\* save reads the row, deleted or not, to see what to write.
SaveDiff(r) ==
  LET q == req[r]  diff == Differing(q.entity, users[q.user]) IN
  /\ At(r, "diff")
  /\ IF diff = {} THEN Reply(r) ELSE Move(r, [q EXCEPT !.pc = "write", !.diff = diff])
  /\ UNCHANGED <<users, profile, locations, keys, list, begun, fails, lost>>

\* The statement of save, which the index of addresses may refuse.
SaveWrite(r) ==
  LET q == req[r] IN
  /\ At(r, "write")
  /\ IF "email" \in q.diff /\ EmailTaken(q.entity.email, q.user)
     THEN Reply(r) /\ UNCHANGED users
     ELSE /\ users' = [users EXCEPT ![q.user] =
                         [c \in Column |-> IF c \in q.diff THEN q.entity[c] ELSE @[c]]]
          /\ req' = Overtake(r, q.user, Idle)
  /\ UNCHANGED <<profile, locations, keys, list, begun, fails, lost>>

\* deleteId, by the user or an administrator
DeleteId(r, u) ==
  /\ Live(u)
  /\ Begin(r, [Idle EXCEPT !.pc = "delete", !.user = u])
  /\ UNCHANGED <<users, profile, locations, keys, list, fails, lost>>

SoftDelete(r) ==
  LET u == req[r].user IN
  /\ At(r, "delete")
  /\ users' = [users EXCEPT ![u].deleted = TRUE]
  /\ req' = Overtake(r, u, Idle)
  /\ list' = [list EXCEPT !.owed = @ \ {u}]
  /\ UNCHANGED <<profile, locations, keys, begun, fails, lost>>

-----------------------------------------------------------------------------
(* Profiles.  registerProfile opens a transaction and writes outside it.    *)

RegisterProfile(r, u) ==
  /\ u \in DOMAIN users
  /\ Begin(r, [Idle EXCEPT !.pc = "location", !.user = IF Live(u) THEN u ELSE 0])
  /\ UNCHANGED <<users, profile, locations, keys, list, fails, lost>>

RollBack(r) == lost' = lost + 1 /\ Reply(r)

\* The location is kept before it is looked whether there is a user.
SaveLocation(r) ==
  LET q == req[r] IN
  /\ At(r, "location")
  /\ locations' = locations + 1
  /\ IF q.user = 0
     THEN RollBack(r)
     ELSE Move(r, [q EXCEPT !.pc = "profile", !.location = locations + 1]) /\ UNCHANGED lost
  /\ UNCHANGED <<users, profile, keys, list, begun, fails>>

SaveProfile_Replace(r) ==
  LET q == req[r] IN
  /\ At(r, "profile")
  /\ profile' = [profile EXCEPT ![q.user] = q.location]
  /\ Reply(r)
  /\ UNCHANGED <<users, locations, keys, list, begun, fails, lost>>

\* The index of user_id refuses a second profile; the error is swallowed.
SaveProfile(r) ==
  LET q == req[r] IN
  /\ At(r, "profile")
  /\ IF profile[q.user] # 0
     THEN RollBack(r) /\ UNCHANGED profile
     ELSE /\ profile' = [profile EXCEPT ![q.user] = q.location]
          /\ Reply(r) /\ UNCHANGED lost
  /\ UNCHANGED <<users, locations, keys, list, begun, fails>>

-----------------------------------------------------------------------------
(* The list of users, oldest first, page by page along the next links.      *)

Listed == {u \in DOMAIN users : Live(u)}

OpenList ==
  /\ list.pc = "closed"
  /\ list' = [list EXCEPT !.pc = "open", !.owed = Listed]
  /\ UNCHANGED <<users, profile, locations, keys, req, begun, fails, lost>>

\* paginateUser
ReadList ==
  LET page == CursorPageOf(Listed, "ASC", Take, list.cursor, FALSE)
      next == NextCursor(page, "ASC", Take) IN
  /\ list.pc = "open"
  /\ list' = [list EXCEPT !.seen = @ \cup page, !.rows = @ + Cardinality(page), !.cursor = next,
                          !.pc = IF next = NoCursor THEN "read" ELSE "open"]
  /\ UNCHANGED <<users, profile, locations, keys, req, begun, fails, lost>>

\* the code of a known user is being kept
Unawaited(r) ==
  req[r].pc \in {"set", "expire"} /\ req[r].key \in {"kakaoCode"} \X Code /\ ~ req[r].social

\* A statement, a command of Redis or an upload fails.
Fail(r) ==
  /\ ~ At(r, "idle") /\ ~ Unawaited(r)
  /\ fails < MaxFails
  /\ fails' = fails + 1
  /\ IF At(r, "profile") THEN RollBack(r) ELSE Reply(r) /\ UNCHANGED lost
  /\ UNCHANGED <<users, profile, locations, keys, list, begun>>

\* A command fails that nobody awaits: the rejection ends the process, and all
\* requests end where they are.
ProcessEnds(r) ==
  /\ Unawaited(r)
  /\ fails < MaxFails
  /\ fails' = fails + 1
  /\ req' = [s \in Request |-> Idle]
  /\ lost' = lost + Cardinality({s \in Request : At(s, "profile")})
  /\ UNCHANGED <<users, profile, locations, keys, list, begun>>

-----------------------------------------------------------------------------
Next ==
  \/ \E r \in Request :
       \/ \E e \in Email :
            \/ \E n \in Name, p \in Password : SignUp(r, e, n, p)
            \/ \E n \in Name, c \in Code : GenerateKakaoCode(r, e, n, c)
            \/ \E p \in Password : SignIn(r, e, p) \/ ResetPassword(r, e, p)
       \/ \E c \in Code : VerifyKakaoCode(r, c)
       \/ \E u \in Id :
            \/ RefreshToken(r, u) \/ DeleteId(r, u) \/ RegisterProfile(r, u)
            \/ \E e \in Email \cup {None}, n \in Name \cup {None} : UpdateMyInfo(r, u, e, n)
       \/ Insert(r) \/ SetKey(r) \/ ExpireKey(r) \/ SaveDiff(r) \/ SaveWrite(r)
       \/ SoftDelete(r) \/ SaveLocation(r) \/ SaveProfile(r) \/ Fail(r)
       \/ ProcessEnds(r)
  \/ \E u \in Id : SignOut(u)
  \/ \E k \in Key : Lapse(k)
  \/ OpenList \/ ReadList

Spec == Init /\ [][Next]_vars

-----------------------------------------------------------------------------
(* Properties.                                                              *)

\* Every variable has its type.
TypeOK ==
  /\ users \in Seq(Row) /\ Len(users) <= MaxUsers
  /\ profile \in [Id -> Nat]
  /\ locations \in Nat
  /\ keys \in [Key -> KeyState]
  /\ list \in List
  /\ req \in [Request -> RequestState]
  /\ begun \in 0 .. MaxRequests
  /\ fails \in 0 .. MaxFails
  /\ lost \in Nat

\* The request that ends in a step changes what it was asked to change: the columns an update of the
\* user or a reset names, or the deletion.  Other columns change only when the
\* row changed after the request had loaded it: then save writes the old name,
\* the old address back, or brings a deleted account back.  A password is never
\* written back.
SavesKeepOthersChanges ==
  [][\A u \in DOMAIN users : \A c \in Column : users'[u][c] # users[u][c] =>
       \E r \in Request :
         /\ req[r].user = u /\ At(r, "idle")'
         /\ \/ At(r, "delete") /\ c = "deleted"
            \/ At(r, "write") /\ (c \in req[r].asked \/ (req[r].overtaken /\ c # "password"))]_vars

\* Without a failure every key of Redis has a time to live or is about to get
\* one, whoever signs in, signs out and asks for codes at the same time.
KeysLapse ==
  fails = 0 =>
    \A k \in Key : keys[k] # NoKey /\ ~ keys[k].ttl =>
      \E r \in Request : At(r, "expire") /\ req[r].key = k

\* Rows of location without a profile are those of registrations that were
\* rolled back, or cut off by the end of the process, one each: the rollback takes
\* nothing back, and nothing else leaves a location behind.
LocationsLeftByRollback ==
  locations = Cardinality({u \in Id : profile[u] # 0})
                + Cardinality({r \in Request : At(r, "profile")}) + lost

\* The administrator, following the next links to the end, has read every user
\* that stayed on the list, and none twice, although users sign up, are deleted
\* and come back between the pages.
ListReadOnce ==
  /\ list.rows = Cardinality(list.seen)
  /\ list.pc = "read" => list.owed \subseteq list.seen

=============================================================================
