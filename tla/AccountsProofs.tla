--------------------------- MODULE AccountsProofs ---------------------------
(***************************************************************************)
(* Proofs about Accounts, for any number of users, requests and failures:  *)
(* what a save may write, that the keys of Redis lapse, where the          *)
(* locations without a profile come from, and that the list of users shows *)
(* everybody once.  A save relies on what its entity was when it was       *)
(* loaded and on everybody who changes the row to mark it; a page of the   *)
(* list relies on where the cursor left off.  The types come last, because *)
(* those of a row need the first and those of the list the second.         *)
(***************************************************************************)
EXTENDS Accounts, FiniteSetTheorems, WellFoundedInduction, TLAPS

UsersOK == users \in Seq(Row) /\ Len(users) <= MaxUsers
ReqOK == req \in [Request -> RequestState]
KeysOK == keys \in [Key -> KeyState]

\* What request q relies on while the rows are us.
Relies(q, us) ==
  /\ q.pc = "insert" => q.entity \in Row
  /\ q.pc = "delete" => q.user \in DOMAIN us
  /\ q.pc \in {"diff", "write"} =>
       q.user \in DOMAIN us /\ q.entity.name \in Name /\ ~ q.entity.deleted
  /\ q.pc = "diff" =>
       /\ "password" \notin q.asked => q.entity.password = NotLoaded
       /\ ~ q.overtaken =>
            \A c \in Column \ {"password"} : c \notin q.asked => q.entity[c] = us[q.user][c]
  /\ q.pc = "write" =>
       /\ "password" \in q.diff => q.entity.password # NotLoaded
       /\ \A c \in q.diff : c \in q.asked \/ (q.overtaken /\ c # "password")

SavesRely == \A r \in Request : Relies(req[r], users)

IInv == UsersOK /\ ReqOK /\ KeysOK /\ SavesRely /\ KeysLapse

-----------------------------------------------------------------------------
(* Constant facts, and how a step changes the requests.                     *)

LEMMA IdleState == Idle \in RequestState /\ Idle.pc = "idle" /\ Idle.key \in Key
<1>1. PICK e \in Email, c \in Code : TRUE
  BY AccountsAssumption
<1>2. <<"kakaoCode", c>> \in Key
  BY <1>1 DEF Key
<1>3. (CHOOSE k \in Key : TRUE) \in Key
  BY <1>2
<1>4. [email |-> e, name |-> None, password |-> None, deleted |-> FALSE] \in Entity
  BY <1>1 DEF Entity
<1>5. (CHOOSE en \in Entity : TRUE) \in Entity
  BY <1>4
<1>6. 0 \in 0 .. MaxUsers
  BY AccountsAssumption
<1> QED BY <1>3, <1>5, <1>6 DEF Idle, RequestState

LEMMA IdleRelies == ASSUME NEW us PROVE Relies(Idle, us)
  BY IdleState DEF Relies

LEMMA MoveRelies ==
  ASSUME ReqOK, SavesRely, NEW r \in Request, NEW state \in RequestState, Move(r, state),
         Relies(state, users), UNCHANGED users
  PROVE  ReqOK' /\ SavesRely'
<1>1. req' = [req EXCEPT ![r] = state]
  BY DEF Move
<1>2. ReqOK'
  BY <1>1 DEF ReqOK
<1>3. ASSUME NEW s \in Request PROVE Relies(req'[s], users)
  <2>1. CASE s = r
    BY <2>1, <1>1 DEF ReqOK
  <2>2. CASE s # r
    BY <2>2, <1>1 DEF ReqOK, SavesRely
  <2> QED BY <2>1, <2>2
<1> QED BY <1>2, <1>3 DEF SavesRely

LEMMA ReplyRelies ==
  ASSUME ReqOK, SavesRely, NEW r \in Request, Reply(r), UNCHANGED users
  PROVE  ReqOK' /\ SavesRely'
  BY IdleState, IdleRelies, MoveRelies DEF Reply

\* A step of a request that touches no key leaves the keys their time to live.
LEMMA MoveLapse ==
  ASSUME ReqOK, KeysLapse, NEW r \in Request, ~ At(r, "expire"),
         \A s \in Request : s # r /\ At(s, "expire") => req'[s] = req[s],
         UNCHANGED <<keys, fails>>
  PROVE  KeysLapse'
<1> SUFFICES ASSUME fails = 0, NEW k \in Key, keys[k] # NoKey, ~ keys[k].ttl
    PROVE  \E s \in Request : At(s, "expire")' /\ req'[s].key = k
  BY DEF KeysLapse, At
<1>1. PICK s \in Request : At(s, "expire") /\ req[s].key = k
  BY DEF KeysLapse
<1> QED BY <1>1 DEF At

-----------------------------------------------------------------------------
(* Requests that begin.                                                     *)

LEMMA Begins ==
  ASSUME IInv, NEW r \in Request, NEW state \in RequestState, Begin(r, state),
         Relies(state, users), UNCHANGED <<users, keys, fails>>
  PROVE  IInv'
<1>1. Move(r, state) /\ At(r, "idle")
  BY DEF Begin
<1>2. ReqOK' /\ SavesRely'
  BY <1>1, MoveRelies DEF IInv
<1>3. \A s \in Request : s # r => req'[s] = req[s]
  BY <1>1 DEF Move, IInv, ReqOK
<1>4. KeysLapse'
  BY <1>1, <1>3, MoveLapse DEF IInv, At
<1> QED BY <1>2, <1>4 DEF IInv, UsersOK, KeysOK

LEMMA KnownUser ==
  ASSUME UsersOK, NEW u \in DOMAIN users
  PROVE  u \in Id /\ u \in 0 .. MaxUsers /\ users[u] \in Row
  BY AccountsAssumption DEF UsersOK, Id

LEMMA SignUpOK ==
  ASSUME IInv, NEW r \in Request, NEW e \in Email, NEW n \in Name, NEW p \in Password,
         SignUp(r, e, n, p)
  PROVE  IInv'
<1> DEFINE entity == [email |-> e, name |-> n, password |-> p, deleted |-> FALSE]
           state == [Idle EXCEPT !.pc = "insert", !.entity = entity]
<1>1. entity \in Row /\ entity \in Entity
  BY DEF Row, Entity
<1> HIDE DEF entity
<1>2. state \in RequestState /\ state.pc = "insert" /\ state.entity = entity
  BY <1>1, IdleState DEF RequestState
<1> HIDE DEF state
<1>3. Relies(state, users)
  BY <1>1, <1>2 DEF Relies
<1>4. Begin(r, state) /\ UNCHANGED <<users, keys, fails>>
  BY DEF SignUp, state, entity
<1> QED BY <1>2, <1>3, <1>4, Begins

LEMMA SetOK ==
  ASSUME IInv, NEW r \in Request, NEW u \in 0 .. MaxUsers, NEW k \in Key,
         Begin(r, [Idle EXCEPT !.pc = "set", !.user = u, !.key = k]),
         UNCHANGED <<users, keys, fails>>
  PROVE  IInv'
<1> DEFINE state == [Idle EXCEPT !.pc = "set", !.user = u, !.key = k]
<1>1. state \in RequestState /\ state.pc = "set"
  BY IdleState DEF RequestState
<1>2. Begin(r, state)
  OBVIOUS
<1> HIDE DEF state
<1>3. Relies(state, users)
  BY <1>1 DEF Relies
<1> QED BY <1>1, <1>2, <1>3, Begins

LEMMA TokenKey == \A u \in Id : TokenOf(u) \in Key
  BY DEF TokenOf, Key

LEMMA CodeKey == \A c \in Code : <<"kakaoCode", c>> \in Key
  BY DEF Key

LEMMA KakaoOK ==
  ASSUME IInv, NEW r \in Request, NEW e \in Email, NEW n \in Name, NEW c \in Code,
         GenerateKakaoCode(r, e, n, c)
  PROVE  IInv'
<1>0. UNCHANGED <<users, keys, fails>>
  BY DEF GenerateKakaoCode
<1>1. CASE WithEmail(e) = {}
  <2> DEFINE entity == [email |-> e, name |-> n, password |-> None, deleted |-> FALSE]
             state == [Idle EXCEPT !.pc = "insert", !.social = TRUE,
                         !.key = <<"kakaoCode", c>>, !.entity = entity]
  <2>1. entity \in Row /\ entity \in Entity
    BY DEF Row, Entity
  <2> HIDE DEF entity
  <2>2. state \in RequestState /\ state.pc = "insert" /\ state.entity = entity
    BY <2>1, IdleState, CodeKey DEF RequestState
  <2> HIDE DEF state
  <2>3. Relies(state, users)
    BY <2>1, <2>2 DEF Relies
  <2>4. Begin(r, state)
    BY <1>1 DEF GenerateKakaoCode, state, entity
  <2> QED BY <1>0, <2>2, <2>3, <2>4, Begins
<1>2. CASE WithEmail(e) # {}
  <2>1. PICK u \in WithEmail(e) :
          Begin(r, [Idle EXCEPT !.pc = "set", !.user = u, !.key = <<"kakaoCode", c>>])
    BY <1>2 DEF GenerateKakaoCode
  <2>2. u \in 0 .. MaxUsers
    BY KnownUser DEF WithEmail, IInv
  <2> QED BY <1>0, <2>1, <2>2, CodeKey, SetOK
<1> QED BY <1>1, <1>2

LEMMA SignInOK ==
  ASSUME IInv, NEW r \in Request, NEW e \in Email, NEW p \in Password, SignIn(r, e, p)
  PROVE  IInv'
<1>1. PICK u \in WithEmail(e) :
        Begin(r, [Idle EXCEPT !.pc = "set", !.user = u, !.key = TokenOf(u)])
  BY DEF SignIn
<1>2. u \in 0 .. MaxUsers /\ TokenOf(u) \in Key
  BY KnownUser, TokenKey DEF WithEmail, IInv
<1> QED BY <1>1, <1>2, SetOK DEF SignIn

LEMMA RefreshOK ==
  ASSUME IInv, NEW r \in Request, NEW u \in Id, RefreshToken(r, u)
  PROVE  IInv'
<1>1. u \in 0 .. MaxUsers /\ TokenOf(u) \in Key
  BY TokenKey, AccountsAssumption DEF Id
<1> QED BY <1>1, SetOK DEF RefreshToken

LEMMA VerifyOK ==
  ASSUME IInv, NEW r \in Request, NEW c \in Code, VerifyKakaoCode(r, c)
  PROVE  IInv'
<1> DEFINE u == keys[<<"kakaoCode", c>>].user
<1>1. u \in 0 .. MaxUsers /\ u # 0
  BY CodeKey DEF VerifyKakaoCode, IInv, KeysOK, KeyState
<1>2. u \in Id
  BY <1>1, AccountsAssumption DEF Id
<1>3. Begin(r, [Idle EXCEPT !.pc = "set", !.user = u, !.key = TokenOf(u)])
      /\ UNCHANGED <<users, keys, fails>>
  BY DEF VerifyKakaoCode
<1> HIDE DEF u
<1> QED BY <1>1, <1>2, <1>3, TokenKey, SetOK

LoadState(u, asked, entity) ==
  [Idle EXCEPT !.pc = "diff", !.user = u, !.asked = asked, !.entity = entity]

\* A save begins with an entity that equals the row but for what was asked.
LEMMA LoadOK ==
  ASSUME IInv, NEW r \in Request, NEW u \in DOMAIN users, NEW asked \in SUBSET Column,
         NEW entity \in Entity, entity.name \in Name, ~ entity.deleted,
         "password" \notin asked => entity.password = NotLoaded,
         \A c \in Column \ {"password"} : c \notin asked => entity[c] = users[u][c],
         Begin(r, LoadState(u, asked, entity)),
         UNCHANGED <<users, keys, fails>>
  PROVE  IInv'
<1> DEFINE state == LoadState(u, asked, entity)
<1>1. u \in 0 .. MaxUsers
  BY KnownUser DEF IInv
<1>2. /\ state \in RequestState /\ state.pc = "diff" /\ state.user = u
      /\ state.asked = asked /\ state.entity = entity
  BY <1>1, IdleState DEF RequestState, LoadState
<1>3. Begin(r, state)
  OBVIOUS
<1> HIDE DEF state
<1>4. Relies(state, users)
  BY <1>2 DEF Relies
<1> QED BY <1>2, <1>3, <1>4, Begins

LEMMA UpdateOK ==
  ASSUME IInv, NEW r \in Request, NEW u \in Id, NEW e \in Email \cup {None},
         NEW n \in Name \cup {None}, UpdateMyInfo(r, u, e, n)
  PROVE  IInv'
<1> DEFINE entity == [Loaded(u) EXCEPT !.email = IF e = None THEN @ ELSE e,
                                       !.name = IF n = None THEN @ ELSE n]
<1>1. u \in DOMAIN users /\ users[u] \in Row /\ ~ users[u].deleted
  BY KnownUser DEF UpdateMyInfo, Live, IInv
<1>2. /\ entity \in Entity /\ entity.name \in Name /\ entity.password = NotLoaded
      /\ entity.email = IF e = None THEN users[u].email ELSE e
      /\ entity.name = IF n = None THEN users[u].name ELSE n
      /\ entity.deleted = users[u].deleted
  BY <1>1 DEF Loaded, Row, Entity
<1>3. Given(e, n) \in SUBSET Column
  BY DEF Given, Column
<1>4. Begin(r, LoadState(u, Given(e, n), entity)) /\ UNCHANGED <<users, keys, fails>>
  BY DEF UpdateMyInfo, LoadState
<1> HIDE DEF entity
<1>5. ASSUME NEW c \in Column \ {"password"}, c \notin Given(e, n)
      PROVE  entity[c] = users[u][c]
  BY <1>2, <1>5 DEF Column, Given
<1> QED BY <1>1, <1>2, <1>3, <1>4, <1>5, LoadOK

LEMMA ResetOK ==
  ASSUME IInv, NEW r \in Request, NEW e \in Email, NEW p \in Password, ResetPassword(r, e, p)
  PROVE  IInv'
<1>1. PICK u \in WithEmail(e) :
        Begin(r, [Idle EXCEPT !.pc = "diff", !.user = u, !.asked = {"password"},
                    !.entity = [Loaded(u) EXCEPT !.password = p]])
  BY DEF ResetPassword
<1> DEFINE entity == [Loaded(u) EXCEPT !.password = p]
<1>2. u \in DOMAIN users /\ users[u] \in Row /\ ~ users[u].deleted
  BY KnownUser DEF WithEmail, Live, IInv
<1>3. /\ entity \in Entity /\ entity.email = users[u].email /\ entity.name = users[u].name
      /\ entity.deleted = users[u].deleted /\ entity.name \in Name
  BY <1>2 DEF Loaded, Row, Entity
<1>4. {"password"} \in SUBSET Column /\ UNCHANGED <<users, keys, fails>>
  BY DEF Column, ResetPassword
<1>5. Begin(r, LoadState(u, {"password"}, entity))
  BY <1>1 DEF LoadState
<1> HIDE DEF entity
<1>6. \A c \in Column \ {"password"} : entity[c] = users[u][c]
  BY <1>3 DEF Column
<1> QED BY <1>2, <1>3, <1>4, <1>5, <1>6, LoadOK

LEMMA DeleteOK ==
  ASSUME IInv, NEW r \in Request, NEW u \in Id, DeleteId(r, u)
  PROVE  IInv'
<1> DEFINE state == [Idle EXCEPT !.pc = "delete", !.user = u]
<1>1. u \in DOMAIN users /\ u \in 0 .. MaxUsers
  BY KnownUser DEF DeleteId, Live, IInv
<1>2. state \in RequestState /\ state.pc = "delete" /\ state.user = u
  BY <1>1, IdleState DEF RequestState
<1>3. Begin(r, state) /\ UNCHANGED <<users, keys, fails>>
  BY DEF DeleteId
<1> HIDE DEF state
<1>4. Relies(state, users)
  BY <1>1, <1>2 DEF Relies
<1> QED BY <1>2, <1>3, <1>4, Begins

LEMMA RegisterOK ==
  ASSUME IInv, NEW r \in Request, NEW u \in Id, RegisterProfile(r, u)
  PROVE  IInv'
<1> DEFINE w == IF Live(u) THEN u ELSE 0
           state == [Idle EXCEPT !.pc = "location", !.user = w]
<1>1. w \in 0 .. MaxUsers
  BY AccountsAssumption DEF Id
<1> HIDE DEF w
<1>2. state \in RequestState /\ state.pc = "location"
  BY <1>1, IdleState DEF RequestState
<1> HIDE DEF state
<1>3. Begin(r, state) /\ UNCHANGED <<users, keys, fails>>
  BY DEF RegisterProfile, state, w
<1>4. Relies(state, users)
  BY <1>2 DEF Relies
<1> QED BY <1>2, <1>3, <1>4, Begins

-----------------------------------------------------------------------------
(* Requests that go on.                                                     *)

\* A step that touches neither users nor keys.
LEMMA Continues ==
  ASSUME IInv, NEW r \in Request, NEW state \in RequestState, Move(r, state),
         Relies(state, users), ~ At(r, "expire"), UNCHANGED <<users, keys, fails>>
  PROVE  IInv'
<1>1. ReqOK' /\ SavesRely'
  BY MoveRelies DEF IInv
<1>2. \A s \in Request : s # r => req'[s] = req[s]
  BY DEF Move, IInv, ReqOK
<1>3. KeysLapse'
  BY <1>2, MoveLapse DEF IInv
<1> QED BY <1>1, <1>3 DEF IInv, UsersOK, KeysOK

LEMMA Ends ==
  ASSUME IInv, NEW r \in Request, Reply(r), ~ At(r, "expire"), UNCHANGED <<users, keys, fails>>
  PROVE  IInv'
  BY IdleState, IdleRelies, Continues DEF Reply

\* A longer table is the same to those who rely on a row.
LEMMA GrownRelies ==
  ASSUME NEW us \in Seq(Row), NEW row, NEW q, Relies(q, us)
  PROVE  Relies(q, Append(us, row))
<1>1. \A u \in DOMAIN us : u \in DOMAIN Append(us, row) /\ Append(us, row)[u] = us[u]
  OBVIOUS
<1> QED BY <1>1 DEF Relies

LEMMA InsertOK ==
  ASSUME IInv, NEW r \in Request, Insert(r)
  PROVE  IInv'
<1> DEFINE q == req[r]
           u == Len(users) + 1
<1>0. /\ At(r, "insert") /\ q \in RequestState /\ q.entity \in Row /\ users \in Seq(Row)
      /\ UNCHANGED <<keys, fails>>
  BY DEF Insert, IInv, ReqOK, UsersOK, SavesRely, Relies, At
<1>1. CASE Reply(r) /\ UNCHANGED users
  BY <1>0, <1>1, Ends DEF At
<1>2. CASE /\ u \in Id /\ users' = Append(users, q.entity)
           /\ IF q.social THEN Move(r, [q EXCEPT !.pc = "set", !.user = u]) ELSE KeepToken(r, u)
  <2>1. UsersOK'
    BY <1>0, <1>2, AccountsAssumption DEF UsersOK, Id
  <2>2. u \in 0 .. MaxUsers /\ TokenOf(u) \in Key
    BY <1>2, TokenKey, AccountsAssumption DEF Id
  <2>3. PICK state \in RequestState : Move(r, state) /\ state.pc = "set"
    <3>1. CASE q.social
      <4>1. [q EXCEPT !.pc = "set", !.user = u] \in RequestState
            /\ [q EXCEPT !.pc = "set", !.user = u].pc = "set"
        BY <1>0, <2>2 DEF RequestState
      <4> QED BY <3>1, <1>2, <4>1
    <3>2. CASE ~ q.social
      <4>1. [Idle EXCEPT !.pc = "set", !.user = u, !.key = TokenOf(u)] \in RequestState
            /\ [Idle EXCEPT !.pc = "set", !.user = u, !.key = TokenOf(u)].pc = "set"
        BY <2>2, IdleState DEF RequestState
      <4> QED BY <3>2, <1>2, <4>1 DEF KeepToken
    <3> QED BY <3>1, <3>2
  <2>4. req' = [req EXCEPT ![r] = state]
    BY <2>3 DEF Move
  <2>5. ReqOK' /\ \A s \in Request : s # r => req'[s] = req[s]
    BY <2>4 DEF IInv, ReqOK
  <2>6. ASSUME NEW s \in Request PROVE Relies(req'[s], users')
    <3>1. CASE s = r
      <4>1. req'[r] = state
        BY <2>4 DEF IInv, ReqOK
      <4> QED BY <3>1, <4>1, <2>3 DEF Relies
    <3>2. CASE s # r
      <4>1. Relies(req[s], users)
        BY DEF IInv, SavesRely
      <4>2. Relies(req[s], Append(users, q.entity))
        BY <4>1, <1>0, GrownRelies
      <4> QED BY <3>2, <2>5, <1>2, <4>2
    <3> QED BY <3>1, <3>2
  <2>7. KeysLapse'
    BY <1>0, <2>5, MoveLapse DEF IInv, At
  <2> QED BY <1>0, <2>1, <2>5, <2>6, <2>7 DEF IInv, KeysOK, SavesRely
<1>3. \/ Reply(r) /\ UNCHANGED users
      \/ /\ u \in Id /\ users' = Append(users, q.entity)
         /\ IF q.social THEN Move(r, [q EXCEPT !.pc = "set", !.user = u]) ELSE KeepToken(r, u)
  BY DEF Insert
<1> QED BY <1>1, <1>2, <1>3

LEMMA SetKeyOK ==
  ASSUME IInv, NEW r \in Request, SetKey(r)
  PROVE  IInv'
<1> DEFINE q == req[r]
           state == [q EXCEPT !.pc = "expire"]
<1>1. q \in RequestState /\ q.key \in Key /\ q.user \in 0 .. MaxUsers
  BY DEF IInv, ReqOK, RequestState
<1>2. state \in RequestState /\ state.pc = "expire" /\ state.key = q.key
  BY <1>1 DEF RequestState
<1>3. keys' = [keys EXCEPT ![q.key] = [user |-> q.user, ttl |-> FALSE]]
      /\ UNCHANGED <<users, fails>> /\ Move(r, state)
  BY DEF SetKey
<1>4. KeysOK'
  BY <1>1, <1>3 DEF IInv, KeysOK, KeyState
<1>5. At(r, "set")
  BY DEF SetKey
<1> HIDE DEF state, q
<1>6. Relies(state, users)
  BY <1>2 DEF Relies
<1>7. ReqOK' /\ SavesRely'
  BY <1>2, <1>3, <1>6, MoveRelies DEF IInv
<1>8. req'[r] = state /\ \A s \in Request : s # r => req'[s] = req[s]
  BY <1>3 DEF Move, IInv, ReqOK
<1>9. ASSUME fails = 0, NEW k \in Key, keys'[k] # NoKey, ~ keys'[k].ttl
      PROVE  \E s \in Request : At(s, "expire")' /\ req'[s].key = k
  <2>1. CASE k = q.key
    BY <2>1, <1>2, <1>8 DEF At
  <2>2. CASE k # q.key
    <3>1. keys'[k] = keys[k]
      BY <2>2, <1>3 DEF IInv, KeysOK
    <3>2. PICK s \in Request : At(s, "expire") /\ req[s].key = k
      BY <1>9, <3>1 DEF IInv, KeysLapse
    <3> QED BY <3>2, <1>5, <1>8 DEF At
  <2> QED BY <2>1, <2>2
<1>10. KeysLapse'
  BY <1>3, <1>9 DEF KeysLapse
<1> QED BY <1>3, <1>4, <1>7, <1>10 DEF IInv, UsersOK

LEMMA ExpireKeyOK ==
  ASSUME IInv, NEW r \in Request, ExpireKey(r)
  PROVE  IInv'
<1> DEFINE k == req[r].key
<1>1. k \in Key /\ UNCHANGED <<users, fails>> /\ Reply(r)
      /\ keys' = IF keys[k] = NoKey THEN keys ELSE [keys EXCEPT ![k].ttl = TRUE]
  BY DEF IInv, ReqOK, RequestState, ExpireKey
<1>2. ReqOK' /\ SavesRely'
  BY <1>1, ReplyRelies DEF IInv
<1>3. \A s \in Request : s # r => req'[s] = req[s]
  BY <1>1 DEF Reply, Move, IInv, ReqOK
<1>4. KeysOK'
  BY <1>1 DEF IInv, KeysOK, KeyState
<1>5. \A l \in Key : /\ l # k => keys'[l] = keys[l]
                     /\ l = k => keys'[l] = NoKey \/ keys'[l].ttl
  BY <1>1 DEF IInv, KeysOK, KeyState
<1> HIDE DEF k
<1>6. ASSUME fails = 0, NEW l \in Key, keys'[l] # NoKey, ~ keys'[l].ttl
      PROVE  \E s \in Request : At(s, "expire")' /\ req'[s].key = l
  <2>1. l # k /\ keys'[l] = keys[l]
    BY <1>5, <1>6
  <2>2. PICK s \in Request : At(s, "expire") /\ req[s].key = l
    BY <1>6, <2>1 DEF IInv, KeysLapse
  <2>3. s # r
    BY <2>1, <2>2 DEF k
  <2> QED BY <2>2, <2>3, <1>3 DEF At
<1>7. KeysLapse'
  BY <1>1, <1>6 DEF KeysLapse
<1> QED BY <1>1, <1>2, <1>4, <1>7 DEF IInv, UsersOK

LEMMA ForgetOK ==
  ASSUME IInv, NEW k \in Key, keys' = [keys EXCEPT ![k] = NoKey],
         UNCHANGED <<users, req, fails>>
  PROVE  IInv'
<1>1. KeysOK' /\ \A l \in Key : keys'[l] = IF l = k THEN NoKey ELSE keys[l]
  <2>1. NoKey \in KeyState
    BY AccountsAssumption DEF NoKey, KeyState
  <2> QED BY <2>1 DEF IInv, KeysOK
<1>2. KeysLapse'
  BY <1>1 DEF IInv, KeysLapse, At
<1> QED BY <1>1, <1>2 DEF IInv, UsersOK, ReqOK, SavesRely

LEMMA SaveDiffOK ==
  ASSUME IInv, NEW r \in Request, SaveDiff(r)
  PROVE  IInv'
<1> DEFINE q == req[r]
           diff == Differing(q.entity, users[q.user])
           state == [q EXCEPT !.pc = "write", !.diff = diff]
<1>0. At(r, "diff") /\ ~ At(r, "expire") /\ UNCHANGED <<users, keys, fails>>
  BY DEF SaveDiff, At
<1>1. CASE Reply(r)
  BY <1>0, <1>1, Ends
<1>2. CASE Move(r, state)
  <2>1. q \in RequestState /\ Relies(q, users) /\ q.pc = "diff"
    BY <1>0 DEF IInv, ReqOK, SavesRely, At
  <2>2. diff \in SUBSET Column
    BY DEF Differing
  <2>3. \A c \in diff : /\ q.entity[c] # users[q.user][c]
                        /\ c = "password" => q.entity[c] # NotLoaded
    BY DEF Differing
  <2> HIDE DEF diff
  <2>4. /\ state \in RequestState /\ state.pc = "write" /\ state.user = q.user
        /\ state.entity = q.entity /\ state.asked = q.asked /\ state.diff = diff
        /\ state.overtaken = q.overtaken
    BY <2>1, <2>2 DEF RequestState
  <2> HIDE DEF state
  <2>5. ASSUME NEW c \in diff PROVE c \in q.asked \/ (q.overtaken /\ c # "password")
    BY <2>1, <2>2, <2>3 DEF Relies
  <2>6. Relies(state, users)
    BY <2>1, <2>3, <2>4, <2>5 DEF Relies
  <2> QED BY <1>0, <1>2, <2>4, <2>6, Continues
<1> QED BY <1>1, <1>2 DEF SaveDiff

\* Who changes a row marks the requests that have loaded it.
LEMMA OvertakeOK ==
  ASSUME IInv, NEW r \in Request, ~ At(r, "expire"), NEW u \in DOMAIN users, NEW row \in Row,
         users' = [users EXCEPT ![u] = row], req' = Overtake(r, u, Idle),
         UNCHANGED <<keys, fails>>
  PROVE  IInv'
<1>1. users \in Seq(Row) /\ users' \in Seq(Row) /\ Len(users') = Len(users)
      /\ DOMAIN users' = DOMAIN users
      /\ \A v \in DOMAIN users : v # u => users'[v] = users[v]
  BY DEF IInv, UsersOK
<1>2. UsersOK'
  BY <1>1 DEF IInv, UsersOK
<1>3. /\ req'[r] = Idle
      /\ \A s \in Request : s # r =>
           req'[s] = IF req[s].pc \in {"diff", "write"} /\ req[s].user = u
                     THEN [req[s] EXCEPT !.overtaken = TRUE] ELSE req[s]
  BY DEF Overtake
<1>4. ReqOK'
  <2>1. \A s \in Request : [req[s] EXCEPT !.overtaken = TRUE] \in RequestState
    BY DEF IInv, ReqOK, RequestState
  <2> QED BY <2>1, IdleState DEF IInv, ReqOK, Overtake
<1>5. ASSUME NEW s \in Request PROVE Relies(req'[s], users')
  <2>1. CASE s = r
    BY <2>1, <1>3, IdleRelies
  <2>2. CASE s # r /\ req[s].pc \in {"diff", "write"} /\ req[s].user = u
    <3>1. req[s] \in RequestState /\ Relies(req[s], users)
      BY DEF IInv, ReqOK, SavesRely
    <3>2. req'[s] = [req[s] EXCEPT !.overtaken = TRUE]
      BY <2>2, <1>3
    <3>3. /\ req'[s].pc = req[s].pc /\ req'[s].user = u /\ req'[s].entity = req[s].entity
          /\ req'[s].asked = req[s].asked /\ req'[s].diff = req[s].diff /\ req'[s].overtaken
      BY <2>2, <3>1, <3>2 DEF RequestState
    <3> QED BY <2>2, <3>1, <3>3, <1>1 DEF Relies
  <2>3. CASE s # r /\ ~ (req[s].pc \in {"diff", "write"} /\ req[s].user = u)
    <3>1. Relies(req[s], users) /\ req'[s] = req[s]
      BY <2>3, <1>3 DEF IInv, SavesRely
    <3> QED BY <2>3, <3>1, <1>1 DEF Relies
  <2> QED BY <2>1, <2>2, <2>3
<1>6. \A s \in Request : s # r /\ At(s, "expire") => req'[s] = req[s]
  BY <1>3 DEF At
<1>7. KeysLapse'
  BY <1>6, MoveLapse DEF IInv
<1> QED BY <1>2, <1>4, <1>5, <1>7 DEF IInv, KeysOK, SavesRely

\* What a save writes is a row.
LEMMA Written ==
  ASSUME NEW row \in Row, NEW entity \in Entity, NEW diff \in SUBSET Column,
         entity.name \in Name, "password" \in diff => entity.password # NotLoaded
  PROVE  [c \in Column |-> IF c \in diff THEN entity[c] ELSE row[c]] \in Row
<1> DEFINE new == [c \in Column |-> IF c \in diff THEN entity[c] ELSE row[c]]
<1>1. new = [email |-> new["email"], name |-> new["name"], password |-> new["password"],
             deleted |-> new["deleted"]]
  BY DEF Column
<1>2. /\ new["email"] \in Email /\ new["name"] \in Name
      /\ new["password"] \in Password \cup {None} /\ new["deleted"] \in BOOLEAN
  BY DEF Column, Row, Entity
<1> HIDE DEF new
<1>3. new \in Row
  BY <1>1, <1>2 DEF Row
<1> QED BY <1>3 DEF new

LEMMA SaveWriteOK ==
  ASSUME IInv, NEW r \in Request, SaveWrite(r)
  PROVE  IInv'
<1> DEFINE q == req[r]
           row == [c \in Column |-> IF c \in q.diff THEN q.entity[c] ELSE users[q.user][c]]
<1>0. At(r, "write") /\ ~ At(r, "expire") /\ UNCHANGED <<keys, fails>>
  BY DEF SaveWrite, At
<1>1. CASE Reply(r) /\ UNCHANGED users
  BY <1>0, <1>1, Ends
<1>2. CASE users' = [users EXCEPT ![q.user] = row] /\ req' = Overtake(r, q.user, Idle)
  <2>1. q \in RequestState /\ Relies(q, users) /\ q.pc = "write"
    BY <1>0 DEF IInv, ReqOK, SavesRely, At
  <2>2. q.user \in DOMAIN users /\ users[q.user] \in Row
    BY <2>1, KnownUser DEF Relies, IInv
  <2>3. row \in Row
    BY <2>1, <2>2, Written DEF Relies, RequestState
  <2> HIDE DEF q, row
  <2> QED BY <1>0, <1>2, <2>2, <2>3, OvertakeOK
<1>3. \/ Reply(r) /\ UNCHANGED users
      \/ users' = [users EXCEPT ![q.user] = row] /\ req' = Overtake(r, q.user, Idle)
  BY DEF SaveWrite
<1> QED BY <1>1, <1>2, <1>3

LEMMA SoftDeleteOK ==
  ASSUME IInv, NEW r \in Request, SoftDelete(r)
  PROVE  IInv'
<1> DEFINE u == req[r].user
           row == [users[u] EXCEPT !.deleted = TRUE]
<1>1. At(r, "delete") /\ ~ At(r, "expire") /\ UNCHANGED <<keys, fails>>
      /\ users' = [users EXCEPT ![u] = row] /\ req' = Overtake(r, u, Idle)
  BY DEF SoftDelete, At
<1>2. u \in DOMAIN users
  BY <1>1 DEF IInv, SavesRely, Relies, At
<1>3. row \in Row
  BY <1>2, KnownUser DEF IInv, Row
<1> HIDE DEF u, row
<1> QED BY <1>1, <1>2, <1>3, OvertakeOK

LEMMA SaveLocationOK ==
  ASSUME IInv, locations \in Nat, NEW r \in Request, SaveLocation(r)
  PROVE  IInv'
<1> DEFINE q == req[r]
           state == [q EXCEPT !.pc = "profile", !.location = locations + 1]
<1>0. At(r, "location") /\ ~ At(r, "expire") /\ UNCHANGED <<users, keys, fails>>
  BY DEF SaveLocation, At
<1>1. CASE Reply(r)
  BY <1>0, <1>1, Ends
<1>2. CASE Move(r, state)
  <2>0. q \in RequestState /\ locations + 1 \in Nat
    BY DEF IInv, ReqOK
  <2>1. state \in RequestState /\ state.pc = "profile"
    BY <2>0 DEF RequestState
  <2> HIDE DEF state
  <2>2. Relies(state, users)
    BY <2>1 DEF Relies
  <2> QED BY <1>0, <1>2, <2>1, <2>2, Continues
<1> QED BY <1>1, <1>2 DEF SaveLocation, RollBack

LEMMA SaveProfileOK ==
  ASSUME IInv, NEW r \in Request, SaveProfile(r)
  PROVE  IInv'
<1>1. Reply(r) /\ ~ At(r, "expire") /\ UNCHANGED <<users, keys, fails>>
  BY DEF SaveProfile, RollBack, At
<1> QED BY <1>1, Ends

LEMMA FailOK ==
  ASSUME IInv, fails \in Nat, NEW r \in Request, Fail(r)
  PROVE  IInv'
<1>1. Reply(r) /\ fails' = fails + 1 /\ UNCHANGED <<users, keys>>
  BY DEF Fail, RollBack
<1>2. ReqOK' /\ SavesRely'
  BY <1>1, ReplyRelies DEF IInv
<1>3. KeysLapse'
  BY <1>1 DEF KeysLapse
<1> QED BY <1>1, <1>2, <1>3 DEF IInv, UsersOK, KeysOK

LEMMA ProcessEndsOK ==
  ASSUME IInv, fails \in Nat, NEW r \in Request, ProcessEnds(r)
  PROVE  IInv'
<1>1. fails' = fails + 1 /\ UNCHANGED <<users, keys>> /\ req' = [s \in Request |-> Idle]
  BY DEF ProcessEnds
<1>2. ReqOK' /\ SavesRely'
  BY <1>1, IdleState, IdleRelies DEF ReqOK, SavesRely
<1>3. KeysLapse'
  BY <1>1 DEF KeysLapse
<1> QED BY <1>1, <1>2, <1>3 DEF IInv, UsersOK, KeysOK

-----------------------------------------------------------------------------
(* Locations and profiles.                                                  *)

HaveProfile == {u \in Id : profile[u] # 0}
Registering == {r \in Request : At(r, "profile")}

LocationsOK ==
  /\ profile \in [Id -> Nat] /\ locations \in Nat /\ lost \in Nat /\ fails \in Nat
  /\ \A r \in Request : At(r, "profile") => req[r].user \in Id /\ req[r].location # 0
  /\ \A r \in Request : At(r, "location") => req[r].user \in Id \cup {0}
  /\ LocationsLeftByRollback

LEMMA FiniteSides == IsFiniteSet(HaveProfile) /\ IsFiniteSet(Registering)
<1>1. IsFiniteSet(Id)
  BY FS_Interval, AccountsAssumption DEF Id
<1> QED BY <1>1, FS_Subset, AccountsAssumption DEF HaveProfile, Registering

\* A step of a request that is not about to save a profile and does not become so.
LEMMA StillLocations ==
  ASSUME LocationsOK, UNCHANGED <<profile, locations, lost>>, fails' \in Nat,
         \A r \in Request : /\ At(r, "profile")' <=> At(r, "profile")
                            /\ At(r, "profile") => req'[r] = req[r]
                            /\ At(r, "location")' => req'[r].user \in Id \cup {0}
  PROVE  LocationsOK'
<1>1. HaveProfile' = HaveProfile /\ Registering' = Registering
  BY DEF HaveProfile, Registering
<1>2. LocationsLeftByRollback'
  BY <1>1 DEF LocationsOK, LocationsLeftByRollback, HaveProfile, Registering
<1> QED BY <1>2 DEF LocationsOK

LEMMA SaveLocationCounts ==
  ASSUME ReqOK, LocationsOK, NEW r \in Request, SaveLocation(r)
  PROVE  LocationsOK'
<1>0. /\ At(r, "location") /\ locations' = locations + 1 /\ UNCHANGED <<profile, fails>>
      /\ HaveProfile' = HaveProfile /\ r \notin Registering
  BY DEF SaveLocation, HaveProfile, Registering, At
<1>1. CASE req[r].user = 0
  <2>0. req' = [req EXCEPT ![r] = Idle]
    BY <1>1 DEF SaveLocation, RollBack, Reply, Move
  <2>1. lost' = lost + 1
    BY <1>1 DEF SaveLocation, RollBack
  <2>2. /\ \A s \in Request : s # r => req'[s] = req[s]
        /\ req'[r].pc = "idle"
    BY <2>0, IdleState DEF ReqOK
  <2>3. Registering' = Registering
    BY <1>0, <2>2 DEF Registering, At
  <2>4. /\ Cardinality(HaveProfile) \in Nat /\ Cardinality(Registering) \in Nat
    BY FiniteSides, FS_CardinalityType
  <2>5. /\ Cardinality(HaveProfile') = Cardinality(HaveProfile)
        /\ Cardinality(Registering') = Cardinality(Registering)
    BY <1>0, <2>3
  <2>6. LocationsLeftByRollback'
    BY <1>0, <2>1, <2>4, <2>5
    DEF LocationsOK, LocationsLeftByRollback, HaveProfile, Registering
  <2> QED BY <1>0, <2>1, <2>2, <2>6 DEF LocationsOK, At
<1>2. CASE req[r].user # 0
  <2>1. /\ UNCHANGED lost
        /\ req' = [req EXCEPT ![r] = [req[r] EXCEPT !.pc = "profile", !.location = locations + 1]]
    BY <1>2 DEF SaveLocation, Move
  <2>2. /\ \A s \in Request : s # r => req'[s] = req[s]
        /\ req'[r].pc = "profile" /\ req'[r].user = req[r].user
        /\ req'[r].location = locations + 1
    BY <2>1 DEF ReqOK, RequestState
  <2>3. Registering' = Registering \cup {r}
    BY <1>0, <2>2 DEF Registering, At
  <2>4. Cardinality(Registering') = Cardinality(Registering) + 1
    BY <1>0, <2>3, FiniteSides, FS_AddElement
  <2>5. /\ Cardinality(HaveProfile) \in Nat /\ Cardinality(Registering) \in Nat
    BY FiniteSides, FS_CardinalityType
  <2>6. LocationsLeftByRollback'
    BY <1>0, <2>1, <2>4, <2>5
    DEF LocationsOK, LocationsLeftByRollback, HaveProfile, Registering
  <2>7. req[r].user \in Id /\ locations + 1 # 0
    BY <1>0, <1>2 DEF LocationsOK
  <2> QED BY <1>0, <2>1, <2>2, <2>6, <2>7 DEF LocationsOK, At
<1> QED BY <1>1, <1>2

LEMMA SaveProfileCounts ==
  ASSUME ReqOK, LocationsOK, NEW r \in Request, At(r, "profile"), Reply(r),
         UNCHANGED locations, fails' \in Nat,
         \/ lost' = lost + 1 /\ UNCHANGED profile
         \/ /\ profile[req[r].user] = 0 /\ UNCHANGED lost
            /\ profile' = [profile EXCEPT ![req[r].user] = req[r].location]
  PROVE  LocationsOK'
<1> DEFINE u == req[r].user
<1>0. u \in Id /\ req[r].location \in Nat \ {0}
  BY DEF LocationsOK, ReqOK, RequestState
<1>1. /\ \A s \in Request : s # r => req'[s] = req[s]
      /\ req'[r].pc = "idle"
  BY IdleState DEF Reply, Move, ReqOK
<1>2. Registering' = Registering \ {r} /\ r \in Registering
  BY <1>1 DEF Registering, At
<1>3. Cardinality(Registering') = Cardinality(Registering) - 1
  BY <1>2, FiniteSides, FS_RemoveElement
<1>4. Cardinality(HaveProfile) \in Nat /\ Cardinality(Registering) \in Nat
  BY FiniteSides, FS_CardinalityType
<1>5. CASE lost' = lost + 1 /\ UNCHANGED profile
  <2>1. HaveProfile' = HaveProfile
    BY <1>5 DEF HaveProfile
  <2>2. LocationsLeftByRollback'
    BY <1>3, <1>4, <1>5, <2>1
    DEF LocationsOK, LocationsLeftByRollback, HaveProfile, Registering
  <2> QED BY <1>1, <1>5, <2>2 DEF LocationsOK, At
<1>6. CASE /\ profile[u] = 0 /\ UNCHANGED lost
           /\ profile' = [profile EXCEPT ![u] = req[r].location]
  <2>1. HaveProfile' = HaveProfile \cup {u} /\ u \notin HaveProfile
    BY <1>0, <1>6 DEF HaveProfile, LocationsOK
  <2>2. Cardinality(HaveProfile') = Cardinality(HaveProfile) + 1
    BY <2>1, FiniteSides, FS_AddElement
  <2>3. LocationsLeftByRollback'
    BY <1>3, <1>4, <1>6, <2>2
    DEF LocationsOK, LocationsLeftByRollback, HaveProfile, Registering
  <2>4. profile' \in [Id -> Nat]
    BY <1>0, <1>6 DEF LocationsOK
  <2> QED BY <1>1, <1>6, <2>3, <2>4 DEF LocationsOK, At
<1> QED BY <1>5, <1>6

\* A step of a request that has no profile to save, before or after.
Elsewhere(r, state) ==
  /\ Move(r, state)
  /\ ~ At(r, "profile") /\ state.pc # "profile"
  /\ state.pc = "location" => state.user \in Id \cup {0}

LEMMA MoveLocations ==
  ASSUME ReqOK, LocationsOK, NEW r \in Request, NEW state, Elsewhere(r, state),
         UNCHANGED <<profile, locations, lost>>, fails' \in Nat
  PROVE  LocationsOK'
<1>1. req'[r] = state /\ \A s \in Request : s # r => req'[s] = req[s]
  BY DEF Elsewhere, Move, ReqOK
<1>2. ASSUME NEW s \in Request
      PROVE  /\ At(s, "profile")' <=> At(s, "profile")
             /\ At(s, "profile") => req'[s] = req[s]
             /\ At(s, "location")' => req'[s].user \in Id \cup {0}
  <2>1. CASE s = r
    BY <2>1, <1>1 DEF Elsewhere, At
  <2>2. CASE s # r
    BY <2>2, <1>1 DEF LocationsOK, At
  <2> QED BY <2>1, <2>2
<1> QED BY <1>2, StillLocations

LEMMA OvertakeLocations ==
  ASSUME ReqOK, LocationsOK, NEW r \in Request, ~ At(r, "profile"), NEW u,
         req' = Overtake(r, u, Idle),
         UNCHANGED <<profile, locations, lost>>, fails' \in Nat
  PROVE  LocationsOK'
<1>1. ASSUME NEW s \in Request
      PROVE  /\ At(s, "profile")' <=> At(s, "profile")
             /\ At(s, "profile") => req'[s] = req[s]
             /\ At(s, "location")' => req'[s].user \in Id \cup {0}
  <2>1. CASE s = r
    BY <2>1, IdleState DEF Overtake, At
  <2>2. CASE s # r /\ req[s].pc \in {"diff", "write"} /\ req[s].user = u
    <3>1. req'[s] = [req[s] EXCEPT !.overtaken = TRUE] /\ req[s] \in RequestState
      BY <2>2 DEF Overtake, ReqOK
    <3>2. req'[s].pc = req[s].pc
      BY <3>1 DEF RequestState
    <3> QED BY <2>2, <3>2 DEF At
  <2>3. CASE s # r /\ ~ (req[s].pc \in {"diff", "write"} /\ req[s].user = u)
    <3>1. req'[s] = req[s]
      BY <2>3 DEF Overtake
    <3> QED BY <3>1 DEF LocationsOK, At
  <2> QED BY <2>1, <2>2, <2>3
<1> QED BY <1>1, StillLocations

LEMMA ReplyElsewhere ==
  ASSUME NEW r \in Request, Reply(r), ~ At(r, "profile")
  PROVE  Elsewhere(r, Idle)
  BY IdleState DEF Reply, Elsewhere

\* The requests that begin.
LEMMA BeginElsewhere ==
  ASSUME NEW r \in Request, NEW state, Begin(r, state), state.pc # "profile",
         state.pc = "location" => state.user \in Id \cup {0}
  PROVE  Elsewhere(r, state)
  BY DEF Begin, Elsewhere, At

LEMMA SetElsewhere ==
  ASSUME NEW r \in Request, NEW u, NEW k,
         Begin(r, [Idle EXCEPT !.pc = "set", !.user = u, !.key = k])
  PROVE  \E state : Elsewhere(r, state)
<1>1. [Idle EXCEPT !.pc = "set", !.user = u, !.key = k].pc = "set"
  BY IdleState DEF RequestState
<1> QED BY <1>1, BeginElsewhere

LEMMA BeginsElsewhere ==
  ASSUME NEW r \in Request,
         \/ \E e \in Email :
              \/ \E n \in Name, p \in Password : SignUp(r, e, n, p)
              \/ \E n \in Name, c \in Code : GenerateKakaoCode(r, e, n, c)
              \/ \E p \in Password : SignIn(r, e, p) \/ ResetPassword(r, e, p)
         \/ \E c \in Code : VerifyKakaoCode(r, c)
         \/ \E u \in Id :
              \/ RefreshToken(r, u) \/ DeleteId(r, u) \/ RegisterProfile(r, u)
              \/ \E e \in Email \cup {None}, n \in Name \cup {None} : UpdateMyInfo(r, u, e, n)
  PROVE  /\ \E state : Elsewhere(r, state)
         /\ UNCHANGED <<profile, locations, lost, fails>>
<1>1. ASSUME NEW e \in Email, NEW n \in Name, NEW p \in Password, SignUp(r, e, n, p)
      PROVE  \E state : Elsewhere(r, state)
  <2> DEFINE state == [Idle EXCEPT !.pc = "insert",
                 !.entity = [email |-> e, name |-> n, password |-> p, deleted |-> FALSE]]
  <2>1. state.pc = "insert"
    BY IdleState DEF RequestState
  <2>2. Begin(r, state)
    BY <1>1 DEF SignUp
  <2> HIDE DEF state
  <2> QED BY <2>1, <2>2, BeginElsewhere
<1>2. ASSUME NEW e \in Email, NEW n \in Name, NEW c \in Code, GenerateKakaoCode(r, e, n, c)
      PROVE  \E state : Elsewhere(r, state)
  <2>1. CASE WithEmail(e) = {}
    <3> DEFINE state == [Idle EXCEPT !.pc = "insert", !.social = TRUE, !.key = <<"kakaoCode", c>>,
                   !.entity = [email |-> e, name |-> n, password |-> None, deleted |-> FALSE]]
    <3>1. state.pc = "insert"
      BY IdleState DEF RequestState
    <3>2. Begin(r, state)
      BY <1>2, <2>1 DEF GenerateKakaoCode
    <3> HIDE DEF state
    <3> QED BY <3>1, <3>2, BeginElsewhere
  <2>2. CASE WithEmail(e) # {}
    <3>1. PICK u \in WithEmail(e) :
            Begin(r, [Idle EXCEPT !.pc = "set", !.user = u, !.key = <<"kakaoCode", c>>])
      BY <1>2, <2>2 DEF GenerateKakaoCode
    <3> QED BY <3>1, SetElsewhere
  <2> QED BY <2>1, <2>2
<1>3. ASSUME NEW e \in Email, NEW p \in Password, SignIn(r, e, p)
      PROVE  \E state : Elsewhere(r, state)
  <2>1. PICK u \in WithEmail(e) :
          Begin(r, [Idle EXCEPT !.pc = "set", !.user = u, !.key = TokenOf(u)])
    BY <1>3 DEF SignIn
  <2> QED BY <2>1, SetElsewhere
<1>4. ASSUME NEW e \in Email, NEW p \in Password, ResetPassword(r, e, p)
      PROVE  \E state : Elsewhere(r, state)
  <2>1. PICK u \in WithEmail(e) :
          Begin(r, LoadState(u, {"password"}, [Loaded(u) EXCEPT !.password = p]))
    BY <1>4 DEF ResetPassword, LoadState
  <2>2. LoadState(u, {"password"}, [Loaded(u) EXCEPT !.password = p]).pc = "diff"
    BY IdleState DEF RequestState, LoadState
  <2> QED BY <2>1, <2>2, BeginElsewhere
<1>5. ASSUME NEW c \in Code, VerifyKakaoCode(r, c)
      PROVE  \E state : Elsewhere(r, state)
  BY <1>5, SetElsewhere DEF VerifyKakaoCode
<1>6. ASSUME NEW u \in Id, RefreshToken(r, u)
      PROVE  \E state : Elsewhere(r, state)
  BY <1>6, SetElsewhere DEF RefreshToken
<1>7. ASSUME NEW u \in Id, DeleteId(r, u)
      PROVE  \E state : Elsewhere(r, state)
  <2>1. [Idle EXCEPT !.pc = "delete", !.user = u].pc = "delete"
    BY IdleState DEF RequestState
  <2>2. Begin(r, [Idle EXCEPT !.pc = "delete", !.user = u])
    BY <1>7 DEF DeleteId
  <2> QED BY <2>1, <2>2, BeginElsewhere
<1>8. ASSUME NEW u \in Id, RegisterProfile(r, u)
      PROVE  \E state : Elsewhere(r, state)
  <2> DEFINE w == IF Live(u) THEN u ELSE 0
             state == [Idle EXCEPT !.pc = "location", !.user = w]
  <2>1. state.pc = "location" /\ state.user = w /\ w \in Id \cup {0}
    BY IdleState DEF RequestState
  <2>2. Begin(r, state)
    BY <1>8 DEF RegisterProfile
  <2> HIDE DEF state, w
  <2> QED BY <2>1, <2>2, BeginElsewhere
<1>9. ASSUME NEW u \in Id, NEW e \in Email \cup {None}, NEW n \in Name \cup {None},
             UpdateMyInfo(r, u, e, n)
      PROVE  \E state : Elsewhere(r, state)
  <2> DEFINE entity == [Loaded(u) EXCEPT !.email = IF e = None THEN @ ELSE e,
                                         !.name = IF n = None THEN @ ELSE n]
  <2>1. Begin(r, LoadState(u, Given(e, n), entity))
    BY <1>9 DEF UpdateMyInfo, LoadState
  <2> HIDE DEF entity
  <2>2. LoadState(u, Given(e, n), entity).pc = "diff"
    BY IdleState DEF RequestState, LoadState
  <2> QED BY <2>1, <2>2, BeginElsewhere
<1>10. UNCHANGED <<profile, locations, lost, fails>>
  BY DEF SignUp, GenerateKakaoCode, SignIn, ResetPassword, VerifyKakaoCode, RefreshToken,
         DeleteId, RegisterProfile, UpdateMyInfo
<1>11. \E state : Elsewhere(r, state)
  BY <1>1, <1>2, <1>3, <1>4, <1>5, <1>6, <1>7, <1>8, <1>9
<1> QED BY <1>10, <1>11

-----------------------------------------------------------------------------
(* The invariant and its theorems.                                          *)

LEMMA InitInv == Init => IInv /\ LocationsOK
<1> SUFFICES ASSUME Init PROVE IInv /\ LocationsOK
  OBVIOUS
<1>1. UsersOK
  BY FoundersAssumption DEF Init, UsersOK
<1>2. ReqOK /\ \A r \in Request : req[r] = Idle
  BY IdleState DEF Init, ReqOK
<1>3. KeysOK
  BY AccountsAssumption DEF Init, KeysOK, NoKey, KeyState
<1>4. SavesRely
  BY <1>2, IdleRelies DEF SavesRely
<1>5. KeysLapse
  BY DEF Init, KeysLapse
<1>6. HaveProfile = {} /\ Registering = {}
  BY <1>2, IdleState DEF Init, HaveProfile, Registering, At
<1>7. Cardinality(HaveProfile) = 0 /\ Cardinality(Registering) = 0
  BY <1>6, FS_EmptySet
<1>8. LocationsLeftByRollback
  BY <1>7 DEF Init, LocationsLeftByRollback, HaveProfile, Registering
<1>9. \A r \in Request : ~ At(r, "profile") /\ ~ At(r, "location")
  BY <1>2, IdleState DEF At
<1> QED BY <1>1, <1>2, <1>3, <1>4, <1>5, <1>8, <1>9 DEF IInv, LocationsOK, Init

\* The cases of Next: a request that begins, one that goes on, and the rest.
Begun(r) ==
  \/ \E e \in Email :
       \/ \E n \in Name, p \in Password : SignUp(r, e, n, p)
       \/ \E n \in Name, c \in Code : GenerateKakaoCode(r, e, n, c)
       \/ \E p \in Password : SignIn(r, e, p) \/ ResetPassword(r, e, p)
  \/ \E c \in Code : VerifyKakaoCode(r, c)
  \/ \E u \in Id :
       \/ RefreshToken(r, u) \/ DeleteId(r, u) \/ RegisterProfile(r, u)
       \/ \E e \in Email \cup {None}, n \in Name \cup {None} : UpdateMyInfo(r, u, e, n)

Handled(r) ==
  \/ Insert(r) \/ SetKey(r) \/ ExpireKey(r) \/ SaveDiff(r) \/ SaveWrite(r)
  \/ SoftDelete(r) \/ SaveLocation(r) \/ SaveProfile(r) \/ Fail(r) \/ ProcessEnds(r)

Alone ==
  \/ \E u \in Id : SignOut(u)
  \/ \E k \in Key : Lapse(k)
  \/ OpenList \/ ReadList

LEMMA NextCases == Next <=> (\E r \in Request : Begun(r) \/ Handled(r)) \/ Alone
  BY ZenonT(60) DEF Next, Begun, Handled, Alone

LEMMA BegunInv ==
  ASSUME IInv, LocationsOK, NEW r \in Request, Begun(r)
  PROVE  IInv' /\ LocationsOK'
<1>1. IInv'
  BY SignUpOK, KakaoOK, SignInOK, ResetOK, VerifyOK, RefreshOK, DeleteOK, RegisterOK, UpdateOK
  DEF Begun
<1>2. (\E state : Elsewhere(r, state)) /\ UNCHANGED <<profile, locations, lost, fails>>
  BY BeginsElsewhere DEF Begun
<1>3. LocationsOK'
  BY <1>2, MoveLocations DEF IInv, LocationsOK
<1> QED BY <1>1, <1>3

LEMMA HandledInv ==
  ASSUME IInv, LocationsOK, NEW r \in Request, Handled(r)
  PROVE  IInv' /\ LocationsOK'
<1>1. IInv'
  BY InsertOK, SetKeyOK, ExpireKeyOK, SaveDiffOK, SaveWriteOK, SoftDeleteOK, SaveLocationOK,
     SaveProfileOK, FailOK, ProcessEndsOK
  DEF Handled, LocationsOK
<1>2. ASSUME Insert(r) PROVE LocationsOK'
  <2>1. ~ At(r, "profile") /\ UNCHANGED <<profile, locations, lost, fails>>
    BY <1>2 DEF Insert, At
  <2>2. \E state : Elsewhere(r, state)
    <3>1. CASE Reply(r)
      BY <2>1, <3>1, ReplyElsewhere
    <3>2. CASE KeepToken(r, Len(users) + 1)
      <4>1. [Idle EXCEPT !.pc = "set", !.user = Len(users) + 1,
                         !.key = TokenOf(Len(users) + 1)].pc = "set"
        BY IdleState DEF RequestState
      <4> QED BY <2>1, <3>2, <4>1 DEF KeepToken, Elsewhere
    <3>3. CASE Move(r, [req[r] EXCEPT !.pc = "set", !.user = Len(users) + 1])
      <4>1. [req[r] EXCEPT !.pc = "set", !.user = Len(users) + 1].pc = "set"
        BY DEF IInv, ReqOK, RequestState
      <4> QED BY <2>1, <3>3, <4>1 DEF Elsewhere
    <3> QED BY <1>2, <3>1, <3>2, <3>3 DEF Insert
  <2> QED BY <2>1, <2>2, MoveLocations DEF IInv, LocationsOK
<1>3. ASSUME SetKey(r) PROVE LocationsOK'
  <2>1. ~ At(r, "profile") /\ UNCHANGED <<profile, locations, lost, fails>>
        /\ Move(r, [req[r] EXCEPT !.pc = "expire"])
    BY <1>3 DEF SetKey, At
  <2>2. [req[r] EXCEPT !.pc = "expire"].pc = "expire"
    BY DEF IInv, ReqOK, RequestState
  <2>3. Elsewhere(r, [req[r] EXCEPT !.pc = "expire"])
    BY <2>1, <2>2 DEF Elsewhere
  <2> QED BY <2>1, <2>3, MoveLocations DEF IInv, LocationsOK
<1>4. ASSUME ExpireKey(r) PROVE LocationsOK'
  <2>1. ~ At(r, "profile") /\ UNCHANGED <<profile, locations, lost, fails>> /\ Reply(r)
    BY <1>4 DEF ExpireKey, At
  <2> QED BY <2>1, ReplyElsewhere, MoveLocations DEF IInv, LocationsOK
<1>5. ASSUME SaveDiff(r) PROVE LocationsOK'
  <2> DEFINE diff == Differing(req[r].entity, users[req[r].user])
             state == [req[r] EXCEPT !.pc = "write", !.diff = diff]
  <2>1. ~ At(r, "profile") /\ UNCHANGED <<profile, locations, lost, fails>>
        /\ (Reply(r) \/ Move(r, state))
    BY <1>5 DEF SaveDiff, At
  <2> HIDE DEF diff
  <2>2. state.pc = "write"
    BY DEF IInv, ReqOK, RequestState
  <2> HIDE DEF state
  <2>3. \E st : Elsewhere(r, st)
    BY <2>1, <2>2, ReplyElsewhere DEF Elsewhere
  <2> QED BY <2>1, <2>3, MoveLocations DEF IInv, LocationsOK
<1>6. ASSUME SaveWrite(r) PROVE LocationsOK'
  <2>1. ~ At(r, "profile") /\ UNCHANGED <<profile, locations, lost, fails>>
        /\ (Reply(r) \/ req' = Overtake(r, req[r].user, Idle))
    BY <1>6 DEF SaveWrite, At
  <2>2. CASE Reply(r)
    BY <2>1, <2>2, ReplyElsewhere, MoveLocations DEF IInv, LocationsOK
  <2>3. CASE req' = Overtake(r, req[r].user, Idle)
    BY <2>1, <2>3, OvertakeLocations DEF IInv, LocationsOK
  <2> QED BY <2>1, <2>2, <2>3
<1>7. ASSUME SoftDelete(r) PROVE LocationsOK'
  <2>1. ~ At(r, "profile") /\ UNCHANGED <<profile, locations, lost, fails>>
        /\ req' = Overtake(r, req[r].user, Idle)
    BY <1>7 DEF SoftDelete, At
  <2> QED BY <2>1, OvertakeLocations DEF IInv, LocationsOK
<1>8. ASSUME SaveLocation(r) PROVE LocationsOK'
  BY <1>8, SaveLocationCounts DEF IInv
<1>9. ASSUME SaveProfile(r) PROVE LocationsOK'
  <2>1. At(r, "profile") /\ Reply(r) /\ UNCHANGED <<locations, fails>>
    BY <1>9 DEF SaveProfile, RollBack
  <2>2. \/ lost' = lost + 1 /\ UNCHANGED profile
        \/ /\ profile[req[r].user] = 0 /\ UNCHANGED lost
           /\ profile' = [profile EXCEPT ![req[r].user] = req[r].location]
    BY <1>9 DEF SaveProfile, RollBack
  <2> QED BY <2>1, <2>2, SaveProfileCounts DEF IInv, LocationsOK
<1>10. ASSUME Fail(r) PROVE LocationsOK'
  <2>1. Reply(r) /\ UNCHANGED <<profile, locations>> /\ fails' \in Nat
    BY <1>10 DEF Fail, RollBack, LocationsOK
  <2>2. CASE At(r, "profile")
    <3>1. lost' = lost + 1
      BY <1>10, <2>2 DEF Fail, RollBack
    <3> QED BY <2>1, <2>2, <3>1, SaveProfileCounts DEF IInv
  <2>3. CASE ~ At(r, "profile")
    <3>1. UNCHANGED lost
      BY <1>10, <2>3 DEF Fail
    <3> QED BY <2>1, <2>3, <3>1, ReplyElsewhere, MoveLocations DEF IInv
  <2> QED BY <2>2, <2>3
<1>11. ASSUME ProcessEnds(r) PROVE LocationsOK'
  <2>1. /\ UNCHANGED <<profile, locations>> /\ fails' = fails + 1
        /\ lost' = lost + Cardinality(Registering)
        /\ \A s \in Request : req'[s].pc = "idle"
    BY <1>11, IdleState DEF ProcessEnds, Registering
  <2>2. HaveProfile' = HaveProfile /\ Registering' = {}
    BY <2>1 DEF HaveProfile, Registering, At
  <2>3. Cardinality(Registering) \in Nat /\ Cardinality(HaveProfile) \in Nat /\ lost \in Nat
    BY FiniteSides, FS_CardinalityType DEF LocationsOK
  <2>4. locations = Cardinality(HaveProfile) + Cardinality(Registering) + lost
    BY DEF LocationsOK, LocationsLeftByRollback, HaveProfile, Registering
  <2>5. Cardinality(Registering') = 0
    BY <2>2, FS_EmptySet
  <2>6. locations' = Cardinality(HaveProfile') + Cardinality(Registering') + lost'
    <3> HIDE DEF HaveProfile, Registering
    <3> QED BY <2>1, <2>2, <2>3, <2>4, <2>5
  <2>7. LocationsLeftByRollback'
    BY <2>6 DEF LocationsLeftByRollback, HaveProfile, Registering
  <2> QED BY <2>1, <2>3, <2>7 DEF LocationsOK, At
<1>12. LocationsOK'
  BY <1>2, <1>3, <1>4, <1>5, <1>6, <1>7, <1>8, <1>9, <1>10, <1>11 DEF Handled
<1> QED BY <1>1, <1>12

LEMMA AloneInv ==
  ASSUME IInv, LocationsOK, Alone \/ UNCHANGED vars
  PROVE  IInv' /\ LocationsOK'
<1>1. UNCHANGED <<users, req, fails, profile, locations, lost>>
  BY DEF Alone, SignOut, Lapse, OpenList, ReadList, vars
<1>2. LocationsOK'
  <2>1. HaveProfile' = HaveProfile /\ Registering' = Registering
    BY <1>1 DEF HaveProfile, Registering, At
  <2>2. LocationsLeftByRollback'
    BY <1>1, <2>1 DEF LocationsOK, LocationsLeftByRollback, HaveProfile, Registering
  <2> QED BY <1>1, <2>2 DEF LocationsOK, At
<1>3. CASE \E k \in Key : keys' = [keys EXCEPT ![k] = NoKey]
  BY <1>1, <1>2, <1>3, ForgetOK
<1>4. CASE UNCHANGED keys
  BY <1>1, <1>2, <1>4 DEF IInv, UsersOK, ReqOK, KeysOK, SavesRely, KeysLapse, At
<1>5. (\E k \in Key : keys' = [keys EXCEPT ![k] = NoKey]) \/ UNCHANGED keys
  BY TokenKey DEF Alone, SignOut, Lapse, OpenList, ReadList, vars
<1> QED BY <1>3, <1>4, <1>5

\* The invariant, with what a save relies on and the count of the locations.
THEOREM Invariance == Spec => [](IInv /\ LocationsOK)
<1>1. IInv /\ LocationsOK /\ [Next]_vars => IInv' /\ LocationsOK'
  BY NextCases, BegunInv, HandledInv, AloneInv
<1> QED BY <1>1, InitInv, PTL DEF Spec

\* However many requests sign in, sign out and ask for codes at a time: without a
\* failure every key of Redis has a time to live or is about to get one.
THEOREM KeysGetTtl == Spec => []KeysLapse
<1>1. IInv => KeysLapse
  BY DEF IInv
<1> QED BY <1>1, Invariance, PTL

\* However requests interleave and fail and the process ends: a location without a
\* profile is one of a registration that was rolled back or cut off, or is about to
\* get its profile.
THEOREM RollbacksLeaveLocations == Spec => []LocationsLeftByRollback
<1>1. LocationsOK => LocationsLeftByRollback
  BY DEF LocationsOK
<1> QED BY <1>1, Invariance, PTL

SaveKeeps ==
  \A u \in DOMAIN users : \A c \in Column : users'[u][c] # users[u][c] =>
    \E r \in Request :
      /\ req[r].user = u /\ At(r, "idle")'
      /\ \/ At(r, "delete") /\ c = "deleted"
         \/ At(r, "write") /\ (c \in req[r].asked \/ (req[r].overtaken /\ c # "password"))

LEMMA StepKeeps == IInv /\ [Next]_vars => SaveKeeps
<1> SUFFICES ASSUME IInv, [Next]_vars, NEW u \in DOMAIN users, NEW c \in Column,
                    users'[u][c] # users[u][c]
    PROVE  \E r \in Request :
             /\ req[r].user = u /\ At(r, "idle")'
             /\ \/ At(r, "delete") /\ c = "deleted"
                \/ At(r, "write") /\ (c \in req[r].asked \/ (req[r].overtaken /\ c # "password"))
  BY DEF SaveKeeps
<1>0. users \in Seq(Row) /\ users[u] \in Row
  BY KnownUser DEF IInv, UsersOK
<1>1. PICK r \in Request : Insert(r) \/ SaveWrite(r) \/ SoftDelete(r)
  <2>1. ~ UNCHANGED users
    OBVIOUS
  <2>2. ~ UNCHANGED vars /\ ~ Alone
    BY <2>1 DEF vars, Alone, SignOut, Lapse, OpenList, ReadList
  <2>3. PICK r \in Request : Begun(r) \/ Handled(r)
    BY <2>2, NextCases
  <2>4. ~ Begun(r)
    BY <2>1 DEF Begun, SignUp, GenerateKakaoCode, SignIn, ResetPassword, VerifyKakaoCode,
                RefreshToken, DeleteId, RegisterProfile, UpdateMyInfo
  <2>5. Insert(r) \/ SaveWrite(r) \/ SoftDelete(r)
    BY <2>1, <2>3, <2>4 DEF Handled, SetKey, ExpireKey, SaveDiff, SaveLocation, SaveProfile, Fail,
                            ProcessEnds
  <2> QED BY <2>5
<1>2. ~ Insert(r)
  <2>1. SUFFICES ASSUME Insert(r) PROVE FALSE
    OBVIOUS
  <2>2. UNCHANGED users \/ users' = Append(users, req[r].entity)
    BY <2>1 DEF Insert
  <2>3. Append(users, req[r].entity)[u] = users[u]
    BY <1>0
  <2> QED BY <2>2, <2>3
<1>3. CASE SoftDelete(r)
  <2> DEFINE v == req[r].user
  <2>1. At(r, "delete") /\ users' = [users EXCEPT ![v].deleted = TRUE]
    BY <1>3 DEF SoftDelete
  <2>2. u = v /\ users'[u] = [users[u] EXCEPT !.deleted = TRUE]
    BY <2>1
  <2>3. c = "deleted"
    BY <1>0, <2>2 DEF Column, Row
  <2>4. At(r, "idle")'
    BY <1>3, IdleState DEF SoftDelete, Overtake, At
  <2> QED BY <2>1, <2>2, <2>3, <2>4
<1>4. CASE SaveWrite(r)
  <2> DEFINE q == req[r]
             row == [d \in Column |-> IF d \in q.diff THEN q.entity[d] ELSE users[q.user][d]]
  <2>1. At(r, "write") /\ (UNCHANGED users \/ users' = [users EXCEPT ![q.user] = row])
    BY <1>4 DEF SaveWrite
  <2>2. users' = [users EXCEPT ![q.user] = row]
    BY <2>1
  <2>3. u = q.user /\ users'[u] = row
    <3> HIDE DEF row
    <3> QED BY <2>2
  <2>4. c \in q.diff
    BY <2>3
  <2>5. c \in q.asked \/ (q.overtaken /\ c # "password")
    BY <2>1, <2>4 DEF IInv, SavesRely, Relies, At
  <2>6. At(r, "idle")'
    <3>1. req' = Overtake(r, q.user, Idle) \/ req' = [req EXCEPT ![r] = Idle]
      BY <1>4 DEF SaveWrite, Reply, Move
    <3>2. req'[r] = Idle
      BY <3>1 DEF Overtake, IInv, ReqOK
    <3> QED BY <3>2, IdleState DEF At
  <2> QED BY <2>1, <2>3, <2>5, <2>6
<1> QED BY <1>1, <1>2, <1>3, <1>4

\* However many updates, resets and deletions overlap: a request changes what it
\* was asked to change, other columns only if the row changed after the request
\* had loaded it, and a password never.
THEOREM OverlapsRevertSaves == Spec => SavesKeepOthersChanges
<1>1. IInv /\ LocationsOK /\ [Next]_vars => SaveKeeps
  BY StepKeeps
<1>2. Spec => [][SaveKeeps]_vars
  BY <1>1, Invariance, PTL DEF Spec
<1> QED BY <1>2 DEF SavesKeepOthersChanges, SaveKeeps

-----------------------------------------------------------------------------
(* The list of users, oldest first, along the next links.                   *)

\* Numbers have a least one.
LEMMA Least ==
  ASSUME NEW S \in SUBSET Nat, S # {}
  PROVE  \E x \in S : \A y \in S : x <= y
<1>1. PICK x \in S : \A y \in S : ~ (<<y, x>> \in OpToRel(<, Nat))
  BY NatLessThanWellFounded, WFMin
<1>2. \A y \in S : y < x => <<y, x>> \in OpToRel(<, Nat)
  BY DEF OpToRel
<1>3. \A y \in S : ~ (y < x)
  BY <1>1, <1>2
<1> QED
  BY <1>3

\* The last row of a page that is not empty
LEMMA LastRow ==
  ASSUME NEW page \in SUBSET Id, page # {}
  PROVE  Max(page) \in page /\ \A i \in page : i <= Max(page)
<1> DEFINE Bound == {n \in Nat : \A i \in page : i <= n}
<1>1. page \subseteq Nat /\ MaxUsers \in Bound
  BY AccountsAssumption DEF Id
<1>2. PICK n \in Bound : \A m \in Bound : n <= m
  BY <1>1, Least
<1>3. n \in page
  <2> SUFFICES ASSUME n \notin page
               PROVE  FALSE
    OBVIOUS
  <2>0. n \in Nat /\ \A i \in page : i \in Nat /\ i <= n /\ i # n
    BY <1>1, <1>2
  <2>1. n - 1 \in Nat /\ \A i \in page : i <= n - 1
    BY <2>0
  <2>2. n - 1 \in Bound
    BY <2>1
  <2> QED
    BY <1>2, <2>2
<1>4. \E x \in page : \A y \in page : x >= y
  BY <1>1, <1>2, <1>3
<1>5. Max(page) \in page /\ \A y \in page : Max(page) >= y
  BY <1>4 DEF Max
<1> QED
  BY <1>1, <1>5

\* What follows a cursor when users are listed oldest first
Rest(ids, cursor) == {i \in ids : i > cursor}

\* How many rows are before row i
Rank(rest, i) == Cardinality(Before(rest, "ASC", i))

LEMMA RankOfUser ==
  ASSUME NEW rest \in SUBSET Id, NEW i
  PROVE  /\ Before(rest, "ASC", i) = {j \in rest : j < i}
         /\ IsFiniteSet(Before(rest, "ASC", i))
         /\ Rank(rest, i) \in Nat
<1>1. IsFiniteSet(Id)
  BY AccountsAssumption, FS_Interval DEF Id
<1>2. Before(rest, "ASC", i) = {j \in rest : j < i}
  BY DEF Before
<1>3. IsFiniteSet(Before(rest, "ASC", i))
  BY <1>1, <1>2, FS_Subset
<1> QED
  BY <1>2, <1>3, FS_CardinalityType DEF Rank

\* The first rows of a list: what is before one of them is one of them, and if
\* rows are left there are take of them.
LEMMA FirstRows ==
  ASSUME NEW rest \in SUBSET Id, NEW page, page = {i \in rest : Rank(rest, i) < Take}
  PROVE  /\ \A i \in page, j \in rest : j <= i => j \in page
         /\ page # rest => page # {} /\ Cardinality(page) = Take
<1>1. /\ Take \in Nat \ {0} /\ IsFiniteSet(Id)
      /\ \A i \in rest : i \in Nat
  <2>1. IsFiniteSet(1 .. MaxUsers)
    BY AccountsAssumption, FS_Interval
  <2> QED
    BY <2>1, AccountsAssumption DEF Id
<1>2. /\ page \subseteq rest /\ page \in SUBSET Id /\ IsFiniteSet(page) /\ Cardinality(page) \in Nat
      /\ rest \ page \in SUBSET Nat
  BY <1>1, FS_Subset, FS_CardinalityType
<1>3. ASSUME NEW i \in page, NEW j \in rest, j <= i
      PROVE  j \in page
  <2>1. i \in rest /\ Rank(rest, i) < Take
    OBVIOUS
  <2>2. \A k \in rest : k < j => k < i
    BY <1>1, <1>3, <2>1
  <2>3. Before(rest, "ASC", j) \subseteq Before(rest, "ASC", i)
    BY <2>2, RankOfUser
  <2>4. Rank(rest, j) <= Rank(rest, i)
    BY <2>3, RankOfUser, FS_Subset DEF Rank
  <2>5. Rank(rest, i) \in Nat /\ Rank(rest, j) \in Nat
    BY RankOfUser
  <2>6. Rank(rest, j) < Take
    BY <1>1, <2>1, <2>4, <2>5
  <2> QED
    BY <2>6
<1>4. ASSUME page # {}
      PROVE  Cardinality(page) <= Take
  <2>1. PICK last \in page : \A i \in page : i <= last
    BY <1>2, <1>4, LastRow
  <2>2. last \in rest /\ last \in Nat /\ Rank(rest, last) < Take
    BY <1>1, <2>1
  <2>3. page = Before(rest, "ASC", last) \cup {last} /\ last \notin Before(rest, "ASC", last)
    <3>1. \A i \in page : i < last \/ i = last
      BY <1>1, <1>2, <2>1, <2>2
    <3>2. \A i \in rest : i < last => i \in page
      BY <1>1, <1>3, <2>1, <2>2
    <3>3. Before(rest, "ASC", last) = {j \in rest : j < last}
      BY RankOfUser
    <3>4. ~ (last < last)
      BY <2>2
    <3> QED
      BY <1>2, <2>1, <3>1, <3>2, <3>3, <3>4
  <2>4. Cardinality(page) = Rank(rest, last) + 1
    BY <2>3, RankOfUser, FS_AddElement DEF Rank
  <2>5. Rank(rest, last) \in Nat
    BY RankOfUser
  <2> QED
    BY <1>1, <2>2, <2>4, <2>5
<1>5. ASSUME page # rest
      PROVE  page # {} /\ Cardinality(page) = Take
  <2>1. rest \ page # {}
    BY <1>2, <1>5
  <2>2. PICK i \in rest \ page : \A j \in rest \ page : i <= j
    BY <1>2, <2>1, Least
  <2>3. ~ (Rank(rest, i) < Take)
    BY <2>2
  <2>4. Before(rest, "ASC", i) = page
    <3>1. \A j \in rest : j < i => j \in page
      BY <1>1, <2>2
    <3>2. \A j \in page : j < i
      BY <1>1, <1>2, <1>3, <2>2
    <3>3. Before(rest, "ASC", i) = {j \in rest : j < i}
      BY RankOfUser
    <3> QED
      BY <1>2, <3>1, <3>2, <3>3
  <2>5. Cardinality(page) >= Take
    BY <1>1, <2>3, <2>4, RankOfUser DEF Rank
  <2>6. page # {}
    <3>1. Cardinality({}) = 0
      BY FS_EmptySet
    <3> QED
      BY <1>1, <2>5, <3>1
  <2> QED
    BY <1>1, <1>2, <1>4, <2>5, <2>6
<1> QED
  BY <1>3, <1>5

UserPage(ids, cursor) == CursorPageOf(ids, "ASC", Take, cursor, FALSE)

\* A page is the head of what follows the cursor.  Its last row is the next
\* cursor, and without one the page is all that was left.
LEMMA PageOfUsers ==
  ASSUME NEW ids \in SUBSET Id, NEW cursor \in 0 .. MaxUsers,
         NEW page, page = UserPage(ids, cursor),
         NEW next, next = NextCursor(page, "ASC", Take)
  PROVE  /\ page \subseteq Rest(ids, cursor)
         /\ next = NoCursor => page = Rest(ids, cursor)
         /\ next # NoCursor => /\ next \in page /\ \A i \in page : i <= next
                               /\ \A i \in Rest(ids, cursor) : i <= next => i \in page
<1> DEFINE rest == Rest(ids, cursor)
<1>1. rest \in SUBSET Id /\ \A i \in Id : i \in Nat /\ i > 0
  <2>1. rest \in SUBSET Id
    BY DEF Rest
  <2>2. \A i \in Id : i \in Nat /\ i > 0
    BY AccountsAssumption DEF Id
  <2> QED
    BY <2>1, <2>2
<1>2. page = {i \in rest : Rank(rest, i) < Take}
  <2>1. rest = IF cursor = NoCursor \/ FALSE THEN ids ELSE After(ids, "ASC", cursor)
    <3>1. CASE cursor = 0
      BY <1>1, <3>1 DEF Rest, NoCursor
    <3>2. CASE cursor # 0
      BY <3>2 DEF Rest, After, NoCursor
    <3> QED
      BY <3>1, <3>2
  <2> HIDE DEF rest
  <2> QED
    BY <2>1 DEF UserPage, CursorPageOf, Rank
<1> HIDE DEF rest
<1>3. page \subseteq rest /\ page \in SUBSET Id
  BY <1>1, <1>2
<1>4. /\ \A i \in page, j \in rest : j <= i => j \in page
      /\ page # rest => page # {} /\ Cardinality(page) = Take
  BY <1>1, <1>2, FirstRows
<1>5. page # {} => Max(page) \in page /\ Max(page) # 0 /\ \A i \in page : i <= Max(page)
  <2>1. page # {} => Max(page) \in page /\ \A i \in page : i <= Max(page)
    BY <1>3, LastRow
  <2>2. 0 \notin page
    <3> SUFFICES ASSUME 0 \in page
                 PROVE  FALSE
      OBVIOUS
    <3>1. 0 > 0
      BY <1>1, <1>3
    <3> QED
      BY <3>1
  <2> QED
    BY <2>1, <2>2
<1>6. next = NoCursor => page = rest
  BY <1>4, <1>5 DEF NextCursor, NoCursor
<1>7. next # NoCursor => next \in page /\ \A i \in page : i <= next
  BY <1>5 DEF NextCursor
<1> QED
  BY <1>3, <1>4, <1>6, <1>7 DEF rest

\* Where the administrator is: what has been read lies up to the cursor, and who
\* was listed from the start and still is has been read or lies beyond it.
ListOK ==
  /\ list \in List
  /\ list.owed \subseteq Listed
  /\ list.rows = Cardinality(list.seen)
  /\ list.pc = "closed" => list.cursor = NoCursor
  /\ list.pc # "read" => \A u \in list.seen : u <= list.cursor
  /\ list.pc = "open" => \A u \in list.owed : u > list.cursor \/ u \in list.seen
  /\ list.pc = "read" => list.owed \subseteq list.seen

\* A step by which nobody leaves the list disturbs nothing.
LEMMA ListStays ==
  ASSUME ListOK, UNCHANGED list, Listed \subseteq Listed'
  PROVE  ListOK'
BY DEF ListOK

LEMMA OpenListOK ==
  ASSUME IInv, ListOK, OpenList
  PROVE  ListOK'
<1>1. Listed' = Listed /\ Listed \subseteq Id
  BY KnownUser DEF OpenList, Listed, Live, IInv
<1>2. PICK l \in List : l = list
  BY DEF ListOK
<1>3. list' = [l EXCEPT !.pc = "open", !.owed = Listed]
  BY <1>2 DEF OpenList
<1>4. /\ list'.pc = "open" /\ list'.cursor = l.cursor /\ list'.seen = l.seen
      /\ list'.rows = l.rows /\ list'.owed = Listed
  BY <1>3 DEF List
<1>5. list' \in List
  BY <1>1, <1>3 DEF List
<1>6. l.cursor = 0 /\ \A u \in l.seen : u <= l.cursor
  BY <1>2 DEF ListOK, OpenList, NoCursor
<1>7. \A u \in Listed : u > 0
  BY <1>1, AccountsAssumption DEF Id
<1> QED
  BY <1>1, <1>2, <1>4, <1>5, <1>6, <1>7 DEF ListOK

LEMMA ReadListOK ==
  ASSUME IInv, ListOK, ReadList
  PROVE  ListOK'
<1>1. Listed' = Listed /\ Listed \in SUBSET Id
  BY KnownUser DEF ReadList, Listed, Live, IInv
<1>2. PICK l \in List : l = list
  BY DEF ListOK
<1>3. PICK page : page = UserPage(Listed, l.cursor)
  OBVIOUS
<1>4. PICK next : next = NextCursor(page, "ASC", Take)
  OBVIOUS
<1>5. l.cursor \in 0 .. MaxUsers /\ l.seen \in SUBSET Id /\ l.rows \in Nat /\ l.owed \in SUBSET Id
  BY DEF List
<1>6. /\ page \subseteq Rest(Listed, l.cursor)
      /\ next = NoCursor => page = Rest(Listed, l.cursor)
      /\ next # NoCursor => /\ next \in page /\ \A i \in page : i <= next
                            /\ \A i \in Rest(Listed, l.cursor) : i <= next => i \in page
  <2>1. PICK cursor \in 0 .. MaxUsers : cursor = l.cursor
    BY <1>5
  <2>2. PICK ids \in SUBSET Id : ids = Listed
    BY <1>1
  <2>3. page = UserPage(ids, cursor)
    BY <1>3, <2>1, <2>2
  <2>4. /\ page \subseteq Rest(ids, cursor)
        /\ next = NoCursor => page = Rest(ids, cursor)
        /\ next # NoCursor => /\ next \in page /\ \A i \in page : i <= next
                              /\ \A i \in Rest(ids, cursor) : i <= next => i \in page
    BY <1>4, <2>3, PageOfUsers
  <2> QED
    BY <2>1, <2>2, <2>4
<1>7. /\ l.pc = "open" /\ l.owed \subseteq Listed /\ l.rows = Cardinality(l.seen)
      /\ \A u \in l.seen : u <= l.cursor
      /\ \A u \in l.owed : u > l.cursor \/ u \in l.seen
  BY <1>2 DEF ListOK, ReadList
<1>8. list' = [l EXCEPT !.seen = l.seen \cup page, !.rows = l.rows + Cardinality(page),
                        !.cursor = next, !.pc = IF next = NoCursor THEN "read" ELSE "open"]
  BY <1>2, <1>3, <1>4 DEF ReadList, UserPage
<1>9. /\ list'.pc = (IF next = NoCursor THEN "read" ELSE "open") /\ list'.cursor = next
      /\ list'.seen = l.seen \cup page /\ list'.rows = l.rows + Cardinality(page)
      /\ list'.owed = l.owed
  BY <1>8 DEF List
<1>10. page \in SUBSET Id /\ IsFiniteSet(page) /\ IsFiniteSet(l.seen) /\ l.seen \cap page = {}
       /\ \A i \in Id : i \in Nat /\ i > 0
  <2>1. IsFiniteSet(Id) /\ \A i \in Id : i \in Nat /\ i > 0
    BY AccountsAssumption, FS_Interval DEF Id
  <2>2. page \in SUBSET Id /\ \A i \in page : i > l.cursor
    BY <1>1, <1>6 DEF Rest
  <2>3. l.seen \cap page = {}
    <3> SUFFICES ASSUME NEW i \in page, i \in l.seen
                 PROVE  FALSE
      OBVIOUS
    <3>1. i \in Nat /\ l.cursor \in Nat /\ i > l.cursor /\ i <= l.cursor
      BY <1>5, <1>7, <2>1, <2>2, AccountsAssumption
    <3> QED
      BY <3>1
  <2> QED
    BY <1>5, <2>1, <2>2, <2>3, FS_Subset
<1>11. list'.rows = Cardinality(list'.seen) /\ list'.rows \in Nat
  <2>1. Cardinality(l.seen \cup page) = Cardinality(l.seen) + Cardinality(page)
    <3>1. Cardinality(l.seen \cap page) = 0
      BY <1>10, FS_EmptySet
    <3>2. Cardinality(l.seen \cup page) = Cardinality(l.seen) + Cardinality(page)
                                            - Cardinality(l.seen \cap page)
      BY <1>10, FS_Union
    <3> QED
      BY <1>10, <3>1, <3>2, FS_CardinalityType
  <2> QED
    BY <1>5, <1>7, <1>9, <1>10, <2>1, FS_CardinalityType
<1>12. list' \in List
  <2>1. next \in 0 .. MaxUsers
    <3>1. 0 \in 0 .. MaxUsers /\ \A i \in Id : i \in 0 .. MaxUsers
      BY AccountsAssumption DEF Id
    <3>2. next = 0 \/ next \in page
      BY <1>6 DEF NoCursor
    <3> QED
      BY <1>10, <3>1, <3>2
  <2>2. \A c \in 0 .. MaxUsers, seen \in SUBSET Id, n \in Nat, pc \in {"open", "read"} :
          [l EXCEPT !.seen = seen, !.rows = n, !.cursor = c, !.pc = pc] \in List
    BY DEF List
  <2>3. l.seen \cup page \in SUBSET Id /\ l.rows + Cardinality(page) \in Nat
    BY <1>5, <1>10, FS_CardinalityType
  <2> QED
    BY <1>8, <2>1, <2>2, <2>3
<1>13. CASE next = NoCursor
  <2>1. l.owed \subseteq l.seen \cup page
    BY <1>6, <1>7, <1>13 DEF Rest
  <2> QED
    BY <1>1, <1>7, <1>9, <1>11, <1>12, <1>13, <2>1 DEF ListOK
<1>14. CASE next # NoCursor
  <2>1. \A u \in l.seen \cup page : u <= next
    <3>1. next > l.cursor /\ next \in Nat
      BY <1>6, <1>10, <1>14 DEF Rest
    <3> QED
      BY <1>5, <1>6, <1>7, <1>10, <1>14, <3>1
  <2>2. \A u \in l.owed : u > next \/ u \in l.seen \cup page
    BY <1>5, <1>6, <1>7, <1>10, <1>14 DEF Rest
  <2> QED
    BY <1>1, <1>7, <1>9, <1>11, <1>12, <1>14, <2>1, <2>2 DEF ListOK
<1> QED
  BY <1>13, <1>14

\* Who is deleted is owed no more.
LEMMA SoftDeleteListOK ==
  ASSUME IInv, ListOK, NEW r \in Request, SoftDelete(r)
  PROVE  ListOK'
<1>1. PICK l \in List : l = list
  BY DEF ListOK
<1>2. PICK u : u = req[r].user
  OBVIOUS
<1>3. list' = [l EXCEPT !.owed = l.owed \ {u}] /\ users' = [users EXCEPT ![u].deleted = TRUE]
  BY <1>1, <1>2 DEF SoftDelete
<1>4. /\ list'.pc = l.pc /\ list'.cursor = l.cursor /\ list'.seen = l.seen
      /\ list'.rows = l.rows /\ list'.owed = l.owed \ {u}
  BY <1>3 DEF List
<1>5. list' \in List
  BY <1>3 DEF List
<1>6. Listed \ {u} \subseteq Listed'
  BY <1>3 DEF Listed, Live
<1> QED
  BY <1>1, <1>4, <1>5, <1>6 DEF ListOK

\* A save never takes a user off the list, it may only bring one back.
LEMMA SaveWriteListed ==
  ASSUME IInv, NEW r \in Request, SaveWrite(r)
  PROVE  Listed \subseteq Listed'
<1> PICK q \in RequestState : q = req[r]
  BY DEF IInv, ReqOK
<1> DEFINE row == [c \in Column |-> IF c \in q.diff THEN q.entity[c] ELSE users[q.user][c]]
<1>1. Relies(q, users) /\ q.pc = "write"
  BY DEF IInv, SavesRely, SaveWrite, At
<1>2. ~ q.entity.deleted /\ (row["deleted"] => users[q.user].deleted)
  BY <1>1 DEF Relies, Column
<1>3. UNCHANGED users \/ users' = [users EXCEPT ![q.user] = row]
  BY DEF SaveWrite
<1> HIDE DEF row
<1> QED
  BY <1>2, <1>3 DEF Listed, Live

LEMMA ListStep ==
  ASSUME IInv, ListOK, [Next]_vars
  PROVE  ListOK'
<1>1. CASE \E r \in Request : Begun(r)
  <2>1. UNCHANGED <<users, list>>
    BY <1>1 DEF Begun, SignUp, GenerateKakaoCode, SignIn, ResetPassword, VerifyKakaoCode,
                RefreshToken, DeleteId, RegisterProfile, UpdateMyInfo
  <2> QED
    BY <2>1, ListStays DEF Listed, Live
<1>2. ASSUME NEW r \in Request, Handled(r)
      PROVE  ListOK'
  <2>1. CASE Insert(r)
    <3>1. users \in Seq(Row) /\ UNCHANGED list
      BY <2>1 DEF IInv, UsersOK, Insert
    <3>2. UNCHANGED users \/ users' = Append(users, req[r].entity)
      BY <2>1 DEF Insert
    <3>3. \A u \in DOMAIN users : u \in DOMAIN users' /\ users'[u] = users[u]
      BY <3>1, <3>2
    <3> QED
      BY <3>1, <3>3, ListStays DEF Listed, Live
  <2>2. CASE SaveWrite(r)
    <3>1. UNCHANGED list
      BY <2>2 DEF SaveWrite
    <3> QED
      BY <2>2, <3>1, SaveWriteListed, ListStays
  <2>3. CASE SoftDelete(r)
    BY <2>3, SoftDeleteListOK
  <2>4. CASE \/ SetKey(r) \/ ExpireKey(r) \/ SaveDiff(r) \/ SaveLocation(r) \/ SaveProfile(r)
             \/ Fail(r) \/ ProcessEnds(r)
    <3>1. UNCHANGED <<users, list>>
      BY <2>4 DEF SetKey, ExpireKey, SaveDiff, SaveLocation, SaveProfile, Fail, ProcessEnds
    <3> QED
      BY <3>1, ListStays DEF Listed, Live
  <2> QED
    BY <1>2, <2>1, <2>2, <2>3, <2>4 DEF Handled
<1>3. CASE OpenList
  BY <1>3, OpenListOK
<1>4. CASE ReadList
  BY <1>4, ReadListOK
<1>5. CASE (\E u \in Id : SignOut(u)) \/ (\E k \in Key : Lapse(k)) \/ UNCHANGED vars
  <2>1. UNCHANGED <<users, list>>
    BY <1>5 DEF SignOut, Lapse, vars
  <2> QED
    BY <2>1, ListStays DEF Listed, Live
<1> QED
  BY <1>1, <1>2, <1>3, <1>4, <1>5, NextCases DEF Alone

LEMMA ListInit == Init => ListOK
<1> SUFFICES ASSUME Init
             PROVE  ListOK
  OBVIOUS
<1>1. list = [pc |-> "closed", cursor |-> 0, seen |-> {}, rows |-> 0, owed |-> {}]
  BY DEF Init, NoCursor
<1>2. list \in List
  BY <1>1, AccountsAssumption DEF List
<1> QED
  BY <1>1, <1>2, FS_EmptySet DEF ListOK, NoCursor

\* The requests and failures of a behaviour
CountersOK == begun \in 0 .. MaxRequests /\ fails \in 0 .. MaxFails

LEMMA CountersStep ==
  ASSUME CountersOK, [Next]_vars
  PROVE  CountersOK'
<1>1. UNCHANGED begun \/ (begun < MaxRequests /\ begun' = begun + 1)
  <2>1. ASSUME NEW r \in Request, Begun(r)
        PROVE  begun < MaxRequests /\ begun' = begun + 1
    BY <2>1 DEF Begun, SignUp, GenerateKakaoCode, SignIn, ResetPassword, VerifyKakaoCode,
                RefreshToken, DeleteId, RegisterProfile, UpdateMyInfo, Begin
  <2>2. ASSUME (\E r \in Request : Handled(r)) \/ Alone \/ UNCHANGED vars
        PROVE  UNCHANGED begun
    BY <2>2 DEF Handled, Insert, SetKey, ExpireKey, SaveDiff, SaveWrite, SoftDelete,
                SaveLocation, SaveProfile, Fail, ProcessEnds, Alone, SignOut, Lapse, OpenList, ReadList, vars
  <2> QED
    BY <2>1, <2>2, NextCases
<1>2. UNCHANGED fails \/ (fails < MaxFails /\ fails' = fails + 1)
  <2>1. ASSUME NEW r \in Request, Begun(r)
        PROVE  UNCHANGED fails
    BY <2>1 DEF Begun, SignUp, GenerateKakaoCode, SignIn, ResetPassword, VerifyKakaoCode,
                RefreshToken, DeleteId, RegisterProfile, UpdateMyInfo
  <2>2. ASSUME NEW r \in Request, Handled(r)
        PROVE  UNCHANGED fails \/ (fails < MaxFails /\ fails' = fails + 1)
    BY <2>2 DEF Handled, Insert, SetKey, ExpireKey, SaveDiff, SaveWrite, SoftDelete,
                SaveLocation, SaveProfile, Fail, ProcessEnds
  <2>3. ASSUME Alone \/ UNCHANGED vars
        PROVE  UNCHANGED fails
    BY <2>3 DEF Alone, SignOut, Lapse, OpenList, ReadList, vars
  <2> QED
    BY <2>1, <2>2, <2>3, NextCases
<1> QED
  BY <1>1, <1>2, AccountsAssumption DEF CountersOK

\* The whole of the inductive invariant
LEMMA FullInvariance == Spec => [](IInv /\ LocationsOK /\ ListOK /\ CountersOK)
<1>1. Init => ListOK /\ CountersOK
  BY ListInit, AccountsAssumption DEF Init, CountersOK
<1>2. IInv /\ ListOK /\ CountersOK /\ [Next]_vars => ListOK' /\ CountersOK'
  BY ListStep, CountersStep
<1> QED
  BY <1>1, <1>2, Invariance, PTL DEF Spec

\* In every state of the program every variable of the accounts has its type.
THEOREM TypeCorrect == Spec => []TypeOK
<1>1. IInv /\ LocationsOK /\ ListOK /\ CountersOK => TypeOK
  BY DEF IInv, UsersOK, ReqOK, KeysOK, LocationsOK, ListOK, CountersOK, TypeOK
<1> QED
  BY <1>1, FullInvariance, PTL

\* Whoever signs up, is deleted or is brought back between the pages: the list
\* shows nobody twice and, at its end, has shown everybody who stayed on it.
THEOREM ListMissesNobody == Spec => []ListReadOnce
<1>1. ListOK => ListReadOnce
  BY DEF ListOK, ListReadOnce
<1> QED
  BY <1>1, FullInvariance, PTL

=============================================================================
