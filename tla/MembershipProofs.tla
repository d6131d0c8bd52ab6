-------------------------- MODULE MembershipProofs --------------------------
(***************************************************************************)
(* Theorems about Membership for any users, teams and number of concurrent *)
(* and failing requests.                                                   *)
(***************************************************************************)
EXTENDS Membership, FiniteSetTheorems, TLAPS

\* What a request in state q may rely on: rows are never taken back, so what
\* an earlier statement stored is still there.
Stands(q) ==
  /\ q.pc \in {"team", "creator"} =>
       /\ teams[q.team].state # "unused" /\ teams[q.team].creator = q.user
       /\ chat[q.team][q.user] # "never"
  /\ q.pc \in {"creator", "invites", "save", "chat"} => Saved(q.team)
  /\ q.pc = "chat" => HasRow(q.user, q.team)

EarlierStepsStand == \A r \in Request : Stands(req[r])

\* A chat that somebody has been in belongs to a team that is being created.
ChatsBelong ==
  \A t \in Team, u \in User : chat[t][u] # "never" => teams[t].state # "unused"

\* The types of the variables, without the keys.
Types ==
  /\ teams \in [Team -> TeamRow]
  /\ members \in [Member -> MemberRow]
  /\ chat \in [Team -> [User -> {"never", "in", "out"}]]
  /\ tokens \in [Token -> MailState]
  /\ invites \subseteq [user : User, team : Team]
  /\ req \in [Request -> RequestState]
  /\ fails \in 0 .. MaxFails

IInv ==
  TypeOK /\ EarlierStepsStand /\ ChatsBelong /\ ChatAfterMembership /\ MembersReachChat

-----------------------------------------------------------------------------
(* Type correctness.                                                        *)

LEMMA Defaults == AUser \in User /\ ATeam \in Team /\ NoMail \in MailState /\ Idle \in RequestState
BY MembershipAssumption DEF AUser, ATeam, NoMail, MailState, Idle, RequestState

\* What the actions put into a slot is the state of a request.
LEMMA RequestType ==
  ASSUME NEW q \in RequestState, NEW u \in User, NEW t \in Team, NEW k \in Token
  PROVE  /\ \A pc \in {"invites", "save", "chat", "token", "team", "creator", "invited"} :
              /\ [q EXCEPT !.pc = pc] \in RequestState
              /\ [Idle EXCEPT !.pc = pc, !.user = u, !.team = t] \in RequestState
         /\ [Idle EXCEPT !.pc = "invites", !.user = u, !.team = t, !.token = k,
                         !.mailed = TRUE] \in RequestState
         /\ [Idle EXCEPT !.pc = "token", !.user = u, !.team = t, !.token = k] \in RequestState
BY Defaults DEF RequestState

LEMMA MoveType ==
  ASSUME req \in [Request -> RequestState], NEW r \in Request, NEW q \in RequestState, Move(r, q)
  PROVE  req' \in [Request -> RequestState]
BY DEF Move

LEMMA NewMemberType ==
  ASSUME members \in [Member -> MemberRow], NEW u \in User, NEW t \in Team,
         NEW staff \in BOOLEAN, NewMember(u, t, staff)
  PROVE  members' \in [Member -> MemberRow]
BY DEF NewMember, MemberRow

LEMMA TypesStep == Types /\ [Next]_vars => Types'
<1> SUFFICES ASSUME Types, [Next]_vars
             PROVE  Types'
  OBVIOUS
<1>0. /\ teams \in [Team -> TeamRow] /\ members \in [Member -> MemberRow]
      /\ chat \in [Team -> [User -> {"never", "in", "out"}]]
      /\ tokens \in [Token -> MailState] /\ req \in [Request -> RequestState]
      /\ fails \in 0 .. MaxFails /\ invites \subseteq [user : User, team : Team]
  BY DEF Types
<1>fields. ASSUME NEW r \in Request
           PROVE  req[r] \in RequestState /\ req[r].user \in User /\ req[r].team \in Team
                  /\ req[r].token \in Token
  BY <1>0 DEF RequestState
<1>mail. ASSUME NEW k \in Token
         PROVE  tokens[k].user \in User /\ tokens[k].team \in Team
  BY <1>0 DEF MailState
<1>goto. ASSUME NEW r \in Request,
                NEW pc \in {"invites", "save", "chat", "token", "team", "creator", "invited"},
                Goto(r, pc)
         PROVE  req' \in [Request -> RequestState]
  BY <1>0, <1>fields, <1>goto, RequestType, MoveType DEF Goto
<1>idle. ASSUME NEW r \in Request, Move(r, Idle)
         PROVE  req' \in [Request -> RequestState]
  BY <1>0, <1>idle, Defaults, MoveType
<1>1. ASSUME NEW r \in Request, NEW u \in User, NEW t \in Team, CreateChat(r, u, t)
      PROVE  Types'
  <2>1. teams' \in [Team -> TeamRow]
    BY <1>0, <1>1 DEF CreateChat, TeamRow
  <2>2. chat' \in [Team -> [User -> {"never", "in", "out"}]]
    BY <1>0, <1>1 DEF CreateChat, PutInChat
  <2>3. req' \in [Request -> RequestState]
    <3>1. [Idle EXCEPT !.pc = "team", !.user = u, !.team = t] \in RequestState
      BY Defaults DEF RequestState
    <3> QED BY <1>0, <1>1, <3>1, MoveType DEF CreateChat
  <2> QED BY <1>0, <1>1, <2>1, <2>2, <2>3 DEF CreateChat, Types
<1>2. ASSUME NEW r \in Request, SaveTeam(r)
      PROVE  Types'
  <2>1. teams' \in [Team -> TeamRow]
    BY <1>0, <1>2 DEF SaveTeam, TeamRow
  <2>2. req' \in [Request -> RequestState]
    BY <1>2, <1>goto, <1>idle DEF SaveTeam
  <2> QED BY <1>0, <1>2, <2>1, <2>2 DEF SaveTeam, Types
<1>3. ASSUME NEW r \in Request, RegisterCreatorMember(r) \/ SaveMember(r)
      PROVE  Types'
  <2>1. members' \in [Member -> MemberRow]
    BY <1>0, <1>3, <1>fields, NewMemberType DEF RegisterCreatorMember, SaveMember
  <2>2. req' \in [Request -> RequestState]
    BY <1>3, <1>goto, <1>idle DEF RegisterCreatorMember, SaveMember
  <2> QED BY <1>0, <1>3, <2>1, <2>2 DEF RegisterCreatorMember, SaveMember, Types
<1>4. ASSUME NEW t \in Team, DeleteTeam(t)
      PROVE  Types'
  BY <1>0, <1>4 DEF DeleteTeam, TeamRow, Types
<1>5. ASSUME NEW k \in Token, NEW kind \in Kind, NEW u \in User, NEW t \in Team,
             SendMail(k, kind, u, t)
      PROVE  Types'
  <2>1. [state |-> "sent", kind |-> kind, user |-> u, team |-> t] \in MailState
    BY MembershipAssumption DEF MailState
  <2> QED BY <1>0, <1>5, <2>1 DEF SendMail, Types
<1>6. ASSUME NEW r \in Request, NEW k \in Token, StoreToken(r, k)
      PROVE  Types'
  <2>0. [NoMail EXCEPT !.state = "valid"] \in MailState
    BY Defaults DEF MailState
  <2>1. tokens' \in [Token -> MailState]
    BY <1>0, <1>6, <2>0 DEF StoreToken
  <2>2. [Idle EXCEPT !.pc = "invited", !.user = tokens[k].user,
                     !.team = tokens[k].team] \in RequestState
    BY <1>mail, Defaults DEF RequestState
  <2>3. req' \in [Request -> RequestState]
    BY <1>0, <1>6, <2>2, MoveType DEF StoreToken
  <2> QED BY <1>0, <1>6, <2>1, <2>3 DEF StoreToken, Types
<1>7. ASSUME NEW r \in Request, SaveInvite(r) \/ DropInvites(r)
      PROVE  Types'
  <2>1. invites' \subseteq [user : User, team : Team]
    BY <1>0, <1>7, <1>fields DEF SaveInvite, DropInvites
  <2>2. req' \in [Request -> RequestState]
    BY <1>7, <1>goto, <1>idle DEF SaveInvite, DropInvites
  <2> QED BY <1>0, <1>7, <2>1, <2>2 DEF SaveInvite, DropInvites, Types
<1>8. ASSUME NEW k \in Token, TokenExpires(k)
      PROVE  Types'
  BY <1>0, <1>8, Defaults DEF TokenExpires, Types
<1>9. ASSUME NEW r \in Request, NEW s \in User, NEW u \in User, NEW t \in Team,
             RegisterMember(r, s, u, t)
      PROVE  Types'
  <2>1. [Idle EXCEPT !.pc = "invites", !.user = u, !.team = t] \in RequestState
    BY Defaults DEF RequestState
  <2> QED BY <1>0, <1>9, <2>1, MoveType DEF RegisterMember, Register, Types
<1>10. ASSUME NEW r \in Request, NEW k \in Token, NEW u \in User, NEW t \in Team,
              ApproveMember(r, k, u, t)
       PROVE  Types'
  <2>1. [Idle EXCEPT !.pc = "invites", !.user = u, !.team = t,
                     !.token = k, !.mailed = TRUE] \in RequestState
    BY Defaults DEF RequestState
  <2> QED BY <1>0, <1>10, <2>1, MoveType DEF ApproveMember, Register, Types
<1>11. ASSUME NEW r \in Request, InviteChat(r)
       PROVE  Types'
  <2>1. chat' \in [Team -> [User -> {"never", "in", "out"}]]
    BY <1>0, <1>11, <1>fields DEF InviteChat, PutInChat, InChat
  <2>2. req' \in [Request -> RequestState]
    <3>1. Registration(r) \in RequestState
      BY <1>fields, Defaults DEF Registration, RequestState
    <3> QED BY <1>0, <1>11, <3>1, Defaults, MoveType DEF InviteChat
  <2> QED BY <1>0, <1>11, <2>1, <2>2 DEF InviteChat, Types
<1>12. ASSUME NEW r \in Request, DeleteToken(r)
       PROVE  Types'
  <2>1. tokens' \in [Token -> MailState]
    BY <1>0, <1>12, <1>fields, Defaults DEF DeleteToken
  <2> QED BY <1>0, <1>12, <2>1, <1>idle DEF DeleteToken, Types
<1>13. ASSUME NEW r \in Request, NEW k \in Token, NEW u \in User, NEW t \in Team,
              RejectMember(r, k, u, t)
       PROVE  Types'
  <2> DEFINE letter == Rejection(u, t)
  <2>1. letter.to \in User /\ letter.about \in Team
    BY <1>13 DEF RejectMember
  <2>2. [Idle EXCEPT !.pc = "token", !.user = letter.to, !.team = letter.about,
                     !.token = k] \in RequestState
    BY <2>1, Defaults DEF RequestState
  <2>3. Move(r, [Idle EXCEPT !.pc = "token", !.user = letter.to, !.team = letter.about,
                             !.token = k])
    BY <1>13 DEF RejectMember
  <2> QED BY <1>0, <1>13, <2>2, <2>3, MoveType DEF RejectMember, Types
<1>14. ASSUME NEW m \in Member, NEW s \in User, NEW staff \in BOOLEAN, UpdateIsStaff(s, m, staff)
       PROVE  Types'
  BY <1>0, <1>14 DEF UpdateIsStaff, MemberRow, Types
<1>15. ASSUME NEW m \in Member, ExpulsionMember(m)
       PROVE  Types'
  BY <1>0, <1>15 DEF ExpulsionMember, MemberRow, Types
<1>16. ASSUME NEW t \in Team, NEW u \in User, LeaveChat(t, u)
       PROVE  Types'
  BY <1>0, <1>16 DEF LeaveChat, Types
<1>17. ASSUME NEW r \in Request, Fail(r)
       PROVE  Types'
  <2>1. fails' \in 0 .. MaxFails
    BY <1>0, <1>17, MembershipAssumption DEF Fail
  <2> QED BY <1>0, <1>17, <2>1, <1>idle DEF Fail, Types
<1>18. ASSUME ProcessEnds
       PROVE  Types'
  <2>1. fails' \in 0 .. MaxFails
    BY <1>0, <1>18, MembershipAssumption DEF ProcessEnds
  <2>2. tokens' \in [Token -> MailState] /\ req' \in [Request -> RequestState]
    BY <1>0, <1>18, Defaults DEF ProcessEnds
  <2> QED BY <1>0, <1>18, <2>1, <2>2 DEF ProcessEnds, Types
<1>19. CASE UNCHANGED vars
  BY <1>0, <1>19 DEF vars, Types
<1> QED
  BY <1>1, <1>2, <1>3, <1>4, <1>5, <1>6, <1>7, <1>8, <1>9, <1>10, <1>11, <1>12, <1>13,
     <1>14, <1>15, <1>16, <1>17, <1>18, <1>19 DEF Next

LEMMA TypesInit == Init => Types
BY Defaults, MembershipAssumption DEF Init, Types, TeamRow, MemberRow

-----------------------------------------------------------------------------
(* Nothing that is stored is taken back: a team keeps its creator and its   *)
(* row, a member's row its user and team, and a user who has been in a chat *)
(* has been in it.                                                          *)

Grown ==
  /\ \A t \in Team :
       /\ teams[t].state # "unused" =>
            teams'[t].state # "unused" /\ teams'[t].creator = teams[t].creator
       /\ Saved(t) => Saved(t)'
  /\ \A m \in Member : members[m].state # "unused" =>
       /\ members'[m].state # "unused"
       /\ members'[m].user = members[m].user /\ members'[m].team = members[m].team
  /\ \A t \in Team, u \in User : chat[t][u] # "never" => chat'[t][u] # "never"

LEMMA TeamsSame ==
  ASSUME teams' = teams
  PROVE  \A t \in Team :
           /\ teams[t].state # "unused" =>
                teams'[t].state # "unused" /\ teams'[t].creator = teams[t].creator
           /\ Saved(t) <=> Saved(t)'
BY DEF Saved

LEMMA NewMemberRow ==
  ASSUME Types, NEW u \in User, NEW t \in Team, NEW staff \in BOOLEAN, NewMember(u, t, staff)
  PROVE  /\ \A m \in Member : members[m].state # "unused" => members'[m] = members[m]
         /\ \A m \in Member : members'[m] = members[m] \/
              (members'[m].user = u /\ members'[m].team = t /\ members[m].state = "unused")
         /\ \E m \in Member : /\ members'[m].state # "unused"
                              /\ members'[m].user = u /\ members'[m].team = t
BY DEF NewMember, Types

LEMMA Growth ==
  ASSUME Types, [Next]_vars
  PROVE  Grown
<1>0. /\ teams \in [Team -> TeamRow] /\ members \in [Member -> MemberRow]
      /\ chat \in [Team -> [User -> {"never", "in", "out"}]]
      /\ req \in [Request -> RequestState]
  BY DEF Types
<1>fields. ASSUME NEW r \in Request
           PROVE  req[r].user \in User /\ req[r].team \in Team
  BY <1>0 DEF RequestState
<1>same. ASSUME UNCHANGED <<teams, members, chat>>
         PROVE  Grown
  BY <1>same DEF Grown, Saved
<1>1. ASSUME NEW r \in Request, NEW u \in User, NEW t \in Team, CreateChat(r, u, t)
      PROVE  Grown
  BY <1>0, <1>1 DEF CreateChat, PutInChat, Grown, Saved
<1>2. ASSUME NEW r \in Request, SaveTeam(r)
      PROVE  Grown
  BY <1>0, <1>2, <1>fields DEF SaveTeam, Grown, Saved, TeamRow
<1>3. ASSUME NEW r \in Request, RegisterCreatorMember(r) \/ SaveMember(r)
      PROVE  Grown
  <2>1. \A m \in Member : members[m].state # "unused" => members'[m] = members[m]
    BY <1>3, <1>fields, NewMemberRow DEF RegisterCreatorMember, SaveMember
  <2>2. UNCHANGED <<teams, chat>>
    BY <1>3 DEF RegisterCreatorMember, SaveMember
  <2> QED BY <2>1, <2>2 DEF Grown, Saved
<1>4. ASSUME NEW t \in Team, DeleteTeam(t)
      PROVE  Grown
  BY <1>0, <1>4 DEF DeleteTeam, Grown, Saved, TeamRow
<1>5. ASSUME NEW r \in Request, InviteChat(r)
      PROVE  Grown
  BY <1>0, <1>5, <1>fields DEF InviteChat, PutInChat, InChat, Grown, Saved
<1>rows. /\ \A n \in Member : members[n] \in MemberRow
         /\ \A n \in Member :
              \/ /\ members'[n].state # "unused"
                 /\ members'[n].user = members[n].user
                 /\ members'[n].team = members[n].team
              \/ members'[n] = members[n]
         /\ UNCHANGED <<teams, chat>>
         => Grown
  BY DEF Grown, Saved
<1>6. ASSUME NEW m \in Member, NEW s \in User, NEW staff \in BOOLEAN, UpdateIsStaff(s, m, staff)
      PROVE  Grown
  BY <1>0, <1>6, <1>rows DEF UpdateIsStaff, MemberRow, Active
<1>6a. ASSUME NEW m \in Member, ExpulsionMember(m)
       PROVE  Grown
  BY <1>0, <1>6a, <1>rows DEF ExpulsionMember, MemberRow, Active
<1>7. ASSUME NEW t \in Team, NEW u \in User, LeaveChat(t, u)
      PROVE  Grown
  BY <1>0, <1>7 DEF LeaveChat, Grown, Saved
<1>8. ASSUME NEW r \in Request, SaveInvite(r) \/ DropInvites(r) \/ DeleteToken(r) \/ Fail(r)
      PROVE  Grown
  <2>1. UNCHANGED <<teams, members, chat>>
    BY <1>8 DEF SaveInvite, DropInvites, DeleteToken, Fail
  <2> QED BY <2>1, <1>same
<1>9. ASSUME NEW r \in Request, NEW s \in User, NEW u \in User, NEW t \in Team,
             RegisterMember(r, s, u, t)
      PROVE  Grown
  <2>1. UNCHANGED <<teams, members, chat>>
    BY <1>9 DEF RegisterMember, Register
  <2> QED BY <2>1, <1>same
<1>10. ASSUME NEW r \in Request, NEW k \in Token, NEW u \in User, NEW t \in Team,
              StoreToken(r, k) \/ ApproveMember(r, k, u, t) \/ RejectMember(r, k, u, t)
       PROVE  Grown
  <2>1. UNCHANGED <<teams, members, chat>>
    BY <1>10 DEF StoreToken, ApproveMember, Register, RejectMember
  <2> QED BY <2>1, <1>same
<1>11. ASSUME NEW k \in Token, TokenExpires(k)
       PROVE  Grown
  <2>1. UNCHANGED <<teams, members, chat>>
    BY <1>11 DEF TokenExpires
  <2> QED BY <2>1, <1>same
<1>12. ASSUME NEW k \in Token, NEW kind \in Kind, NEW u \in User, NEW t \in Team,
              SendMail(k, kind, u, t)
       PROVE  Grown
  <2>1. UNCHANGED <<teams, members, chat>>
    BY <1>12 DEF SendMail
  <2> QED BY <2>1, <1>same
<1>13. ASSUME ProcessEnds
       PROVE  Grown
  <2>1. UNCHANGED <<teams, members, chat>>
    BY <1>13 DEF ProcessEnds
  <2> QED BY <2>1, <1>same
<1>14. CASE UNCHANGED vars
  BY <1>14, <1>same DEF vars
<1>15. CASE \E r \in Request, k \in Token : StoreToken(r, k)
  BY <1>10, <1>15, Defaults
<1> QED
  BY <1>1, <1>2, <1>3, <1>4, <1>5, <1>6, <1>6a, <1>7, <1>8, <1>9, <1>10, <1>11, <1>12,
     <1>13, <1>14, <1>15 DEF Next

-----------------------------------------------------------------------------
(* Steps that concern neither a new team, a new row nor a new entry of a    *)
(* chat.                                                                    *)

Quiet ==
  /\ \A t \in Team : teams'[t].creator = teams[t].creator /\ (Saved(t)' <=> Saved(t))
  /\ \A m \in Member :
       /\ members'[m].user = members[m].user /\ members'[m].team = members[m].team
       /\ members'[m].state \in {members[m].state, "left"}
       /\ members[m].state = "unused" => members'[m].state = "unused"
  /\ \A t \in Team, u \in User : chat[t][u] = "never" => chat'[t][u] = "never"
  /\ \A r \in Request :
       \/ req'[r] = req[r]
       \/ req'[r].pc \in {"idle", "token", "invited"}
       \/ req'[r].pc \in {"invites", "save"} /\ Saved(req'[r].team)
  /\ \A r \in Request : At(r, "chat") => req'[r] = req[r] \/ fails' # 0
  /\ fails' = 0 => fails = 0

LEMMA QuietRows ==
  ASSUME Types, UNCHANGED <<teams, members, chat>>,
         fails' = fails \/ fails' = fails + 1,
         NEW r \in Request, NEW q \in RequestState, Move(r, q),
         q.pc \in {"idle", "token", "invited"} \/ (q.pc \in {"invites", "save"} /\ Saved(q.team)),
         At(r, "chat") => fails' # 0
  PROVE  Quiet
<1>1. /\ req'[r] = q
      /\ \A s \in Request \ {r} : req'[s] = req[s]
  BY DEF Move, Types
<1>2. fails \in Nat
  BY MembershipAssumption DEF Types
<1>3. fails' = 0 => fails = 0
  BY <1>2
<1> QED
  BY <1>1, <1>3 DEF Quiet, Saved, At

LEMMA QuietStep ==
  ASSUME IInv, [Next]_vars
  PROVE  \/ Quiet
         \/ \E r \in Request, u \in User, t \in Team : CreateChat(r, u, t)
         \/ \E r \in Request : \/ SaveTeam(r) \/ RegisterCreatorMember(r)
                               \/ SaveMember(r) \/ InviteChat(r)
<1>0. /\ teams \in [Team -> TeamRow] /\ members \in [Member -> MemberRow]
      /\ chat \in [Team -> [User -> {"never", "in", "out"}]]
      /\ req \in [Request -> RequestState] /\ tokens \in [Token -> MailState]
      /\ EarlierStepsStand /\ Types
  BY DEF IInv, TypeOK, Types
<1>mail. ASSUME NEW k \in Token
         PROVE  tokens[k].user \in User /\ tokens[k].team \in Team
  BY <1>0 DEF MailState
<1>pc. Idle.pc = "idle"
  BY DEF Idle
<1>1. ASSUME UNCHANGED <<teams, members, chat, req, fails>>
      PROVE  Quiet
  BY <1>1 DEF Quiet, Saved
<1>2. ASSUME NEW t \in Team, DeleteTeam(t)
      PROVE  Quiet
  BY <1>0, <1>2 DEF DeleteTeam, Quiet, Saved, TeamRow
<1>3. ASSUME NEW m \in Member, NEW s \in User, NEW staff \in BOOLEAN, UpdateIsStaff(s, m, staff)
      PROVE  Quiet
  BY <1>0, <1>3 DEF UpdateIsStaff, Quiet, Saved, MemberRow, Active
<1>4. ASSUME NEW m \in Member, ExpulsionMember(m)
      PROVE  Quiet
  BY <1>0, <1>4 DEF ExpulsionMember, Quiet, Saved, MemberRow, Active
<1>5. ASSUME NEW t \in Team, NEW u \in User, LeaveChat(t, u)
      PROVE  Quiet
  BY <1>0, <1>5 DEF LeaveChat, InChat, Quiet, Saved
<1>6. ASSUME NEW k \in Token, TokenExpires(k)
      PROVE  Quiet
  BY <1>1, <1>6 DEF TokenExpires
<1>7. ASSUME NEW k \in Token, NEW kind \in Kind, NEW u \in User, NEW t \in Team,
             SendMail(k, kind, u, t)
      PROVE  Quiet
  BY <1>1, <1>7 DEF SendMail
<1>8. ASSUME NEW r \in Request, SaveInvite(r) \/ DeleteToken(r)
      PROVE  Quiet
  BY <1>0, <1>8, <1>pc, Defaults, QuietRows DEF SaveInvite, DeleteToken, At
<1>9. ASSUME NEW r \in Request, Fail(r)
      PROVE  Quiet
  <2>1. fails' # 0 /\ fails' = fails + 1
    BY <1>0, <1>9, MembershipAssumption DEF Fail, Types
  <2> QED BY <1>0, <1>9, <2>1, <1>pc, Defaults, QuietRows DEF Fail
<1>10. ASSUME NEW r \in Request, DropInvites(r)
       PROVE  Quiet
  <2>1. /\ [req[r] EXCEPT !.pc = "save"] \in RequestState
        /\ [req[r] EXCEPT !.pc = "save"].pc = "save"
        /\ [req[r] EXCEPT !.pc = "save"].team = req[r].team
    BY <1>0 DEF RequestState
  <2>2. Saved(req[r].team) /\ ~ At(r, "chat")
    BY <1>0, <1>10 DEF DropInvites, At, EarlierStepsStand, Stands
  <2>3. Move(r, [req[r] EXCEPT !.pc = "save"])
    BY <1>10 DEF DropInvites, Goto
  <2>4. UNCHANGED <<teams, members, chat, fails>>
    BY <1>10 DEF DropInvites
  <2> QED BY <1>0, <2>1, <2>2, <2>3, <2>4, QuietRows
<1>11. ASSUME NEW r \in Request, NEW s \in User, NEW u \in User, NEW t \in Team,
              RegisterMember(r, s, u, t)
       PROVE  Quiet
  <2> DEFINE q == [Idle EXCEPT !.pc = "invites", !.user = u, !.team = t]
  <2>1. q \in RequestState /\ q.pc = "invites" /\ q.team = t
    BY Defaults DEF RequestState
  <2>2. Saved(t) /\ ~ At(r, "chat") /\ UNCHANGED <<teams, members, chat, fails>> /\ Move(r, q)
    BY <1>11 DEF RegisterMember, Register, At, Saved
  <2> QED BY <1>0, <2>1, <2>2, QuietRows
<1>12. ASSUME NEW r \in Request, NEW k \in Token, NEW u \in User, NEW t \in Team,
              ApproveMember(r, k, u, t)
       PROVE  Quiet
  <2> DEFINE q == [Idle EXCEPT !.pc = "invites", !.user = u, !.team = t,
                               !.token = k, !.mailed = TRUE]
  <2>1. q \in RequestState /\ q.pc = "invites" /\ q.team = t
    BY Defaults DEF RequestState
  <2>2. /\ Saved(t) /\ ~ At(r, "chat")
        /\ UNCHANGED <<teams, members, chat, fails>> /\ Move(r, q)
    BY <1>12 DEF ApproveMember, Register, At, Saved
  <2> QED BY <1>0, <2>1, <2>2, QuietRows
<1>13. ASSUME NEW r \in Request, NEW k \in Token, NEW u \in User, NEW t \in Team,
              RejectMember(r, k, u, t)
       PROVE  Quiet
  <2> DEFINE letter == Rejection(u, t)
             q == [Idle EXCEPT !.pc = "token", !.user = letter.to, !.team = letter.about,
                               !.token = k]
  <2>1. letter.to \in User /\ letter.about \in Team
    BY <1>13 DEF RejectMember
  <2>2. q \in RequestState /\ q.pc = "token"
    BY <2>1, Defaults DEF RequestState
  <2>3. ~ At(r, "chat") /\ UNCHANGED <<teams, members, chat, fails>> /\ Move(r, q)
    BY <1>13 DEF RejectMember, At
  <2> QED BY <1>0, <2>2, <2>3, QuietRows
<1>14. ASSUME NEW r \in Request, NEW k \in Token, StoreToken(r, k)
       PROVE  Quiet
  <2>1. CASE tokens[k].kind = "invite"
    <3> DEFINE q == [Idle EXCEPT !.pc = "invited", !.user = tokens[k].user,
                                 !.team = tokens[k].team]
    <3>1. q \in RequestState /\ q.pc = "invited"
      BY <1>mail, Defaults DEF RequestState
    <3>2. ~ At(r, "chat") /\ UNCHANGED <<teams, members, chat, fails>> /\ Move(r, q)
      BY <1>14, <2>1 DEF StoreToken, At
    <3> QED BY <1>0, <3>1, <3>2, QuietRows
  <2>2. CASE tokens[k].kind # "invite"
    BY <1>1, <1>14, <2>2 DEF StoreToken
  <2> QED BY <2>1, <2>2
<1>15. ASSUME ProcessEnds
       PROVE  Quiet
  <2>1. fails' # 0
    BY <1>0, <1>15, MembershipAssumption DEF ProcessEnds, Types
  <2>2. \A r \in Request : req'[r].pc = "idle"
    BY <1>15, <1>pc DEF ProcessEnds
  <2> QED BY <1>15, <2>1, <2>2 DEF ProcessEnds, Quiet, Saved
<1>16. CASE UNCHANGED vars
  BY <1>1, <1>16 DEF vars
<1> QED
  BY <1>2, <1>3, <1>4, <1>5, <1>6, <1>7, <1>8, <1>9, <1>10, <1>11, <1>12, <1>13, <1>14,
     <1>15, <1>16 DEF Next

-----------------------------------------------------------------------------
(* The inductive invariant.                                                 *)

LEMMA Invariants ==
  ASSUME IInv
  PROVE  /\ teams \in [Team -> TeamRow] /\ members \in [Member -> MemberRow]
         /\ chat \in [Team -> [User -> {"never", "in", "out"}]]
         /\ req \in [Request -> RequestState] /\ fails \in Nat
         /\ Types /\ Keys /\ EarlierStepsStand /\ ChatsBelong
         /\ ChatAfterMembership /\ MembersReachChat
         /\ \A r \in Request : req[r].user \in User /\ req[r].team \in Team
BY MembershipAssumption DEF IInv, TypeOK, Types, RequestState

LEMMA MoveOne ==
  ASSUME Types, NEW r \in Request, NEW q, Move(r, q)
  PROVE  /\ req'[r] = q
         /\ \A s \in Request \ {r} : req'[s] = req[s]
BY DEF Move, Types

\* Rows stay, and so does what a waiting request relies on.
LEMMA RequestStays ==
  ASSUME IInv, Grown, NEW r \in Request, req'[r] = req[r]
  PROVE  Stands(req[r])'
<1> DEFINE u == req[r].user  t == req[r].team
<1>1. u \in User /\ t \in Team /\ Stands(req[r])
  BY Invariants DEF EarlierStepsStand
<1>2. req'[r].user = u /\ req'[r].team = t /\ req'[r].pc = req[r].pc
  OBVIOUS
<1>3. HasRow(u, t) => \E m \in Member : /\ members'[m].state # "unused"
                                        /\ members'[m].user = u /\ members'[m].team = t
  BY DEF HasRow, Grown
<1>4. Saved(t) => teams'[t].state \in {"active", "deleted"}
  BY <1>1 DEF Grown, Saved
<1> QED
  BY <1>1, <1>2, <1>3, <1>4 DEF Stands, Grown, HasRow, Saved

LEMMA EarlierStepsStep ==
  ASSUME IInv, [Next]_vars
  PROVE  EarlierStepsStand'
<1>0. Types /\ Grown /\ EarlierStepsStand
  BY Invariants, Growth
<1>fields. \A r \in Request : req[r].user \in User /\ req[r].team \in Team
  BY Invariants
<1>stay. ASSUME NEW r \in Request, \A s \in Request \ {r} : req'[s] = req[s], Stands(req[r])'
         PROVE  EarlierStepsStand'
  BY <1>0, <1>stay, RequestStays DEF EarlierStepsStand
<1>1. CASE Quiet
  <2> SUFFICES ASSUME NEW r \in Request
               PROVE  Stands(req[r])'
    BY DEF EarlierStepsStand
  <2>1. CASE req'[r] = req[r]
    BY <1>0, <2>1, RequestStays
  <2>2. CASE req'[r].pc \in {"idle", "token", "invited"}
    BY <2>2 DEF Stands
  <2>3. CASE req'[r].pc \in {"invites", "save"} /\ Saved(req'[r].team)
    <3>1. req'[r].team \in Team
      BY <1>0, TypesStep DEF Types, RequestState
    <3> QED BY <1>0, <2>3, <3>1 DEF Stands, Grown, Saved
  <2> QED BY <1>1, <2>1, <2>2, <2>3 DEF Quiet
<1>2. ASSUME NEW r \in Request, NEW u \in User, NEW t \in Team, CreateChat(r, u, t)
      PROVE  EarlierStepsStand'
  <2>1. /\ req'[r].pc = "team" /\ req'[r].user = u /\ req'[r].team = t
        /\ \A s \in Request \ {r} : req'[s] = req[s]
    BY <1>0, <1>2 DEF CreateChat, Move, Types, Idle
  <2>2. /\ teams'[t].state = "chat" /\ teams'[t].creator = u /\ chat'[t][u] = "in"
    BY <1>0, <1>2 DEF CreateChat, PutInChat, Types
  <2> QED BY <2>1, <2>2, <1>stay DEF Stands
<1>3. ASSUME NEW r \in Request, SaveTeam(r)
      PROVE  EarlierStepsStand'
  <2>1. CASE CreatorTaken(req[r].user)
    <3>1. req'[r].pc = "idle" /\ \A s \in Request \ {r} : req'[s] = req[s]
      BY <1>0, <1>3, <2>1, MoveOne DEF SaveTeam, Idle
    <3> QED BY <3>1, <1>stay DEF Stands
  <2>2. CASE ~ CreatorTaken(req[r].user)
    <3>1. /\ req'[r].pc = "creator" /\ req'[r].user = req[r].user /\ req'[r].team = req[r].team
          /\ \A s \in Request \ {r} : req'[s] = req[s]
      BY <1>0, <1>3, <2>2 DEF SaveTeam, Goto, Move, Types, RequestState
    <3>2. /\ teams[req[r].team].state # "unused" /\ teams[req[r].team].creator = req[r].user
          /\ chat[req[r].team][req[r].user] # "never"
      BY <1>0, <1>3 DEF SaveTeam, At, EarlierStepsStand, Stands
    <3>3. teams'[req[r].team].state = "active"
      BY <1>0, <1>3, <2>2, <1>fields DEF SaveTeam, Types, TeamRow
    <3>4. /\ teams'[req[r].team].creator = req[r].user
          /\ chat'[req[r].team][req[r].user] # "never"
      BY <1>0, <3>2, <1>fields DEF Grown
    <3> QED BY <3>1, <3>3, <3>4, <1>stay DEF Stands, Saved
  <2> QED BY <2>1, <2>2
<1>4. ASSUME NEW r \in Request, RegisterCreatorMember(r)
      PROVE  EarlierStepsStand'
  <2>1. req'[r].pc = "idle" /\ \A s \in Request \ {r} : req'[s] = req[s]
    BY <1>0, <1>4, MoveOne DEF RegisterCreatorMember, Idle
  <2> QED BY <2>1, <1>stay DEF Stands
<1>5. ASSUME NEW r \in Request, SaveMember(r)
      PROVE  EarlierStepsStand'
  <2>1. /\ req'[r].pc = "chat" /\ req'[r].user = req[r].user /\ req'[r].team = req[r].team
        /\ \A s \in Request \ {r} : req'[s] = req[s]
    BY <1>0, <1>5 DEF SaveMember, Goto, Move, Types, RequestState
  <2>2. Saved(req[r].team) /\ teams' = teams
    BY <1>0, <1>5 DEF SaveMember, At, EarlierStepsStand, Stands
  <2>3. \E m \in Member : /\ members'[m].state # "unused"
                          /\ members'[m].user = req[r].user /\ members'[m].team = req[r].team
    <3>1. NewMember(req[r].user, req[r].team, FALSE)
      BY <1>5 DEF SaveMember
    <3> QED BY <1>0, <3>1 DEF NewMember, Types
  <2> QED BY <2>1, <2>2, <2>3, <1>stay DEF Stands, Saved, HasRow
<1>6. ASSUME NEW r \in Request, InviteChat(r)
      PROVE  EarlierStepsStand'
  <2>1. \A s \in Request \ {r} : req'[s] = req[s]
    BY <1>0, <1>6 DEF InviteChat, Move, Types
  <2>2. req'[r].pc \in {"idle", "token"}
    <3>1. Registration(r).pc \in {"idle", "token"}
      BY <1>0 DEF Registration, Idle, Types, RequestState
    <3> QED BY <1>0, <1>6, <3>1 DEF InviteChat, Move, Types, Idle
  <2> QED BY <2>1, <2>2, <1>stay DEF Stands
<1> QED
  BY <1>1, <1>2, <1>3, <1>4, <1>5, <1>6, QuietStep

LEMMA ChatsBelongStep ==
  ASSUME IInv, [Next]_vars
  PROVE  ChatsBelong'
<1>0. Grown /\ ChatsBelong /\ EarlierStepsStand /\ Types
  BY Invariants, Growth
<1>1. ASSUME NEW t \in Team, NEW u \in User, chat'[t][u] # "never"
      PROVE  teams'[t].state # "unused"
  <2>1. CASE chat[t][u] # "never"
    BY <1>0, <2>1 DEF ChatsBelong, Grown
  <2>2. CASE chat[t][u] = "never" /\ Quiet
    BY <1>1, <2>2 DEF Quiet
  <2>3. ASSUME NEW r \in Request, NEW v \in User, NEW s \in Team, CreateChat(r, v, s),
               chat[t][u] = "never"
        PROVE  teams'[t].state # "unused"
    BY <1>0, <1>1, <2>3 DEF CreateChat, PutInChat, Types
  <2>4. ASSUME NEW r \in Request, SaveTeam(r) \/ RegisterCreatorMember(r) \/ SaveMember(r),
               chat[t][u] = "never"
        PROVE  FALSE
    BY <1>1, <2>4 DEF SaveTeam, RegisterCreatorMember, SaveMember
  <2>5. ASSUME NEW r \in Request, InviteChat(r), chat[t][u] = "never"
        PROVE  teams'[t].state # "unused"
    <3>1. t = req[r].team
      BY <1>0, <1>1, <2>5 DEF InviteChat, PutInChat, InChat, Types
    <3>2. Saved(req[r].team)
      BY <1>0, <2>5 DEF InviteChat, At, EarlierStepsStand, Stands
    <3> QED BY <2>5, <3>1, <3>2 DEF InviteChat, Saved
  <2> QED
    BY <2>1, <2>2, <2>3, <2>4, <2>5, QuietStep
<1> QED
  BY <1>1 DEF ChatsBelong

LEMMA ChatAfterMembershipStep ==
  ASSUME IInv, [Next]_vars
  PROVE  ChatAfterMembership'
<1>0. Grown /\ ChatsBelong /\ ChatAfterMembership /\ EarlierStepsStand /\ Types
  BY Invariants, Growth
<1>1. ASSUME NEW t \in Team, NEW u \in User, chat'[t][u] # "never"
      PROVE  \/ teams'[t].creator = u
             \/ \E m \in Member : /\ members'[m].state # "unused"
                                  /\ members'[m].user = u /\ members'[m].team = t
  <2>1. CASE chat[t][u] # "never"
    BY <1>0, <2>1 DEF ChatsBelong, ChatAfterMembership, Grown, HasRow
  <2>2. CASE chat[t][u] = "never" /\ Quiet
    BY <1>1, <2>2 DEF Quiet
  <2>3. ASSUME NEW r \in Request, NEW v \in User, NEW s \in Team, CreateChat(r, v, s),
               chat[t][u] = "never"
        PROVE  teams'[t].creator = u
    BY <1>0, <1>1, <2>3 DEF CreateChat, PutInChat, Types
  <2>4. ASSUME NEW r \in Request, SaveTeam(r) \/ RegisterCreatorMember(r) \/ SaveMember(r),
               chat[t][u] = "never"
        PROVE  FALSE
    BY <1>1, <2>4 DEF SaveTeam, RegisterCreatorMember, SaveMember
  <2>5. ASSUME NEW r \in Request, InviteChat(r), chat[t][u] = "never"
        PROVE  \E m \in Member : /\ members'[m].state # "unused"
                                 /\ members'[m].user = u /\ members'[m].team = t
    <3>1. t = req[r].team /\ u = req[r].user
      BY <1>0, <1>1, <2>5 DEF InviteChat, PutInChat, InChat, Types
    <3>2. HasRow(req[r].user, req[r].team)
      BY <1>0, <2>5 DEF InviteChat, At, EarlierStepsStand, Stands
    <3> QED BY <2>5, <3>1, <3>2 DEF InviteChat, HasRow
  <2> QED
    BY <2>1, <2>2, <2>3, <2>4, <2>5, QuietStep
<1> QED
  BY <1>1 DEF ChatAfterMembership, HasRow

LEMMA KeysStep ==
  ASSUME IInv, [Next]_vars
  PROVE  Keys'
<1>0. Grown /\ Keys /\ EarlierStepsStand /\ Types
  BY Invariants, Growth
<1>fields. \A r \in Request : req[r].user \in User /\ req[r].team \in Team
  BY Invariants
<1>team. \A m \in Member : members[m].team \in Team
  BY <1>0 DEF Types, MemberRow
<1>1. CASE Quiet
  <2>1. ASSUME NEW s \in Team, NEW t \in Team, Saved(s)', Saved(t)',
               teams'[s].creator = teams'[t].creator
        PROVE  s = t
    <3>1. Saved(s) /\ Saved(t) /\ teams[s].creator = teams[t].creator
      <4>1. \A i \in Team : teams'[i].creator = teams[i].creator
        BY <1>1 DEF Quiet
      <4>2. \A i \in Team : Saved(i)' => Saved(i)
        BY <1>1 DEF Quiet
      <4>3. Saved(s) /\ Saved(t)
        BY <2>1, <4>2
      <4> QED BY <2>1, <4>1, <4>3
    <3> QED BY <1>0, <3>1 DEF Keys
  <2>2. ASSUME NEW m \in Member, members'[m].state # "unused"
        PROVE  teams'[members'[m].team].state \in {"active", "deleted"}
    <3>1. members[m].state # "unused" /\ members'[m].team = members[m].team
      BY <1>1, <2>2 DEF Quiet
    <3>2. Saved(members[m].team) /\ members[m].team \in Team
      BY <1>0, <1>team, <3>1 DEF Keys
    <3> QED BY <1>0, <3>1, <3>2 DEF Grown, Saved
  <2> QED BY <2>1, <2>2 DEF Keys, Saved
<1>2. ASSUME NEW r \in Request, NEW u \in User, NEW t \in Team, CreateChat(r, u, t)
      PROVE  Keys'
  <2>1. members' = members /\ \A s \in Team \ {t} : teams'[s] = teams[s]
    BY <1>0, <1>2 DEF CreateChat, Types
  <2>2. teams[t].state = "unused" /\ teams'[t].state = "chat"
    BY <1>0, <1>2 DEF CreateChat, Types
  <2> QED BY <1>0, <2>1, <2>2, <1>team DEF Keys, Saved
<1>3. ASSUME NEW r \in Request, SaveTeam(r)
      PROVE  Keys'
  <2> DEFINE t == req[r].team
  <2>1. CASE CreatorTaken(req[r].user)
    BY <1>0, <1>3, <2>1 DEF SaveTeam, Keys, Saved
  <2>2. CASE ~ CreatorTaken(req[r].user)
    <3>1. t \in Team /\ teams[t].creator = req[r].user
      BY <1>0, <1>3, <1>fields DEF SaveTeam, At, EarlierStepsStand, Stands
    <3>2. /\ members' = members
          /\ \A s \in Team \ {t} : teams'[s] = teams[s]
          /\ teams'[t].creator = teams[t].creator /\ teams'[t].state = "active"
      BY <1>0, <1>3, <2>2, <3>1 DEF SaveTeam, Types, TeamRow
    <3>3. \A s \in Team : Saved(s) => teams[s].creator # teams[t].creator
      BY <2>2, <3>1 DEF CreatorTaken
    <3> QED BY <1>0, <3>1, <3>2, <3>3, <1>team DEF Keys, Saved
  <2> QED BY <2>1, <2>2
<1>4. ASSUME NEW r \in Request, RegisterCreatorMember(r) \/ SaveMember(r)
      PROVE  Keys'
  <2>1. teams' = teams /\ Saved(req[r].team)
    BY <1>0, <1>4 DEF RegisterCreatorMember, SaveMember, At, EarlierStepsStand, Stands
  <2>2. \A m \in Member : members'[m] = members[m] \/ members'[m].team = req[r].team
    BY <1>0, <1>4 DEF RegisterCreatorMember, SaveMember, NewMember, Types
  <2> QED BY <1>0, <2>1, <2>2 DEF Keys, Saved
<1>5. ASSUME NEW r \in Request, InviteChat(r)
      PROVE  Keys'
  BY <1>0, <1>5 DEF InviteChat, Keys, Saved
<1> QED
  BY <1>1, <1>2, <1>3, <1>4, <1>5, QuietStep

LEMMA MembersReachChatStep ==
  ASSUME IInv, [Next]_vars
  PROVE  MembersReachChat'
<1>0. Grown /\ MembersReachChat /\ EarlierStepsStand /\ Types /\ fails \in Nat
  BY Invariants, Growth
<1>fields. \A r \in Request : req[r].user \in User /\ req[r].team \in Team
  BY Invariants
<1>rows. \A m \in Member : members[m].user \in User /\ members[m].team \in Team
  BY <1>0 DEF Types, MemberRow
<1> DEFINE Reached(m) == chat'[members'[m].team][members'[m].user] # "never"
           Waiting(m) == \E r \in Request : /\ req'[r].pc = "chat"
                                            /\ req'[r].user = members'[m].user
                                            /\ req'[r].team = members'[m].team
<1>old. ASSUME NEW m \in Member, Active(m), fails = 0,
               \A r \in Request : At(r, "chat") => req'[r] = req[r]
        PROVE  Reached(m) \/ Waiting(m)
  <2>1. members'[m].user = members[m].user /\ members'[m].team = members[m].team
    BY <1>0, <1>old DEF Grown, Active
  <2>2. CASE chat[members[m].team][members[m].user] # "never"
    BY <1>0, <1>rows, <2>1, <2>2 DEF Grown
  <2>3. CASE \E r \in Request : /\ At(r, "chat") /\ req[r].user = members[m].user
                                /\ req[r].team = members[m].team
    BY <1>old, <2>1, <2>3 DEF At
  <2> QED BY <1>0, <1>old, <2>2, <2>3 DEF MembersReachChat
<1>1. ASSUME fails' = 0, NEW m \in Member, members'[m].state = "active"
      PROVE  Reached(m) \/ Waiting(m)
  <2>1. CASE Quiet
    <3>1. Active(m) /\ fails = 0 /\ \A r \in Request : At(r, "chat") => req'[r] = req[r]
      BY <1>1, <2>1 DEF Quiet, Active
    <3> QED BY <3>1, <1>old
  <2>2. ASSUME NEW r \in Request, NEW u \in User, NEW t \in Team, CreateChat(r, u, t)
        PROVE  Reached(m) \/ Waiting(m)
    <3>1. members' = members /\ fails' = fails
      BY <2>2 DEF CreateChat
    <3>2. \A s \in Request : At(s, "chat") => req'[s] = req[s]
      BY <1>0, <2>2 DEF CreateChat, At, Move, Types
    <3> QED BY <1>1, <3>1, <3>2, <1>old DEF Active
  <2>3. ASSUME NEW r \in Request, SaveTeam(r)
        PROVE  Reached(m) \/ Waiting(m)
    <3>1. members' = members /\ fails' = fails
      BY <2>3 DEF SaveTeam
    <3>2. \A s \in Request : At(s, "chat") => req'[s] = req[s]
      BY <1>0, <2>3 DEF SaveTeam, At, Goto, Move, Types
    <3> QED BY <1>1, <3>1, <3>2, <1>old DEF Active
  <2>4. ASSUME NEW r \in Request, RegisterCreatorMember(r)
        PROVE  Reached(m) \/ Waiting(m)
    <3>1. chat' = chat /\ fails' = fails
      BY <2>4 DEF RegisterCreatorMember
    <3>2. \A s \in Request : At(s, "chat") => req'[s] = req[s]
      BY <1>0, <2>4 DEF RegisterCreatorMember, At, Move, Types
    <3>3. NewMember(req[r].user, req[r].team, TRUE)
      BY <2>4 DEF RegisterCreatorMember
    <3>4. \/ members'[m] = members[m]
          \/ members'[m].user = req[r].user /\ members'[m].team = req[r].team
      BY <1>0, <3>3 DEF NewMember, Types
    <3>5. chat[req[r].team][req[r].user] # "never"
      BY <1>0, <2>4 DEF RegisterCreatorMember, At, EarlierStepsStand, Stands
    <3>6. CASE members'[m] = members[m]
      BY <1>1, <3>1, <3>2, <3>6, <1>old DEF Active
    <3> QED BY <3>1, <3>4, <3>5, <3>6
  <2>5. ASSUME NEW r \in Request, SaveMember(r)
        PROVE  Reached(m) \/ Waiting(m)
    <3>1. chat' = chat /\ fails' = fails
      BY <2>5 DEF SaveMember
    <3>2. /\ \A s \in Request : At(s, "chat") => req'[s] = req[s]
          /\ req'[r].pc = "chat" /\ req'[r].user = req[r].user /\ req'[r].team = req[r].team
      BY <1>0, <2>5 DEF SaveMember, At, Goto, Move, Types, RequestState
    <3>3. NewMember(req[r].user, req[r].team, FALSE)
      BY <2>5 DEF SaveMember
    <3>4. \/ members'[m] = members[m]
          \/ members'[m].user = req[r].user /\ members'[m].team = req[r].team
      BY <1>0, <3>3 DEF NewMember, Types
    <3>5. CASE members'[m] = members[m]
      BY <1>1, <3>1, <3>2, <3>5, <1>old DEF Active
    <3> QED BY <3>2, <3>4, <3>5
  <2>6. ASSUME NEW r \in Request, InviteChat(r)
        PROVE  Reached(m) \/ Waiting(m)
    <3>1. members' = members /\ fails' = fails
      BY <2>6 DEF InviteChat
    <3>2. \A s \in Request \ {r} : req'[s] = req[s]
      BY <1>0, <2>6 DEF InviteChat, Move, Types
    <3>3. chat'[req[r].team][req[r].user] = "in"
      BY <1>0, <2>6, <1>fields DEF InviteChat, PutInChat, InChat, Types
    <3>4. CASE members[m].user = req[r].user /\ members[m].team = req[r].team
      BY <3>1, <3>3, <3>4
    <3>5. CASE ~ (members[m].user = req[r].user /\ members[m].team = req[r].team)
      <4>1. Active(m) /\ fails = 0
        BY <1>1, <3>1 DEF Active
      <4>2. \/ chat[members[m].team][members[m].user] # "never"
            \/ \E s \in Request \ {r} : /\ At(s, "chat") /\ req[s].user = members[m].user
                                        /\ req[s].team = members[m].team
        BY <1>0, <3>5, <4>1 DEF MembersReachChat
      <4>3. CASE chat[members[m].team][members[m].user] # "never"
        BY <1>0, <1>rows, <3>1, <4>3 DEF Grown
      <4> QED BY <3>1, <3>2, <4>2, <4>3 DEF At
    <3> QED BY <3>4, <3>5
  <2> QED
    BY <2>1, <2>2, <2>3, <2>4, <2>5, <2>6, QuietStep
<1> QED
  BY <1>1 DEF MembersReachChat, Active, At

LEMMA InvInit == Init => IInv
<1> SUFFICES ASSUME Init
             PROVE  IInv
  OBVIOUS
<1>1. Types
  BY TypesInit
<1>2. Keys /\ ChatsBelong /\ ChatAfterMembership /\ MembersReachChat
  BY DEF Init, Keys, Saved, ChatsBelong, ChatAfterMembership, MembersReachChat, Active
<1>3. EarlierStepsStand
  BY DEF Init, EarlierStepsStand, Stands, Idle
<1> QED
  BY <1>1, <1>2, <1>3 DEF IInv, TypeOK, Types

LEMMA InvStep == IInv /\ [Next]_vars => IInv'
<1> SUFFICES ASSUME IInv, [Next]_vars
             PROVE  IInv'
  OBVIOUS
<1>1. Types'
  BY TypesStep DEF IInv, TypeOK, Types
<1> QED
  BY <1>1, KeysStep, EarlierStepsStep, ChatsBelongStep, ChatAfterMembershipStep,
     MembersReachChatStep DEF IInv, TypeOK, Types

-----------------------------------------------------------------------------
(* Registrations that race.                                                 *)

\* What bounds the memberships of a user: the set of them stays finite.
RacesFit ==
  \A u \in User :
    /\ IsFiniteSet(Joined(u))
    /\ Cardinality(Joined(u)) + Cardinality(Registering(u)) <= Cardinality(Request)

LEMMA PartOfRequests ==
  ASSUME NEW S \in SUBSET Request
  PROVE  /\ IsFiniteSet(S) /\ Cardinality(S) \in Nat /\ Cardinality(Request) \in Nat
         /\ Cardinality(S) <= Cardinality(Request)
BY MembershipAssumption, FS_Subset, FS_CardinalityType

\* Fewer memberships and fewer registrations fit as well.
LEMMA FewerFit ==
  ASSUME NEW J, IsFiniteSet(J), NEW K \in SUBSET J,
         NEW S \in SUBSET Request, NEW T \in SUBSET S,
         Cardinality(J) + Cardinality(S) <= Cardinality(Request)
  PROVE  /\ IsFiniteSet(K)
         /\ Cardinality(K) + Cardinality(T) <= Cardinality(Request)
<1>1. IsFiniteSet(K) /\ Cardinality(K) <= Cardinality(J)
  BY FS_Subset
<1>2. IsFiniteSet(S) /\ T \in SUBSET Request /\ Cardinality(T) <= Cardinality(S)
  BY PartOfRequests, FS_Subset
<1>3. /\ Cardinality(J) \in Nat /\ Cardinality(K) \in Nat /\ Cardinality(S) \in Nat
      /\ Cardinality(T) \in Nat /\ Cardinality(Request) \in Nat
  BY <1>1, <1>2, FS_CardinalityType, PartOfRequests
<1> QED
  BY <1>1, <1>2, <1>3

\* A registration that is saved is one membership more and one registration less.
LEMMA SavedFit ==
  ASSUME NEW J, IsFiniteSet(J), NEW m, NEW K \in SUBSET (J \cup {m}),
         NEW S \in SUBSET Request, NEW r \in S,
         Cardinality(J) + Cardinality(S) <= Cardinality(Request)
  PROVE  /\ IsFiniteSet(K)
         /\ Cardinality(K) + Cardinality(S \ {r}) <= Cardinality(Request)
<1>1. IsFiniteSet(J \cup {m}) /\ Cardinality(J \cup {m}) <= Cardinality(J) + 1
  <2>0. Cardinality(J) \in Nat
    BY FS_CardinalityType
  <2>1. CASE m \in J
    <3>1. J \cup {m} = J
      BY <2>1
    <3>2. Cardinality(J \cup {m}) = Cardinality(J) /\ IsFiniteSet(J \cup {m})
      BY <3>1
    <3> QED BY <2>0, <3>2
  <2>2. CASE m \notin J
    <3>1. IsFiniteSet(J \cup {m}) /\ Cardinality(J \cup {m}) = Cardinality(J) + 1
      BY <2>2, FS_AddElement
    <3> QED BY <2>0, <3>1
  <2> QED BY <2>1, <2>2
<1>2. IsFiniteSet(K) /\ Cardinality(K) <= Cardinality(J \cup {m})
  BY <1>1, FS_Subset
<1>3. IsFiniteSet(S) /\ Cardinality(S \ {r}) = Cardinality(S) - 1
  BY PartOfRequests, FS_RemoveElement
<1>4. /\ Cardinality(J) \in Nat /\ Cardinality(K) \in Nat /\ Cardinality(S) \in Nat
      /\ Cardinality(J \cup {m}) \in Nat /\ Cardinality(Request) \in Nat
  BY <1>1, <1>2, <1>3, FS_CardinalityType, PartOfRequests
<1> QED
  BY <1>1, <1>2, <1>3, <1>4

\* A user without a team has no membership that counts.
LEMMA Unregistered ==
  ASSUME Types, NEW u \in User, NEW t \in Team, ~ Registered(u, t)
  PROVE  Joined(u) = {}
BY DEF Types, MemberRow, Registered, IsMember, Joined, Active

\* Who created the team of a member does not change.
LEMMA CreatorsStay ==
  ASSUME IInv, [Next]_vars, NEW m \in Member, members[m].state # "unused"
  PROVE  teams'[members[m].team].creator = teams[members[m].team].creator
<1>1. Types /\ Keys /\ members[m].team \in Team
  BY DEF IInv, TypeOK, Types, MemberRow
<1>2. teams[members[m].team].state # "unused"
  BY <1>1 DEF Keys, Saved
<1> QED
  BY <1>1, <1>2, Growth DEF Grown

\* A step that registers nobody.
LEMMA NoRegistration ==
  ASSUME IInv, RacesFit, [Next]_vars, NEW u \in User,
         \A m \in Member : (Active(m)' /\ members'[m].user = u) =>
           \/ /\ Active(m)
              /\ members[m].user = members'[m].user /\ members[m].team = members'[m].team
           \/ teams'[members'[m].team].creator = u,
         Registering(u)' \subseteq Registering(u)
  PROVE  /\ IsFiniteSet(Joined(u)')
         /\ Cardinality(Joined(u)') + Cardinality(Registering(u)') <= Cardinality(Request)
<1>1. Joined(u)' \subseteq Joined(u)
  BY CreatorsStay DEF Joined, Active
<1>2. Registering(u) \in SUBSET Request
  BY DEF Registering
<1> QED
  BY <1>1, <1>2, FewerFit DEF RacesFit

LEMMA RacesFitStep == IInv /\ RacesFit /\ [Next]_vars => RacesFit'
<1> SUFFICES ASSUME IInv, RacesFit, [Next]_vars, NEW u \in User
             PROVE  /\ IsFiniteSet(Joined(u)')
                    /\ Cardinality(Joined(u)') + Cardinality(Registering(u)')
                         <= Cardinality(Request)
  BY DEF RacesFit
<1> DEFINE Fits == /\ IsFiniteSet(Joined(u)')
                   /\ Cardinality(Joined(u)') + Cardinality(Registering(u)')
                        <= Cardinality(Request)
<1>0. /\ Types /\ teams \in [Team -> TeamRow] /\ members \in [Member -> MemberRow]
      /\ req \in [Request -> RequestState]
      /\ \A r \in Request : req[r].user \in User /\ req[r].team \in Team
  BY Invariants
<1>same. ASSUME members' = members, Registering(u)' \subseteq Registering(u)
         PROVE  Fits
  BY <1>same, NoRegistration DEF Active
<1>moved. ASSUME NEW r \in Request, members' = members,
                 \A s \in Request \ {r} : req'[s] = req[s],
                 \/ req'[r].pc \notin {"invites", "save"}
                 \/ At(r, "invites") /\ req'[r].user = req[r].user
          PROVE  Fits
  <2>1. Registering(u)' \subseteq Registering(u)
    BY <1>moved DEF Registering, At
  <2> QED BY <1>moved, <2>1, <1>same
<1>1. ASSUME NEW r \in Request, NEW v \in User, NEW t \in Team, Register(r, v, t),
             \A s \in Request \ {r} : req'[s] = req[s],
             req'[r].user = v
      PROVE  Fits
  <2>1. members' = members /\ teams' = teams /\ At(r, "idle") /\ ~ Registered(v, t)
    BY <1>1 DEF Register
  <2>2. CASE u = v
    <3>1. Joined(u)' = {}
      BY <1>0, <2>1, <2>2, Unregistered DEF Joined, Active
    <3>2. Registering(u)' \in SUBSET Request
      BY DEF Registering
    <3> QED BY <3>1, <3>2, PartOfRequests, FS_EmptySet
  <2>3. CASE u # v
    <3>1. Registering(u)' \subseteq Registering(u)
      BY <1>1, <2>3 DEF Registering, At
    <3> QED BY <2>1, <3>1, <1>same
  <2> QED BY <2>2, <2>3
<1>2. ASSUME NEW r \in Request, SaveMember(r)
      PROVE  Fits
  <2>1. /\ At(r, "save") /\ teams' = teams /\ req'[r].pc = "chat"
        /\ \A s \in Request \ {r} : req'[s] = req[s]
    BY <1>0, <1>2 DEF SaveMember, Goto, Move, Types, RequestState
  <2>2. NewMember(req[r].user, req[r].team, FALSE)
    BY <1>2 DEF SaveMember
  <2>3. CASE u = req[r].user
    <3>1. PICK m \in Member : \A n \in Member \ {m} : members'[n] = members[n]
      BY <1>0, <2>2 DEF NewMember
    <3>2. Joined(u)' \in SUBSET (Joined(u) \cup {m})
      BY <2>1, <3>1 DEF Joined, Active
    <3>3. /\ Registering(u)' = Registering(u) \ {r}
          /\ r \in Registering(u) /\ Registering(u) \in SUBSET Request
      BY <2>1, <2>3 DEF Registering, At
    <3> QED BY <3>2, <3>3, SavedFit DEF RacesFit
  <2>4. CASE u # req[r].user
    <3>1. \A m \in Member : members'[m] = members[m] \/ members'[m].user = req[r].user
      BY <1>0, <2>2 DEF NewMember
    <3>2. Registering(u)' \subseteq Registering(u)
      BY <2>1 DEF Registering, At
    <3> QED BY <2>4, <3>1, <3>2, NoRegistration DEF Active
  <2> QED BY <2>3, <2>4
<1>3. ASSUME NEW r \in Request, RegisterCreatorMember(r)
      PROVE  Fits
  <2>1. /\ At(r, "creator") /\ teams' = teams /\ req'[r].pc = "idle"
        /\ \A s \in Request \ {r} : req'[s] = req[s]
    BY <1>0, <1>3 DEF RegisterCreatorMember, Move, Idle, Types
  <2>2. NewMember(req[r].user, req[r].team, TRUE)
    BY <1>3 DEF RegisterCreatorMember
  <2>3. teams[req[r].team].creator = req[r].user
    BY <2>1, Invariants DEF EarlierStepsStand, Stands, At
  <2>4. \A m \in Member :
          \/ members'[m] = members[m]
          \/ members'[m].user = req[r].user /\ members'[m].team = req[r].team
    BY <1>0, <2>2 DEF NewMember
  <2>5. Registering(u)' \subseteq Registering(u)
    BY <2>1 DEF Registering, At
  <2> QED BY <2>1, <2>3, <2>4, <2>5, NoRegistration DEF Active
<1>4. ASSUME NEW r \in Request, NEW v \in User, NEW t \in Team, CreateChat(r, v, t)
      PROVE  Fits
  <2>1. /\ members' = members /\ req'[r].pc = "team"
        /\ \A s \in Request \ {r} : req'[s] = req[s]
    BY <1>0, <1>4 DEF CreateChat, Move, Idle, Types
  <2> QED BY <2>1, <1>moved
<1>5. ASSUME NEW r \in Request, SaveTeam(r)
      PROVE  Fits
  <2>1. /\ members' = members /\ req'[r].pc \in {"idle", "creator"}
        /\ \A s \in Request \ {r} : req'[s] = req[s]
    BY <1>0, <1>5 DEF SaveTeam, Goto, Move, Idle, Types, RequestState
  <2> QED BY <2>1, <1>moved
<1>6. ASSUME NEW r \in Request, NEW k \in Token, StoreToken(r, k)
      PROVE  Fits
  <2>1. members' = members
    BY <1>6 DEF StoreToken
  <2>2. \/ req' = req
        \/ /\ req'[r].pc = "invited"
           /\ \A s \in Request \ {r} : req'[s] = req[s]
    BY <1>0, <1>6 DEF StoreToken, Move, Idle, Types
  <2>3. CASE req' = req
    BY <2>1, <2>3, <1>same DEF Registering, At
  <2> QED BY <2>1, <2>2, <2>3, <1>moved
<1>7. ASSUME NEW r \in Request, NEW k \in Token, NEW v \in User, NEW t \in Team,
             ApproveMember(r, k, v, t)
      PROVE  Fits
  <2>1. /\ req'[r].user = v
        /\ \A s \in Request \ {r} : req'[s] = req[s]
    BY <1>0, <1>7 DEF ApproveMember, Move, Idle, Types
  <2> QED BY <1>7, <2>1, <1>1 DEF ApproveMember
<1>8. ASSUME NEW r \in Request, NEW k \in Token, NEW v \in User, NEW t \in Team,
             RejectMember(r, k, v, t)
      PROVE  Fits
  <2>1. /\ members' = members /\ req'[r].pc = "token"
        /\ \A s \in Request \ {r} : req'[s] = req[s]
    BY <1>0, <1>8 DEF RejectMember, Move, Idle, Types
  <2> QED BY <2>1, <1>moved
<1>9. ASSUME NEW r \in Request, SaveInvite(r) \/ DeleteToken(r) \/ Fail(r)
      PROVE  Fits
  <2>1. /\ members' = members /\ req'[r].pc = "idle"
        /\ \A s \in Request \ {r} : req'[s] = req[s]
    BY <1>0, <1>9 DEF SaveInvite, DeleteToken, Fail, Move, Idle, Types
  <2> QED BY <2>1, <1>moved
<1>10. ASSUME NEW r \in Request, NEW s \in User, NEW v \in User, NEW t \in Team,
              RegisterMember(r, s, v, t)
       PROVE  Fits
  <2>1. /\ req'[r].user = v
        /\ \A q \in Request \ {r} : req'[q] = req[q]
    BY <1>0, <1>10 DEF RegisterMember, Move, Idle, Types
  <2> QED BY <1>10, <2>1, <1>1 DEF RegisterMember
<1>11. ASSUME NEW r \in Request, DropInvites(r)
       PROVE  Fits
  <2>1. /\ members' = members /\ At(r, "invites") /\ req'[r].user = req[r].user
        /\ \A s \in Request \ {r} : req'[s] = req[s]
    BY <1>0, <1>11 DEF DropInvites, Goto, Move, Types, RequestState
  <2> QED BY <2>1, <1>moved
<1>12. ASSUME NEW r \in Request, InviteChat(r)
       PROVE  Fits
  <2>1. /\ members' = members /\ req'[r].pc \in {"idle", "token"}
        /\ \A s \in Request \ {r} : req'[s] = req[s]
    BY <1>0, <1>12 DEF InviteChat, Registration, Move, Idle, Types, RequestState
  <2> QED BY <2>1, <1>moved
<1>13. ASSUME members' = members, req' = req
       PROVE  Fits
  BY <1>13, <1>same DEF Registering, At
<1>14. ASSUME NEW m \in Member,
              \/ ExpulsionMember(m)
              \/ \E s \in User, staff \in BOOLEAN : UpdateIsStaff(s, m, staff)
       PROVE  Fits
  <2>1. /\ req' = req
        /\ \A n \in Member :
             /\ members'[n].user = members[n].user /\ members'[n].team = members[n].team
             /\ Active(n)' => Active(n)
    BY <1>0, <1>14 DEF ExpulsionMember, UpdateIsStaff, Active, MemberRow
  <2>2. Registering(u)' \subseteq Registering(u)
    BY <2>1 DEF Registering, At
  <2> QED BY <2>1, <2>2, NoRegistration
<1>15. ASSUME NEW k \in Token,
              \/ \E kind \in Kind, v \in User, t \in Team : SendMail(k, kind, v, t)
              \/ TokenExpires(k)
       PROVE  Fits
  <2>1. members' = members /\ req' = req
    BY <1>15 DEF SendMail, TokenExpires
  <2> QED BY <2>1, <1>13
<1>16. ASSUME NEW t \in Team, DeleteTeam(t) \/ \E v \in User : LeaveChat(t, v)
       PROVE  Fits
  <2>1. members' = members /\ req' = req
    BY <1>16 DEF DeleteTeam, LeaveChat
  <2> QED BY <2>1, <1>13
<1>17. CASE UNCHANGED vars
  BY <1>17, <1>13 DEF vars
<1>18. ASSUME ProcessEnds
       PROVE  Fits
  <2>1. members' = members /\ Registering(u)' = {}
    BY <1>18 DEF ProcessEnds, Registering, At, Idle
  <2> QED BY <2>1, <1>same
<1> HIDE DEF Fits
<1>19. ASSUME Next
       PROVE  Fits
  <2>1. CASE \E r \in Request :
               \/ \E v \in User, t \in Team : CreateChat(r, v, t)
               \/ SaveTeam(r) \/ RegisterCreatorMember(r)
               \/ \E k \in Token :
                    \/ StoreToken(r, k)
                    \/ \E v \in User, t \in Team :
                         ApproveMember(r, k, v, t) \/ RejectMember(r, k, v, t)
    BY <2>1, <1>3, <1>4, <1>5, <1>6, <1>7, <1>8
  <2>2. CASE \E r \in Request :
               \/ SaveInvite(r) \/ DropInvites(r) \/ SaveMember(r) \/ InviteChat(r)
               \/ DeleteToken(r) \/ Fail(r)
               \/ \E q, v \in User, t \in Team : RegisterMember(r, q, v, t)
    BY <2>2, <1>2, <1>9, <1>10, <1>11, <1>12
  <2> QED
    BY <1>19, <2>1, <2>2, <1>14, <1>15, <1>16, <1>18 DEF Next
<1> QED
  BY <1>17, <1>19 DEF Fits

-----------------------------------------------------------------------------
(* Theorems.                                                                *)

\* The inductive invariant: types and keys, and what the statements of a
\* request in flight find still stored.
THEOREM Invariance == Spec => []IInv
BY InvInit, InvStep, PTL DEF Spec

\* Every reachable state is well typed, no creator has two teams and no row of
\* members is without its team (the keys of the tables).
THEOREM TypeCorrect == Spec => []TypeOK
<1>1. IInv => TypeOK
  BY DEF IInv
<1> QED
  BY <1>1, Invariance, PTL

\* registerMember and createTeam let nobody into a chat who has no membership,
\* for any number of requests that interleave and fail.
THEOREM ChatAfterMember == Spec => []ChatAfterMembership
<1>1. IInv => ChatAfterMembership
  BY DEF IInv
<1> QED
  BY <1>1, Invariance, PTL

\* As long as no request fails and the process runs, every member has been let
\* into the chat of the team or is about to be, for any number of requests.
THEOREM MemberReachesChat == Spec => []MembersReachChat
<1>1. IInv => MembersReachChat
  BY DEF IInv
<1> QED
  BY <1>1, Invariance, PTL

\* A user has no more memberships, besides the one in the team the user created,
\* than registrations can be checked at a time: one, if they come one after the
\* other, whoever makes them and whatever fails.
THEOREM RacesBoundMemberships == Spec => []RegisteredOnlyByRace
<1>1. Init => RacesFit
  <2> SUFFICES ASSUME Init, NEW u \in User
               PROVE  /\ IsFiniteSet(Joined(u))
                      /\ Cardinality(Joined(u)) + Cardinality(Registering(u))
                           <= Cardinality(Request)
    BY DEF RacesFit
  <2>1. Joined(u) = {}
    BY DEF Init, Joined, Active
  <2>2. Registering(u) \in SUBSET Request
    BY DEF Registering
  <2> QED
    BY <2>1, <2>2, PartOfRequests, FS_EmptySet
<1>2. RacesFit => RegisteredOnlyByRace
  BY DEF RacesFit, RegisteredOnlyByRace
<1> QED
  BY <1>1, <1>2, RacesFitStep, Invariance, PTL DEF Spec
=============================================================================
