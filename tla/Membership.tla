----------------------------- MODULE Membership -----------------------------
(***************************************************************************)
(* Who belongs to a team: src/src/member, with the creation of teams       *)
(* (team.service.ts), the mailed tokens (email.service.ts) and the users   *)
(* of a team's chat (chats.service.ts).  No operation is a transaction:    *)
(* every statement that writes is a step, and a request can fail between   *)
(* two of them.                                                            *)
(*                                                                         *)
(* Not in the state: profiles and gender (a refusal changes nothing), join *)
(* dates, team names.  A team deleted by an administrator keeps its row.   *)
(*                                                                         *)
(* A definition D_Variant is D with a plausible mistake; nothing uses it   *)
(* but the runs that show which property the mistake breaks.               *)
(***************************************************************************)
EXTENDS Naturals, FiniteSets

CONSTANTS
  User, Team,  \* ids
  Member,      \* bound: ids of the rows of members
  Kind,        \* the mails of an instance, out of "join" and "invite"
  Token,       \* bound: tokens of mails at a time
  Request,     \* slots for requests in flight
  MaxFails     \* bound: failures of a behaviour

ASSUME MembershipAssumption ==
  /\ User # {} /\ User \subseteq Nat
  /\ Team # {} /\ Team \subseteq Nat
  /\ Token # {}
  /\ IsFiniteSet(Request)
  /\ Kind \subseteq {"join", "invite"}
  /\ MaxFails \in Nat

VARIABLES
  teams,       \* the rows of teams; "chat" while only the chat exists
  members,     \* the rows of members
  chat,        \* users of each team's chat
  tokens,      \* mails whose token is not in Redis yet, and the tokens in Redis
  invites,     \* pending rows of invite: receiver and team
  req,         \* requests in flight
  fails

vars == <<teams, members, chat, tokens, invites, req, fails>>

TeamRow   == [state : {"unused", "chat", "active", "deleted"}, creator : User]
MemberRow == [state : {"unused", "active", "left"}, user : User, team : Team,
              staff : BOOLEAN]
MailState == [state : {"none", "sent", "valid"}, kind : {"join", "invite"},
              user : User, team : Team]
RequestState ==
  [pc : {"idle", "invites", "save", "chat", "token", "team", "creator", "invited"},
   user : User, team : Team, token : Token, mailed : BOOLEAN]

AUser == CHOOSE u \in User : TRUE
ATeam == CHOOSE t \in Team : TRUE
NoMail == [state |-> "none", kind |-> "join", user |-> AUser, team |-> ATeam]
Idle == [pc |-> "idle", user |-> AUser, team |-> ATeam,
         token |-> CHOOSE k \in Token : TRUE, mailed |-> FALSE]

Init ==
  /\ teams = [t \in Team |-> [state |-> "unused", creator |-> AUser]]
  /\ members = [m \in Member |->
                 [state |-> "unused", user |-> AUser, team |-> ATeam, staff |-> FALSE]]
  /\ chat = [t \in Team |-> [u \in User |-> "never"]]
  /\ tokens = [k \in Token |-> NoMail]
  /\ invites = {}
  /\ req = [r \in Request |-> Idle]
  /\ fails = 0

-----------------------------------------------------------------------------
(* Reads.                                                                   *)

Saved(t) == teams[t].state \in {"active", "deleted"}
Active(m) == members[m].state = "active"

HasRow(u, t) ==
  \E m \in Member : members[m].state # "unused" /\ members[m].user = u /\ members[m].team = t

IsMember(u, t) == \E m \in Member : Active(m) /\ members[m].user = u /\ members[m].team = t

Registered_Unchecked(u, t) == FALSE

\* findMemberForUserId without a team: any membership counts, that in a
\* deleted team included.
Registered(u, t) == \E s \in Team : IsMember(u, s)

\* IsStaffGuard, which takes whatever membership the query returns first
ActsAsStaff(u, t) ==
  /\ teams[t].state = "active"
  /\ \E m \in Member :
       Active(m) /\ members[m].user = u /\ members[m].team = t /\ members[m].staff

Move(r, state) == req' = [req EXCEPT ![r] = state]
At(r, pc) == req[r].pc = pc
Goto(r, pc) == Move(r, [req[r] EXCEPT !.pc = pc])

-----------------------------------------------------------------------------
(* createTeam: the chat, the team, the membership of the creator.           *)

InChat(t, u) == chat[t][u] = "in"

PutInChat(t, u) == chat' = [chat EXCEPT ![t][u] = "in"]

CreateChat_MemberFirst(r, u, t) ==
  /\ At(r, "idle")
  /\ ~ \E s \in Team : teams[s].state = "active" /\ teams[s].creator = u
  /\ teams[t].state = "unused"
  /\ teams' = [teams EXCEPT ![t] = [state |-> "chat", creator |-> u]]
  /\ PutInChat(t, u)
  /\ Move(r, [Idle EXCEPT !.pc = "creator", !.user = u, !.team = t])
  /\ UNCHANGED <<members, tokens, invites, fails>>

CreateChat(r, u, t) ==
  /\ At(r, "idle")
  /\ ~ \E s \in Team : teams[s].state = "active" /\ teams[s].creator = u
  /\ teams[t].state = "unused"
  /\ teams' = [teams EXCEPT ![t] = [state |-> "chat", creator |-> u]]
  /\ PutInChat(t, u)
  /\ Move(r, [Idle EXCEPT !.pc = "team", !.user = u, !.team = t])
  /\ UNCHANGED <<members, tokens, invites, fails>>

\* the unique key of creator_id counts deleted teams
CreatorTaken(u) == \E s \in Team : Saved(s) /\ teams[s].creator = u

SaveTeam(r) ==
  /\ At(r, "team")
  /\ IF CreatorTaken(req[r].user)
     THEN Move(r, Idle) /\ UNCHANGED teams
     ELSE Goto(r, "creator") /\ teams' = [teams EXCEPT ![req[r].team].state = "active"]
  /\ UNCHANGED <<members, chat, tokens, invites, fails>>

NewMember(u, t, staff) ==
  \E m \in Member :
    /\ members[m].state = "unused"
    /\ members' = [members EXCEPT ![m] =
         [state |-> "active", user |-> u, team |-> t, staff |-> staff]]

RegisterCreatorMember(r) ==
  /\ At(r, "creator")
  /\ NewMember(req[r].user, req[r].team, TRUE)
  /\ Move(r, Idle)
  /\ UNCHANGED <<teams, chat, tokens, invites, fails>>

\* by an administrator
DeleteTeam(t) ==
  /\ teams[t].state = "active"
  /\ teams' = [teams EXCEPT ![t].state = "deleted"]
  /\ UNCHANGED <<members, chat, tokens, invites, req, fails>>

-----------------------------------------------------------------------------
(* Mails: the mail leaves, its token is stored, an invite gets a row.       *)

\* Tokens are never used twice: one that a request holds is not sent again.
Held(k) == \E r \in Request : req[r].token = k /\ (req[r].mailed \/ At(r, "token"))

SendMail(k, kind, u, t) ==
  /\ tokens[k].state = "none" /\ ~ Held(k)
  /\ teams[t].state = "active"
  /\ tokens' = [tokens EXCEPT ![k] = [state |-> "sent", kind |-> kind, user |-> u, team |-> t]]
  /\ UNCHANGED <<teams, members, chat, invites, req, fails>>

\* Redis keeps the token alone, not what it was mailed for.  An invitation goes on
\* to save its row.
StoreToken(r, k) ==
  /\ tokens[k].state = "sent"
  /\ tokens' = [tokens EXCEPT ![k] = [NoMail EXCEPT !.state = "valid"]]
  /\ IF tokens[k].kind = "invite"
     THEN /\ At(r, "idle")
          /\ Move(r, [Idle EXCEPT !.pc = "invited", !.user = tokens[k].user,
                                  !.team = tokens[k].team])
     ELSE UNCHANGED req
  /\ UNCHANGED <<teams, members, chat, invites, fails>>

SaveInvite(r) ==
  /\ At(r, "invited")
  /\ invites' = invites \cup {[user |-> req[r].user, team |-> req[r].team]}
  /\ Move(r, Idle)
  /\ UNCHANGED <<teams, members, chat, tokens, fails>>

\* verifyEmailToken: in Redis
TokenValid(k) == tokens[k].state = "valid"

\* five minutes
TokenExpires(k) ==
  /\ TokenValid(k)
  /\ tokens' = [tokens EXCEPT ![k] = NoMail]
  /\ UNCHANGED <<teams, members, chat, invites, req, fails>>

-----------------------------------------------------------------------------
(* registerMember, called by staff or over a mailed token.                  *)

Register(r, u, t) ==
  /\ At(r, "idle")
  /\ teams[t].state = "active"
  /\ ~ Registered(u, t)
  /\ UNCHANGED <<teams, members, chat, tokens, invites, fails>>

RegisterMember(r, s, u, t) ==
  /\ ActsAsStaff(s, t)
  /\ Register(r, u, t)
  /\ Move(r, [Idle EXCEPT !.pc = "invites", !.user = u, !.team = t])

\* The user and the team are those of the URL: any token in Redis will do.
ApproveMember(r, k, u, t) ==
  /\ TokenValid(k)
  /\ Register(r, u, t)
  /\ Move(r, [Idle EXCEPT !.pc = "invites", !.user = u, !.team = t,
                          !.token = k, !.mailed = TRUE])

DropInvites_ChatFirst(r) ==
  /\ At(r, "invites")
  /\ invites' = {i \in invites : i.user # req[r].user}
  /\ Goto(r, "chat")
  /\ UNCHANGED <<teams, members, chat, tokens, fails>>

DropInvites(r) ==
  /\ At(r, "invites")
  /\ invites' = {i \in invites : i.user # req[r].user}
  /\ Goto(r, "save")
  /\ UNCHANGED <<teams, members, chat, tokens, fails>>

\* what is left to do after the chat
Registration(r) == IF req[r].mailed THEN [req[r] EXCEPT !.pc = "token"] ELSE Idle

SaveMember_NoChat(r) ==
  /\ At(r, "save")
  /\ NewMember(req[r].user, req[r].team, FALSE)
  /\ Move(r, Registration(r))
  /\ UNCHANGED <<teams, chat, tokens, invites, fails>>

SaveMember(r) ==
  /\ At(r, "save")
  /\ NewMember(req[r].user, req[r].team, FALSE)
  /\ Goto(r, "chat")
  /\ UNCHANGED <<teams, chat, tokens, invites, fails>>

\* The row that puts a user into a chat is inserted as it is: a user who is
\* still in the chat makes the request fail here.
InviteChat(r) ==
  LET u == req[r].user  t == req[r].team IN
  /\ At(r, "chat")
  /\ PutInChat(t, u)
  /\ Move(r, IF InChat(t, u) THEN Idle ELSE Registration(r))
  /\ UNCHANGED <<teams, members, tokens, invites, fails>>

DeleteToken(r) ==
  /\ At(r, "token")
  /\ tokens' = [tokens EXCEPT ![req[r].token] = NoMail]
  /\ Move(r, Idle)
  /\ UNCHANGED <<teams, members, chat, invites, fails>>

\* rejectMember passes the team as the sender and the user as the team.
Rejection(u, t) == [to |-> t, about |-> u]

\* The team is found in the database or, deleted, in the cache.
RejectMember(r, k, u, t) ==
  LET letter == Rejection(u, t) IN
  /\ At(r, "idle")
  /\ TokenValid(k)
  /\ letter.to \in User
  /\ letter.about \in Team /\ Saved(letter.about)
  /\ Move(r, [Idle EXCEPT !.pc = "token", !.user = letter.to, !.team = letter.about,
                          !.token = k])
  /\ UNCHANGED <<teams, members, chat, tokens, invites, fails>>

-----------------------------------------------------------------------------
(* Staff, expulsion, leaving the chat, failures.                            *)

UpdateIsStaff(s, m, staff) ==
  /\ Active(m)
  /\ ActsAsStaff(s, members[m].team)
  /\ members' = [members EXCEPT ![m].staff = staff]
  /\ UNCHANGED <<teams, chat, tokens, invites, req, fails>>

ExpulsionMember(m) ==
  /\ Active(m)
  /\ teams[members[m].team].state = "active"
  /\ members' = [members EXCEPT ![m].state = "left"]
  /\ UNCHANGED <<teams, chat, tokens, invites, req, fails>>

\* leave_room by the user, kick_out by anyone in the chat
LeaveChat(t, u) ==
  /\ InChat(t, u)
  /\ chat' = [chat EXCEPT ![t][u] = "out"]
  /\ UNCHANGED <<teams, members, tokens, invites, req, fails>>

\* The controller awaits the handler.
Fail(r) ==
  /\ req[r].pc \notin {"idle", "invited"}
  /\ fails < MaxFails
  /\ fails' = fails + 1
  /\ Move(r, Idle)
  /\ UNCHANGED <<teams, members, chat, tokens, invites>>

\* The controller does not await the two handlers that send mails.  If one of them
\* refuses, for a team that does not exist or a user without a profile, or fails
\* after its mail has left, the rejection ends the process: all requests in flight
\* end where they are, and a mail whose token is not stored by then is for nothing.
ProcessEnds ==
  /\ fails < MaxFails
  /\ fails' = fails + 1
  /\ req' = [r \in Request |-> Idle]
  /\ tokens' = [k \in Token |-> IF TokenValid(k) THEN tokens[k] ELSE NoMail]
  /\ UNCHANGED <<teams, members, chat, invites>>

-----------------------------------------------------------------------------
Next ==
  \/ \E r \in Request :
       \/ \E u \in User, t \in Team : CreateChat(r, u, t)
       \/ SaveTeam(r)
       \/ RegisterCreatorMember(r)
       \/ \E k \in Token :
            \/ StoreToken(r, k)
            \/ \E u \in User, t \in Team : ApproveMember(r, k, u, t) \/ RejectMember(r, k, u, t)
       \/ SaveInvite(r)
       \/ \E s, u \in User, t \in Team : RegisterMember(r, s, u, t)
       \/ DropInvites(r)
       \/ SaveMember(r)
       \/ InviteChat(r)
       \/ DeleteToken(r)
       \/ Fail(r)
  \/ \E k \in Token :
       \/ \E kind \in Kind, u \in User, t \in Team : SendMail(k, kind, u, t)
       \/ TokenExpires(k)
  \/ \E t \in Team : DeleteTeam(t) \/ \E u \in User : LeaveChat(t, u)
  \/ \E m \in Member :
       ExpulsionMember(m) \/ \E s \in User, staff \in BOOLEAN : UpdateIsStaff(s, m, staff)
  \/ ProcessEnds

Spec == Init /\ [][Next]_vars

-----------------------------------------------------------------------------
(* Properties.                                                              *)

\* The keys of the database: one team of a creator, no member without a team.
Keys ==
  /\ \A s, t \in Team :
       Saved(s) /\ Saved(t) /\ teams[s].creator = teams[t].creator => s = t
  /\ \A m \in Member : members[m].state # "unused" => Saved(members[m].team)

\* Every variable has its type and the keys hold.
TypeOK ==
  /\ teams \in [Team -> TeamRow]
  /\ members \in [Member -> MemberRow]
  /\ chat \in [Team -> [User -> {"never", "in", "out"}]]
  /\ tokens \in [Token -> MailState]
  /\ invites \subseteq [user : User, team : Team]
  /\ req \in [Request -> RequestState]
  /\ fails \in 0 .. MaxFails
  /\ Keys

\* the memberships of u besides the one in the team u created
Joined(u) == {m \in Member : /\ Active(m)
                             /\ members[m].user = u
                             /\ teams[members[m].team].creator # u}

\* the registrations of u that have passed the check and not saved the row
Registering(u) == {r \in Request : (At(r, "invites") \/ At(r, "save")) /\ req[r].user = u}

\* A user who has a team is not registered in another (member.service.ts:121),
\* but nothing backs the look-up: a user gets as many memberships as
\* registrations can pass it at a time, one if they come one after the other,
\* and never more, whoever makes them and however often a mail is followed.
RegisteredOnlyByRace ==
  \A u \in User :
    Cardinality(Joined(u)) + Cardinality(Registering(u)) <= Cardinality(Request)

\* Nobody gets into the chat of a team without a membership: the users of the
\* chat are its creator and those who have a row, whatever fails in between.
ChatAfterMembership ==
  \A t \in Team, u \in User : chat[t][u] # "never" => teams[t].creator = u \/ HasRow(u, t)

\* Unless a request fails or the process ends, a member is in the chat of the
\* team, has left it, or is about to be let in.
MembersReachChat ==
  fails = 0 => \A m \in Member : Active(m) =>
    \/ chat[members[m].team][members[m].user] # "never"
    \/ \E r \in Request : /\ At(r, "chat")
                          /\ req[r].user = members[m].user
                          /\ req[r].team = members[m].team

=============================================================================
