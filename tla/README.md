# Football management system: TLA+ models

A verification project for the NestJS server under `src/` (TypeORM on MySQL,
Redis, socket.io, mail). It models the parts of the server whose correctness
depends on the order of steps of several requests, jobs and mails: how results
become league standings, how tournaments fill, how a match gets booked by mail, how
somebody becomes a member of a team, how an address is verified, which lineup a match
has, which pages the cache may show, who hears a message of a chat, and what overlapping
changes leave of an account. TLC checks the models on small instances; TLAPS proves the
central facts for instances of every size.

Paths below are relative to `src/src/` unless they say otherwise.

## 1. Inventory

The server is one Node process. A handler runs alone until it awaits a query, a
mail or Redis; then any other handler, socket event or scheduled job may run.
Queries outside an explicit transaction commit one by one, each on a connection
of the pool. Transactions run at MySQL's default level, REPEATABLE READ. Nothing
retries, and an exception in an awaited call ends the request; an exception in a
promise nobody awaits ends the process.

| Component | State | Operations | Talks to |
|---|---|---|---|
| Match results and standings (`match/`) | `match_results`, `team_statistics`, `player_statistics` | `resultMatchCreate`, `resultMathfinal`, reads | Redis team page, members of a team |
| Match booking (`match/`, `email/`) | `matches`, mailed tokens | `requestCreMatch`, `createMatch`, `requestUptMatch`, `updateMatch`, `requestDelMatch`, `deleteMatch`, `findAvailableTimes` | mail, foreign keys of results and formations |
| Tournament registration (`tournament/`) | `tournament` and its join table with teams | create, `applyTournament`, `cancelTournament`, `updateTournament`, hourly `closeFinishedTournaments` | teams; row lock |
| Membership (`member/`, `email/`) | `members`, `invite`, tokens in Redis | apply, invite, approve, reject, `registerMember`, staff flag, expel | teams, chat, mail, Redis |
| Teams (`team/`) | `teams` and the cached detail in Redis | `createTeam`, `updateTeam`, `deleteTeam`, `getTeamDetail` | chat, membership, Redis, object storage |
| Chat rooms (`chats/`) | `chats`, their users, socket rooms, messages | connect, enter, kick out, leave, send | teams, membership |
| E-mail verification (`email/`) | `email_verification` | send code, verify code | mail, `auth/` |
| Sign-up and sessions (`auth/`) | `users`, refresh tokens and Kakao codes in Redis | sign up, sign in, refresh, sign out, Kakao | Redis |
| Cache (`redis/`) | keys with a time to live | get, set, expire, del | statistics, teams, auth |
| Statistics (`statistics/`) | none of its own (cached pages) | aggregate queries | Redis |
| Formations (`formation/`) | `match_formations` | save, best formation, warnings | matches, statistics |
| Pagination (`common/`) | none | `paginate` by page or cursor | every list endpoint |
| Profiles, users (`profile/`, `user/`) | `profile`, `users` | register, update, delete | location |
| Administration (`admin/`) | none of its own | lists, soft deletes | users, teams, members |
| Fields and locations | reference data | lookups | - |
| Import of fields (`task/`, `jobs/`) | none of its own | every 12 hours: insert missing fields | open data, locations |
| Object storage and mail transport | external | upload, send | - |

### What is hard, and what makes each part correct

* **Results.** Both sides submit, in any order and more than once. A submission
  decides on rows read before its transaction, updates its own standings outside
  the transaction and the opponent's inside, and drops a cached page after the
  commit. Correct: a recount of the results gives the standings; a match counts
  once; goals are backed by players; a failed submission leaves nothing behind;
  a registered match can be completed; outdated pages go away.
* **Tournaments.** Requests lock the row, except for one save that uses another
  connection, and the hourly job does not lock at all. Correct: decisions hold
  until they commit, places suffice, locks are released, a team leaves by its own
  request, the job closes only what is short and expired.
* **Booking.** Whether a slot is free is decided before the insert; a mailed token
  can be used repeatedly, late and in any order. Correct: slots are not shared;
  records go with their match; deleted matches stay deleted; the opponent is the
  one who is asked.
* **Membership.** A registration is four statements without a transaction, and is
  reached by staff and by two kinds of mail; teams are created with chat and first
  member by separate saves; expulsion and chat are separate. Correct: one team per
  user; nobody in a chat without a membership; a member reaches the chat; a token
  is used up; no invitation outlives the registration.
* **E-mail verification.** A code is looked up, deleted, inserted and inserted again in
  separate statements, and a failed attempt writes back a row it read before. Correct: a
  used code does not come back, a mailed code is not replaced while it can be used, a
  stored code gets mailed.
* **Formations.** Whether a lineup is replaced is decided before the transaction that
  replaces it, by a query that ignores members who have left. Correct: a save replaces
  what was there, and the recommended formation has the highest rate.
* **Cached pages.** A page is computed by several queries and stored by two commands of
  Redis, while other requests change what it shows; some of them drop it and some do not.
  Correct: an outdated page goes; every page has a time to live; pages and lists computed
  from the same rows agree.
* **Chat rooms.** A socket lives in the namespace of one chat, and its rooms are of that
  namespace. Sockets join and leave rooms while handlers that nobody awaits run on, one of
  which may end the process; a message is stored and then sent out; a client reads the history by page number while
  new messages shift the pages. Correct: a client in the room misses nothing
  that is sent where it is.
* **Accounts.** A save writes every column in which an entity loaded earlier differs from
  the row; a token is stored by two commands; a location is saved outside the transaction
  that is rolled back. Correct: a request changes what it was asked to change; keys lapse;
  rollbacks leave nothing behind; a list read along its links shows everybody once.

`PROJECT.json` lists the hazards at their lines, with the properties that cover them.

## 2. Plan

In the order of importance; all of it is done.

1. `League`, `MatchResult`, `MatchResultProofs` - results and standings; the abstract
   specification `League` says what the registration promises.
2. `Tournament`, `TournamentProofs` - the row lock and who respects it.
3. `MatchBooking`, `MatchBookingProofs` - booking by mail, with the foreign keys of the
   results.
4. `Membership`, `MembershipProofs` - teams, members, invitations, tokens and chat users.
5. `EmailVerification`, `EmailVerificationProofs` - codes, attempts, expiry, endpoints.
6. `Formation` - the lineup of a match, and the best formation by win rate as a function;
   its proofs are in `TeamCacheProofs`, with which it shares the lemmas on folds.
7. `Statistics`, `TeamPages`, `TeamCache`, `TeamCacheProofs` - the queries as functions
   of the rows, the lists no cache stands before, and the cache-aside reads of statistics
   and team detail against updates, drops and expiry. `TeamCache` extends `TeamPages`,
   which extends `Statistics` and `Pagination`: the pages are checked on the rows the
   cached model reaches.
8. `Pagination` - pages by number and by cursor as functions of a list; used by 7, 9, 10.
9. `ChatRooms`, `ChatRoomsProofs` - sockets, rooms, users of a chat, messages and their history.
10. `Accounts`, `AccountsProofs` - sign-up, sessions, Kakao codes, profiles, the list of
    users.

What could follow: how far the standings of overlapping submissions can be from a
recount; every property of a passing run that is not a liveness property is proved.

## 3. The models

Common conventions. `Request` is a set of slots for HTTP requests in flight; a record
`req[r]` holds the program counter and the local variables of the handler that runs in
slot `r`. A handler is cut at each await whose effect another request can see; statements
between two cuts are one action. One slot means requests one after the other. A request
that only reads and then refuses is a stuttering step and has no action. `MC<Module>`
extends a module with what its configurations need. An operator `D_Variant` is `D` with a
plausible mistake: no specification uses it; it serves to see that a property notices.

### MatchResult and League

State: `results` (rows of `match_results` per match and team, a sequence because the
table has no unique key), `standings` (rows of `team_statistics` per team, a sequence for
the same reason), `players` (how many lineups are stored), `page` and `reader` (the cached
team page and a request that is computing one), `req`, `faults`.

| Action | Code |
|---|---|
| `CreateCheck`, `CreateSave` | `resultMatchCreate`: look up a result of the team; insert the row in a transaction |
| `FinalBegin`, `FinalRejectLineup` | `resultMathfinal`: the result exists; all rows reported means counted already; players belong to the team |
| `FinalCount`, `FinalOpponent` | the number of rows decides between "store only" and "count"; the opponent's goals must be known |
| `FinalOwnTotal`, `FinalOwnRow`, `FinalOwnWrite` | `teamTotalGames`, the row of the own team, its update through the repository, i.e. outside the transaction |
| `FinalOtherTotal`, `FinalOtherRow`, `FinalCommit` | the same for the opponent inside the transaction, with goals, clean sheets and players |
| `FinalDropPage` | `deleteTeamStats` after the commit |
| `Fail` | any statement of a handler fails; what the transaction has written is undone |
| `PageRead`, `PageStore`, `PageExpire` | `getTeamStats` and the time to live |

`League` is the promise: a side reports its goals, the report that completes a match adds
it to both tables in one step and once. `ImplementsLeague` maps the tables to it
(`Promise == INSTANCE League WITH ...`); a handler that has updated the own row and not
committed is mapped to the table before the update. It holds for requests in sequence;
two that read the results before either commits both count the match, and then it does
not.

`getMatchResultByMatchId`, `getWinsAndLosesAndDraws`, `getCleanSheet` and `getMemberStats`
are what is shown of these tables; a query without an order may show any of several rows.

Assumed: a match has two different sides; the columns of `player_statistics` that are NOT
NULL get a value; `resultPlayerCreate` has no route and is left out.

### Tournament

One row of `tournament` with its join rows: tournaments do not share state. State: `row`
(`open` stands for a deadline that is not past), `lock` (the row lock), `req` with the
entity each request has read under the lock, `sweep` (what the hourly job has found, and
what `save()` has read before it writes). `save(entity)` is modelled by what TypeORM
does: it reads the row again and writes the columns and join rows in which the entity
differs from that read (`Saved`). A deadline that an administrator has moved since the
entity was read is written back; that time has passed makes no difference to write.

`ApplyLock`/`Register`, `CancelLock`/`Withdraw`, `UpdateLock`/`Change` are the three
operations. The branch of `applyTournament` for a full tournament saves through the
repository, on another connection, while its transaction holds the lock: state `close`,
which only `Timeout` leaves. `SweepFind`, `SweepLoad`, `SweepSave` are the job and
`SweepCrash` a save that fails: nobody awaits it, so the process ends, and with it every
request in flight. `Deadline` is time. Teams are not soft-deleted meanwhile.

### MatchBooking

State: `matches` (rows with a slot, a field, both teams and the owner), `recorded` (does a
row with a foreign key on the match exist), `tokens` (the owners from whom a mail with a
valid token is out), `req`. A token says who asked and nothing else: what is to be done is
in the link and the form of the mail, and the handlers that accept take it from the call.
`RequestCreMatch`, `RequestUptMatch`, `RequestDelMatch` send a mail; `Accept` makes the
checks of a call, which may be any the token of its owner is good for (`Calls`), until
`TokenExpires`; `CreateMatch`,
`UpdateMatch`, `DeleteMatch` are the writes that follow. `Record` stands for the
statements of results, players and formations as far as the foreign keys see them: the
deletion removes results and fails on the others. `findAvailableTimes` is what a field
shows as free, by another condition than `SlotTaken` refuses. `TokenUser` is how TypeORM treats the
undefined `id` of the payload: the condition disappears and the first user is found.

### Membership

State: `teams` (with a state `chat` while only the chat of a team under creation
exists, and the unique key on the creator, which counts deleted teams), `members`,
`chat` (users of each team's chat: never, in, left), `tokens` (sent: mailed and not yet
stored; valid: in Redis, which keeps the token and not what it was mailed for),
`invites`, `req`, `fails`.

| Action | Code |
|---|---|
| `CreateChat`, `SaveTeam`, `RegisterCreatorMember` | `team.service.ts: createTeam`, three separate saves |
| `SendMail`, `StoreToken`, `SaveInvite`, `TokenExpires` | the mail leaves, then its token is stored, then the invitation |
| `RegisterMember`, `ApproveMember` | registration by staff, approval over a mail: the checks (`Register`); the user and the team of an approval are those of the URL, its token may be any in Redis |
| `DropInvites`, `SaveMember`, `InviteChat`, `DeleteToken` | the four statements of a registration |
| `RejectMember` | the rejection mail for the user and team of the URL, with the arguments in the order the controller passes them |
| `UpdateIsStaff`, `ExpulsionMember`, `LeaveChat`, `DeleteTeam` | single statements |
| `Fail` | a statement fails and leaves the earlier ones |
| `ProcessEnds` | a mail of an application or invitation is refused or fails; the controller does not await it, so the process ends and every request with it |

Ids of users and teams are both numbers, and may be equal, because one handler confuses
them. Profiles, gender and join dates only refuse. Team detail may come from the cache;
that only widens when `RejectMember` is possible.

### EmailVerification

The address is unique in `email_verification`, so one address is enough. State: `row`,
`made` (codes stored, numbered as they come), `expired`, `mailed`, `req`, `fails`, the
history `used`, and `account`, whether a user has the address. In `req`, `overtaken` is
history too: somebody has written the row since this request decided to delete one.
Nothing shares a transaction.

| Action | Code |
|---|---|
| `SendCode`, `SendPasswordResetEmail` | the endpoints, for an address without and with an account; `SendFind`: `sendVerificationEmail` finds a code, expired or not, or asks for one |
| `Generate`, `Replace`, `Insert` | `generateVerificationCode`: look again, delete a code with too many attempts, insert |
| `InsertAgain` | the second save of `sendVerificationEmail`; both lack an id and insert |
| `Mail` | the mail, whose failure is only logged |
| `VerifyFind`, `Accept`, `Attempt` | `verifyCode`: the checks, the delete by address, the save of the row it read with one more attempt |
| `ChangeAccount` | a sign-up, which asks for no code, or a deletion |
| `Expire`, `Fail` | three minutes are over; a statement or the mail fails |

Assumed: codes do not repeat and the right one is not guessed.
`/send-verification-email` throws for every address and has no action. `Attempt` is an update by id or, if the row is
gone, an insert: that is what TypeORM's `save` of an entity with an id does.

### Formation

Teams do not share rows of `match_formations`, so one team is enough. State: `lineups`
(what the saves of each match have inserted, oldest first, which is the order in which
the unordered query is taken to return rows; the members a lineup names are not looked at
and may be of any team), `left` (members who have left; the query joins
only the others), `goals` (sums of `player_statistics` per match), `saves` (requests in
flight, in slots `Saver`). A match is a `Fixture`. `SaveRead` is the look-up of
`saveMatchFormation`, `SaveWrite` its transaction, `SaveFail` a rollback; `MatchMembers` is
`getTeamMembers` of `match.service.ts`, the members of the team (`Squad`) in the lineups,
whom match pages show;
`Expel` and `ReportGoal` are what other parts do. The names differ from those of
`TeamCache` because one module extends both to prove about them. `Leader` is the loop of
`getBestFormation` over the map that `calculateFormationWinRate` makes of
`getTeamMatchInfo`, once for matches won (`BestFormation`) and once for matches lost
(`WorstFormation`); rates are fractions compared by cross-multiplication. Floating point
is left out: a quotient of small numbers is above another exactly when the fraction is.

### Statistics and TeamPages

Functions of the rows of `player_statistics` and of the members that have left, without
state. A lineup has at most one row for a member, and SUM over rows is `SumFunction`. `Statistics` has an operator per query of `statistics.service.ts`, named after it,
and `getWarningmember` of the formations. A query that orders by something that ties, and
takes the first rows, yields the set of its possible answers (`Leaders`,
`getWarningmember`, `getStatsForOtherTeams`). `MoreGames` compares counts as texts,
because that is how the driver returns them. The rankings join users and profiles, so a
member without a profile, or whose user is deleted, is passed over whatever its goals
(`Ranked`); the list of players does not join them. For a team without a game the
comparison with other teams has a LIMIT of 0, which TypeORM leaves out: all games of the
others count (`ComparedGames`).

`TeamPages` has the lists of `team.service.ts`, `member.service.ts`, `profile.service.ts`
and `match.service.ts`. They differ in what they join: a soft-deleted team is not found by
a join through its entity, and a member whose user is deleted or has no profile makes the
list of members fail (`Reachable`).

`PagesAgree`, `RankingsNamePlayers` and `ListsAgree` relate the pages to each other:
goals of a team to those of its players and of who has left, goals conceded to goals
scored, histories to rows, rankings to those on the list of players whom they join,
numbers of members to the lists of them.

Assumed: `ONLY_FULL_GROUP_BY` is off, without which the queries of the other teams are
refused; a user or profile that changes its name is data no page tells apart.

### TeamCache

State: `log` (what has been committed, oldest first), `cache` (for each page whether it
is stored, where in the log its first query stood, and whether it has a time to live),
`req`, `fails`. A page computed from position `from` lacks, or mixes in, what follows.

| Action | Code |
|---|---|
| `ReadMiss`, `StorePage`, `SetTtl` | a reader that finds nothing queries, then `set`, which takes a time to live away, then `expire` |
| `Report`, `UpdateTeam`, `DropPage` | a result or an update commits; its pages are dropped one `del` at a time |
| `CreateTeam`, `DeleteTeam`, `ExpulsionMember` | changes after which the code drops nothing |
| `Expire`, `Fail` | the time to live is over; a command or a query fails and ends its request |

A report is made by a side of its match (`Sides`, as in `MatchResult`: `verifyOneMatch`)
with a lineup of its own members, which `Fits` says of an entry of the log; what is in the
log at the start (`Past`) has to fit too.

`Shows` says which changes a page shows, `DropsAfter` after which of them the code drops
it; the difference is left to the time to live. `overtaken` is history: the page was
dropped while its reader was between query and `set`.

### Pagination

`PageOf` is LIMIT and OFFSET, `CursorPageOf` a page after a cursor, `NextCursor` the
cursor of the link the answer carries. Rows are ordered by their time of creation, taken
to be distinct and in the order of ids. A `where` of the caller replaces that of the
cursor (`ownWhere`).

### ChatRooms

State: `users` of each chat, `online` sockets, `room`, `messages`, what each client has
`heard`, its `reader` in the history, `req`, `fails`. The gateway serves the namespaces
`/chats/<id>`; a socket is in one of them for good (`NspOf`). `room[c]` holds the sockets
that have joined a room named by chat `c`, each in its own namespace: `enter_room` for
another chat than that of the namespace joins a room there, and a message goes out to
the room of its chat in the sender's namespace (`Receivers`). Rooms are named by the chat,
which has the number of its team where the code names rooms by teams.

Each `await` of a handler of `chats.gateway.ts` is a cut, and events of one socket
overlap, as socket.io does not wait for a handler.

| Action | Code |
|---|---|
| `HandleConnection`, `EnterRoom`, `Join`, `Disconnect` | a connection begins an `enterRoom` for the chat of its namespace; `socket.join` after the look-up; a closed socket leaves its rooms |
| `RejectConnection`, `FailConnection` | the chat does not exist, or the look-up fails: nobody handles the rejection and the process ends (`ProcessEnds`) with what it holds, sockets, rooms and events |
| `KickOut`, `KickTarget`, `KickRemove`, `LeaveRoom`, `LeaveRemove`, `Leave`, `InviteChat`, `CreateChat` | the users of a chat; who keeps a socket in a room after a kick hears on |
| `SendMessage`, `SaveMessage`, `EmitMessage` | a message for any chat that exists: look-up, insert, emit |
| `StartReading`, `ReadPage` | a client that follows page numbers until one is empty |
| `Fail` | a query of an event fails, which only ends the event |

`Events` bounds which sockets ask for what of which chat.

### Accounts

State: `users`, `profile`, `locations`, `keys` (Redis: refresh tokens and Kakao codes),
`list` (an administrator reading), `req`, `begun`, `fails`, and the history `lost`.

| Action | Code |
|---|---|
| `SignUp`, `GenerateKakaoCode`, `Insert` | a look-up of the address, then the insert, which the unique index may refuse |
| `SignIn`, `RefreshToken`, `VerifyKakaoCode`, `SetKey`, `ExpireKey`, `SignOut`, `Lapse` | sessions: `set`, `expire`, `del` are a step each |
| `UpdateMyInfo`, `ResetPassword`, `SaveDiff`, `SaveWrite` | TypeORM's `save(entity)`: read the row again, write the columns that differ |
| `DeleteId`, `SoftDelete` | by the user or an administrator |
| `RegisterProfile`, `SaveLocation`, `SaveProfile` | `registerProfile`, whose writes are outside its transaction |
| `OpenList`, `ReadList` | `paginateUser` along the next links |
| `Fail` | a statement, a command or an upload fails |
| `ProcessEnds` | the code of a known Kakao user is kept without being awaited (`Unawaited`): if that fails, the process ends and every request with it |

Assumed: TypeORM's `save` reads soft-deleted rows as well and writes `deletedAt` where it
differs; MySQL may or may not run in a strict mode, in which a Kakao sign-up is refused
for its missing password. `updateProfileInfo` changes contents only.

## 4. Runs

Every property of a passing run is shown to notice a plausible mistake in the code it is
about (`mutants` in `PROJECT.json`).

| Run | Instance | Shows |
|---|---|---|
| `result_serial` | three teams, two matches, goals 0 or 1, one request, no failure, fairness | standings and clean sheets are what a recount gives; the handlers implement `League`; if one side reports before the other registers, the match gets counted |
| `result_concurrent` | one match, two requests, one failure, readers of one page | duplicates need overlapping requests; goals are backed by players; an own write never leaves the page outdated for good; standings change only for a match one side has reported |
| `result_rollback` | one match, one request, one failure | violation, see section 5 |
| `result_stuck` | one match, one request, fairness | violation |
| `tournament` | two teams, one place, two requests and the job, fairness | decisions stay valid under the lock; places suffice; entries change by their own request, or where the job undoes what came after its read; no transaction keeps the lock, the one waiting for itself included |
| `booking` | three matches, two slots, one field, two teams, home the owner's or not, two acceptances, results in between | a slot is shared only by acceptances that overlap, and refused where it is shown as taken; records go with their match; a deleted match stays deleted |
| `membership` | two users, one team, two requests, one failure, of a request or of the process, applications and invitations | a second membership needs an overlap; nobody is in a chat without a membership; as long as none has failed, a member reaches the chat |
| `formation` | three matches, two formations, a member of the team and one of another, two saves, up to three lineups, a goal per match | a save that overlaps no other replaces the lineup and its members; the recommended formation has the highest rate |
| `email_verification` | two requests, two codes, four attempts, one failure, an account that comes and goes, fairness | a used code comes back only where requests overlap; a mailed code stays; a stored code gets mailed |
| `team_cache` | two teams with a reported match, a third not founded, two requests, one failure, two more changes, two pages read, fairness | a page lacks a change of its own team only by a reader that was overtaken; pages have a time to live; an outdated page goes, whatever outdated it; pages and lists agree, where the best scorer has no profile |
| `chat_rooms` | one user with three sockets, two in the namespace of a chat and one in that of a chat that need not exist, two requests, two messages, one failure, ends of the process | a client that stays in the room has read or heard every message that was sent in its namespace, or is about to |
| `accounts` | one account and one more row, three requests, two at a time, one failure, of a request or of the process | an overlapping save takes others' changes back and nothing else does; keys lapse; locations without a profile are counted by rollbacks; the list shows everybody once |

**Bounds.** The runs take from seconds to two minutes; the largest, `chat_rooms`, has 1.1 million
distinct states. Two requests are enough for every race here: each decision is made on rows
that one other handler can change, and the checks of a third see the same tables as
those of the second. Two teams give an opponent; a third one, in `result_serial`, lets a
team have two matches that touch the same row. Goals 0 and 1 give wins, draws, losses
and clean sheets. `MaxGames` stops submissions once a row counts that many games, one
more than there are matches, so that a match counted twice is within reach. `ManyCopies`
caps a counter of which the properties only use "is there any". Three matches and two
slots are the fewest with which a third match can try to join two in one slot, by a
booking or a move; a token that one request has used stays valid and is used by the
other, for the same call or another one. `Pairing` bounds which teams are named together:
either team as home, and both sides the same, which nothing refuses. One field is enough, because the check ignores the
field. The proofs of section 6 have no bound. `Member` bounds the rows that can be
created: two, so that the registration of the creator and that of the other user
interleave, or the creator is expelled and registered again; the properties of that run are proved for any number. Three lineups are a lineup
for each match, or two saves over an earlier one of the same match; `Offered` are an empty
lineup, two of the team's member and one of the other member, who can be named but is not
shown among those of the match; one goal per match
gives each result, and rates of one, two and three games that tie or differ. Two codes
let a request hold the first while the second is stored; `MaxTries` is one more than the
three attempts after which a code is replaced. `MaxLog` leaves two changes after the report of
either side of a match: a report or an expulsion and one of the second, or the creation
and deletion of the third team; `Visited` are a page that other teams' results outdate and
the detail of a team that does not exist yet, the two with most ways to be outdated, and a
page of one place, game or day makes ties and cuts happen. In `chat_rooms` the client
reads, leaves and enters, and two sockets send to its chat: one in its namespace and one in
another, whose messages the client can only read (what the client sends itself is left to
the theorem); without the restriction to its
namespace `NothingMissed` does not hold in this instance. Pages of one row are the
shortest that rows shift across: a second message moves an unread one to the next page, a
second user appears behind the cursor. Three requests are a save, another that overtakes
it, and a third that reads or signs in between. Two teams apply for one place;
that an administrator changes the limit meanwhile, and any other number of teams and
places, is left to the theorems about that run's safety properties. Deadlock checking
is off where the bounds let the system stop (no id, failure or submission left).

**Symmetry** is used for requests, tokens and rows only, and never with a liveness
property. Teams are ordered by `CHOOSE`, users by number.

**Fairness.** Runs without a liveness property assume none. `MatchResult!FairSpec` is used
for `result_serial` and `result_stuck`: a handler in flight goes on (weak fairness; Node
resumes a handler when its query returns) and both owners keep submitting (strong fairness
on a submission of each side of the matches in `Diligent`, because slots get busy). The second is not something the server
guarantees, it is the hypothesis of the question: can owners who do try complete a match?
`EmailVerification!FairSpec` says that handlers go on (weak fairness) and that the user
keeps asking for a code (strong fairness, because slots get busy): again the hypothesis of
the question. `Tournament!FairSpec` says that a transaction in flight proceeds and that a lock wait
times out, as InnoDB does after `innodb_lock_wait_timeout`; nobody needs to send a request.
`TeamCache!FairSpec`: handlers go on, and Redis removes a page whose time is over. Nobody
needs to read or report; and a failure, which may leave a page without a time to live,
ends the obligation.

## 5. Disagreements between the code and what it says

Two are runs that end in a counterexample; `PROJECT.json` quotes the lines they
contradict.

* `RollbackLeavesNoTrace`: the own standings are updated outside the transaction, and a
  later failure leaves a game counted.
* `RegisteredMatchCompletes`: once both sides have registered and none has reported,
  every report fails, for ever.

Others are plain from the modules, and have no run of their own:

* the checks for an existing result, a taken slot and an existing membership are queries
  before the write, and no unique key backs them (`NoResultYet`, `SlotTaken`,
  `Registered`); `DuplicatesOnlyByRace` and `SlotSharedOnlyByRace` bound what comes of it;
* the creator of a team becomes a member without those checks (`RegisterCreatorMember`),
  and a chat is saved before a team that may be refused (`CreateChat`);
* without any result of a match the players of a report are stored (`FinalCount`);
* the sweep cancels a tournament that was extended or filled since it was found
  (`SweepSave`);
* times are shown per field and refused for any field (`SlotTaken`); a booked match
  belongs to the first user (`TokenUser`); a rejection swaps user and team (`Rejection`);
* an invitation accepted before its row is stored stays pending (`SaveInvite`);
* the save that should close a full tournament waits for the lock of its own request
  (state `close` of `Tournament`);
* a user who was expelled is still in the chat; when the user is registered again the
  insert into the chat fails and the token is never deleted (`InviteChat`);
* the first request for a code always fails, at its second insert (`InsertAgain`), and an
  expired code is mailed again for ever (`Reusable`), because attempts are only looked at
  where no code was found;
* a match without a lineup counts as a formation of its own (`NoShape`), and one not
  played yet as drawn (`Result`);
* a side that has reported nothing is shown with no goals, like one that did not score
  (`getMatchResultByMatchId`), and a change of a match is mailed to the owner of the away
  team, also when that owner is the one who asks (`match.service.ts:220`);
* pages: a deletion, a foundation, an expulsion or another team's result drops none; the
  detail of a team that does not exist is cached as "null" and hides the team once it is
  created (`DropsAfter` against `Shows`); `set` and `expire` are two commands, so a failure
  between them leaves a key for ever (`PagesLapse`, `KeysLapse`);
* counts of games are compared as texts (`statistics.service.ts:207`): with 9 games of a
  team and 10 of the others the comparison refuses (`MoreGames`); cards are those of the
  first five days where a comment speaks of the latest games
  (`statistics.service.ts:458`); who has left is taken off the warned members after three
  places were given away (`formation.service.ts:181`);
* the statistics of a member take the member's id for a team's (`getMemberStats`,
  `statistics/statistics.controller.ts:64`), and the member detail of a match takes it
  for a user's (`getMemberDetail`, `match/match.controller.ts:388`);
* one member without a profile, or whose user is deleted, makes the whole list of members
  fail (`Reachable`); the lists of teams and of profiles have pages without an order
  (`getTeam`, `paginateProfile`); members of a deleted team stay members
  (`member.service.ts:119`), so that no team can register them and no list without a team
  shows them;
* a `where` of the caller replaces that of the cursor, so that such a list repeats its
  first page for ever (`CursorPageOf`);
* chats: a user put out of a chat stays in the room and hears on (`KickRemove`), anybody
  may enter the room of any chat (`EnterRoom`) and send to it (`SendMessage`), and
  `handleConnection` does not wait for the room. What is sent to a chat from another
  chat's namespace is stored and heard by nobody in the chat's own (`Receivers`), and a
  connection to a chat that does not exist ends the process (`RejectConnection`);
* mails of applications and invitations, and the code of a known Kakao user, are not
  awaited, so that a failure of theirs ends the process instead of the request
  (`ProcessEnds` of `Membership` and `Accounts`); a token that was mailed for one
  application approves any other (`ApproveMember`), and one mailed for a match is good for
  any call of its owner (`Calls`);
* a lineup may name members of other teams (`SaveRead`); a scorer without a profile is
  missing from the rankings (`Ranked`);
* accounts: a save takes back names and addresses that others have written and brings a
  deleted account back (`SaveWrite`); the code of a known Kakao user is handed out before
  it is kept, and stays good after its use (`GenerateKakaoCode`, `VerifyKakaoCode`);
  tokens of deleted users are refreshed (`RefreshToken`); the transaction of
  `registerProfile` covers nothing, and its error is swallowed (`SaveProfile`);
* `/send-verification-email` can send to nobody: it refuses an address with an account,
  and the look-up throws without one.

## 6. Proofs

All proofs are checked by `tlapm` to the last leaf. They assume only what the modules'
`ASSUME`s state; nothing bounds the number of requests, teams, matches or failures. The
exceptions are the three theorems `Sequential...` of `MatchResultProofs`, whose hypothesis
`InSequence` is stated with them: one request slot and no failure.

**MatchResultProofs.** `TypeOK` is not inductive as it stands; `IInv` adds that rows exist
only for the sides of a match, that a handler in flight works for a side, that what it
remembers (rows of standings found, goals of the opponent) is still there, since no
handler deletes rows, and for pages, that an outdated page of a team whose handler has
committed is about to be dropped. From it: `TypeCorrect`, `ScoredResults` (goals with
players), `PagesDropped` (for behaviours without failures, as the property says) and
`StandingsFollowReports`, an action property. `RacesBoundDuplicates`
counts: for each side of a match the rows stored and the requests about to store one are
together no more than the request slots (`RowsFit`), because a check passes only while
there is no row.

The standings and the refinement are false where submissions overlap or fail (sections 3
and 5), so these theorems are about requests that follow each other, `InSequence`, with
any number of teams, matches and goals. `SequentialInvariance` is the invariant `SInv`:
each side has one row (`OneRow`, from `RowsFit`), a result is clean exactly when the
opponent's score says so (`CleanRows`), a team's row of standings is the recount of what it
has played, or one match ahead while the own row is written and the transaction has not
committed (`StandingsRecount`), and what the handler has read is still so when it uses it
(`Remembers`). The hard part is that the total a handler counts and the row it adds to
agree with the recount *after* the step, a statement about cardinalities of sets of
matches before and after one match joins them; no induction over matches is needed,
because one match joins at a time. `SequentialStandings` follows, and
`SequentialRefinement`: `League`'s initial state, and for each action the step of `League`
it is, or a stutter. The commit that completes a match is the one step that changes both
tables of `League`, although the code has changed one of them earlier.

**TournamentProofs.** `IInv` says that the lock is held exactly by a request in a holding
state and that its `seen` is the row, unless the job has changed it; this gives
`FreshDecisions`, and from it `PlacesSuffice` and `OwnEntries`, the action properties,
with the library's facts about finite sets for the places. `OwnEntries` lets a team enter
or leave by its own request, and by the sweep only where the entity found differs from
the row read: there the sweep undoes a request that committed in between.

**MatchBookingProofs.** `IInv` adds to `TypeOK` that an acceptance in flight has found a
user, without which the owner of a new match would not be a team's, and `SlotsFit`: the
matches in a slot and the acceptances about to write it are together no more than the
request slots. A check adds an acceptance only while the slot is empty, a write trades an
acceptance for a match, everything else shrinks one of the two; the lemmas `Shrinking`
and `Trading` state that arithmetic for sets. From it `RacesBoundSlots`. The two action
properties, `RecordsFollowMatch` and `DeletionIsFinal`, follow from `TypeOK` alone, whose
part about records of matches that do not exist is what they need.

**MembershipProofs.** `IInv` relates a program counter to what its earlier statements have
left: a handler in `chat` has saved its member, in `creator` its team, and so on.
`ChatAfterMember` and `MemberReachesChat` (without failures) follow. The proof is by the
actions of `Next`, one lemma per part of the invariant.

`RacesBoundMemberships` counts for each user: the memberships in other teams than the
own one and the registrations about to save one are together no more than the request
slots. A check passes only while there is no membership; what leaves one of the two sets
either enters the other or is gone.

**EmailVerificationProofs.** `IInv` adds to `TypeOK` what a request holds: a code that was
stored, and when it is about to accept one, a code that was mailed. `TypeCorrect` and
`UsedCodesReturn` follow, for any number of requests, codes and attempts.
`MailedCodesStay` is about who may delete a row. A delete is by address, so the request
that decided on one row may remove another one; `Decided` says that as long as nobody has
written the row since a request decided, it is still the row that request accepted, or one
without attempts left. Excusing only requests that decided before the code was stored would
not do: with three slots, an attempt that is saved in between puts an older code back. So
the property names a row written between decision and delete; TLC also finds no violation
of it with three slots and no failure, an instance too large for the run.

**TeamCacheProofs.** `OutdatedOnlyByOvertaking` is not inductive: it speaks of stored pages,
and a page is stored with the position its reader has had since its first query. `IInv`
says the same of readers that have not stored yet (`ReaderWarned`: one that has missed a
change after which the code drops its page was overtaken, or a request is about to drop
the page) and of stored pages (`PageWarned`), and `PageTimed`, that a page without a time
to live has a request about to give it one.
`DropsInTurn` says that a request that drops has pages left. `OvertakingOutdates` and
`PagesGetTtl` follow, for any teams, pages, changes and requests.

*The pages.* `PagesAgreeAlways` says that the pages and lists agree (`PagesAddUp`) for any
teams, members, matches, lineups and page size. What a ranking promises is relative to the
list of players: nobody on it who has a profile and an account has more points and is
passed over, and those named have the points listed (`RankingFitsPlayers`). Its invariant is small: every report in
the log was made by a side of its match with a lineup of that team (`LogFits`), so the
rows the log amounts to are as the lemmas require (`RowsFit`: finitely many, of members
for their teams, by sides of a match, one of a report for a member). Teams, matches, members and profiles
are assumed to be finitely many (`StatisticsAssumption`), without which a sum or a count
is nothing. All the rest is about what the queries compute from such rows, one lemma for each promise: totals of disjoint
sets add up (`TotalSplits`), a total is that of its groups whatever they are grouped by
(`TotalByGroups`: goals by player, by day, by match, by former team, by the side that
conceded them), and pages of a list are parts of it (`PagesPartition`: the row with `r`
rows before it is on page `n` exactly if `take * (n - 1) <= r < take * n`, which holds for
one `n`).

*Sums.* `SumFunction` is a fold: a function chosen to satisfy a recursive equation. That
there is one, and that it is the only one, is usually an induction over finite sets, which
the library states with an operator as parameter. Here it is done by a least
counterexample: the sizes of the sets for which a step fails are a set of numbers, and its
least element contradicts itself (`Least`, `FoldExists`, `FoldUnique`). `SumUnfolds` makes of
it that the sum takes off one element after the other; `SubsetInduction`, for a set of
subsets instead of a predicate, gives sums over unions, of two columns, by groups.

*The recommendation.* `RecommendationsLead` needs no more than the types
(`LineupsTyped`): it holds in every state of the tables. `FoldLeft` is a fold over the
indices of a sequence that takes the latest off first (`FoldLeftSteps`), and each of the
two loops has an invariant: after `k` matches the statistics hold each formation used, in
the order of first use, with its counts (`Tallied`, `TallyStep`); after `j` of these the
best is the first with the highest rate (`LeadsFirst`, `LeadStep`), which is where the
strict comparison of the code matters. `LeaderChosen` carries that over from the
statistics to the matches themselves.

*Saves.* `LoneSavesReplace` is an action property about a flag that is set at the look-up.
Its invariant `SavesAlone`: a save that is alone has the match for itself, and if it found
no lineup to replace, none has come up, since only another save for the match could
insert one and a member who left does not come back.

**AccountsProofs.** What a request may rely on (`Relies`): unless the row was overtaken, an
entity in flight differs from its row only in columns the request was asked to change, and
never carries a password it was not given. Every action keeps it, because whatever writes
a row marks the other requests that hold it. `OverlapsRevertSaves` follows.
`KeysGetTtl` is inductive with the types; `RollbacksLeaveLocations` counts: locations are
the users that have a profile, the registrations between their two statements, and those
rolled back or cut off by the end of the process; the requests are assumed to be finitely many.

`ListMissesNobody` is about paging by cursor. `ListOK` says that who was seen lies up to the
cursor, and who was there from the start lies beyond it or was seen; the lemma
`PageOfUsers` gives what a page does for any number of rows: its rows lie beyond the old
cursor, everybody between the old cursor and the new one is among them, and without a next
link nobody is left. Sign-ups only add rows beyond the cursor and a deletion ends the claim
on its user.
`TypeCorrect` needs `ListOK` for the list and `Relies` for the rows: that what a save
writes makes a row again is a fact about the entity it holds.

**ChatRoomsProofs.** `TypeCorrect` needs that a message about to go out was stored with
the chat and sender the event carries (`Announces`). `NothingMissed` speaks of a walk that
has ended; its invariant is about one that goes on. `NothingLost`: while nothing has failed, of each
message of the chat a listening client has read it, heard it, sent it, or it is about to be sent out, or it
came from another namespace (`Foreign`), or no page asked for so far reaches back to it. The
end of the process takes the clients with it, so that nothing is claimed of them
(`TypeEnds`, `MissesEnds`). A new message shifts every unread one
further back, away from the pages that were read (`RankGrows`), and the next page takes
the ranks that follow without a gap (`PageAdvances`, from `NoGap`: a rank that is taken
has all smaller ones taken before it); an empty page therefore ends the walk with nothing
behind it. `Listening` keeps the socket in the room, so that what is stored after the
first page is heard. `ChatAssumption` asks for at least one socket and chat.

Only model-checked:

* liveness (`ReportInTurnCompletes`, `LockIsReleased`, `StoredCodeIsMailed`,
  `OutdatedPageGoes`), which is out of reach of the prover, as is fairness in general;
* the standings where requests overlap or fail: `StandingsMatchResults` and
  `ImplementsLeague` do not hold there;
* the counterexamples of section 5.

## 7. Not modelled

* Queries no step depends on and no other page can be compared with: the list of popular
  formations, the schedule of a team, the lists of an administration other than that of
  users, lookups of fields and locations, filters of lists by name.
* The import of fields every 12 hours (`jobs.service.ts: fetchDataAndProcess`), which
  inserts reference data one by one and swallows its errors; the models take fields as
  given.
* Code without a caller: `deleteProfile`, `resultPlayerCreate`, `getTeams`, `getInvitedMembers`,
  `createTeamStats`, `updateUserAdminStatus`, `findAllPlayers`, `paginateTeam` of
  `team.service.ts`, `OAuthLogin`, `updateUserToInactive`.
* The filter of bad words, which maps a text to a text; `enter_team`, which only emits.
* Uploads, presigned URLs, the mail transport: external. A mail can get lost, which the
  models show as a mail nobody follows.
* Validation of requests, guards that only refuse, among them the JWT strategies, which
  look at a token and at no row, the signature and expiry of JWTs,
  wording and formats.
