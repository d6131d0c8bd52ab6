---------------------------- MODULE MatchBooking ----------------------------
(***************************************************************************)
(* Booking a match, src/src/match/match.service.ts: an owner asks for a    *)
(* new match, another slot or a deletion; a mail carries a token of his;   *)
(* whoever follows the mail accepts, as often as the token is valid, and   *)
(* not at all.  The token says who asked and nothing else: what is to be   *)
(* done is in the link and the form of the mail, and an acceptance takes   *)
(* it from the call.                                                       *)
(*                                                                         *)
(* The handlers that accept check with reads and then write: the write is  *)
(* a step of its own.  The handlers that ask change nothing but the mails, *)
(* so each is one step.  What MatchResult stores for a match appears here  *)
(* only as far as the foreign keys on matches see it.                      *)
(*                                                                         *)
(* A definition D_Variant is D with a plausible mistake; nothing uses it   *)
(* but the runs that show which property the mistake breaks.               *)
(***************************************************************************)
EXTENDS Naturals, FiniteSets

CONSTANTS
  Team,      \* teams, each with its owner (teams.creator_id)
  FirstUser, \* the team owned by the first row of users, or NoTeam
  NoTeam,
  Slot,      \* a date and a time
  Field,     \* soccer fields
  Match,     \* bound: ids a behaviour can use
  Request,   \* slots for acceptances in flight
  Pairing    \* bound: home and away teams that are named together

ASSUME BookingAssumption ==
  /\ NoTeam \notin Team
  /\ FirstUser \in Team \cup {NoTeam}
  /\ Team # {} /\ Slot # {} /\ Field # {} /\ Match # {}
  /\ Pairing \subseteq Team \X Team
ASSUME RequestAssumption == IsFiniteSet(Request)

VARIABLES
  matches,   \* the rows of matches, with the ids not used yet and the deleted
  recorded,  \* whether match_results, and player_statistics, have a match
  tokens,    \* the owners that mails with a valid token are from
  req        \* acceptances in flight

vars == <<matches, recorded, tokens, req>>

MatchRow == [state : {"unused", "booked", "deleted"}, slot : Slot, field : Field,
             home : Team, away : Team, owner : Team]
Unused == [state |-> "unused", slot |-> CHOOSE s \in Slot : TRUE,
           field |-> CHOOSE f \in Field : TRUE, home |-> CHOOSE t \in Team : TRUE,
           away |-> CHOOSE t \in Team : TRUE, owner |-> CHOOSE t \in Team : TRUE]

Kind == {"create", "update", "delete"}
\* by: the owner in the token
Call == [kind : Kind, match : Match, slot : Slot, field : Field,
         home : Team, away : Team, by : Team]
RequestState == [pc : {"idle", "save"}, call : Call]

Idle ==
  [pc |-> "idle",
   call |-> [kind |-> "create", match |-> CHOOSE m \in Match : TRUE, slot |-> Unused.slot,
             field |-> Unused.field, home |-> Unused.home, away |-> Unused.away,
             by |-> Unused.home]]

Init ==
  /\ matches = [m \in Match |-> Unused]
  /\ recorded = [m \in Match |-> "nothing"]
  /\ tokens = {}
  /\ req = [r \in Request |-> Idle]

-----------------------------------------------------------------------------
Booked == {m \in Match : matches[m].state = "booked"}

\* verifyReservedMatch looks at the date and the time, not at the field.
SlotTaken(slot, field) == \E m \in Booked : matches[m].slot = slot

\* What a field shows as free looks at the field, too.
findAvailableTimes(field) ==
  {slot \in Slot : ~ \E m \in Booked : matches[m].slot = slot /\ matches[m].field = field}

Plays(t, m) == m \in Booked /\ t \in {matches[m].home, matches[m].away}

\* createMatch looks up payload.id, a field the token does not have, and gets
\* the first user; the other two look up payload.userId.
TokenUser(call) == IF call.kind = "create" THEN FirstUser ELSE call.by

-----------------------------------------------------------------------------
(* requestCreMatch, requestUptMatch, requestDelMatch.                       *)

Send(t) ==
  /\ tokens' = tokens \cup {t}
  /\ UNCHANGED <<matches, recorded, req>>

\* The teams may be any: whether one of them is t is not looked at.
RequestCreMatch(t, slot, field) == ~ SlotTaken(slot, field) /\ Send(t)

RequestUptMatch(t, m, slot) ==
  /\ Plays(t, m)
  /\ ~ SlotTaken(slot, matches[m].field)
  /\ Send(t)

RequestDelMatch(t, m) == Plays(t, m) /\ Send(t)

\* three days after the last mail of t its token is refused
TokenExpires(t) ==
  /\ tokens' = tokens \ {t}
  /\ UNCHANGED <<matches, recorded, req>>

-----------------------------------------------------------------------------
(* createMatch, updateMatch, deleteMatch: the checks, then the write.       *)

\* What a handler does not read of a call is left at a default.  updateMatch looks
\* whether the user exists, as every owner does.
Creation(slot, field, home, away) ==
  [Idle.call EXCEPT !.slot = slot, !.field = field, !.home = home, !.away = away]
Move(m, slot) == [Idle.call EXCEPT !.kind = "update", !.match = m, !.slot = slot]
Deletion(t, m) == [Idle.call EXCEPT !.kind = "delete", !.match = m, !.by = t]

\* The calls a token of t is good for.
Calls(t) ==
  {Creation(slot, field, sides[1], sides[2]) : slot \in Slot, field \in Field, sides \in Pairing}
  \cup {Move(m, slot) : m \in Match, slot \in Slot}
  \cup {Deletion(t, m) : m \in Match}

Acceptable_MoveUnchecked(call) ==
  /\ TokenUser(call) # NoTeam
  /\ call.kind = "create" => ~ SlotTaken(call.slot, call.field)
  /\ call.kind = "update" => call.match \in Booked
  /\ call.kind = "delete" => Plays(call.by, call.match)

Acceptable(call) ==
  /\ TokenUser(call) # NoTeam
  /\ call.kind # "delete" => ~ SlotTaken(call.slot, call.field)
  /\ call.kind = "update" => call.match \in Booked
  /\ call.kind = "delete" => Plays(call.by, call.match)

Accept(r, call) ==
  /\ req[r].pc = "idle"
  /\ Acceptable(call)
  /\ req' = [req EXCEPT ![r] = [pc |-> "save", call |-> call]]
  /\ UNCHANGED <<matches, recorded, tokens>>

Saving(r, kind) ==
  /\ req[r].pc = "save"
  /\ req[r].call.kind = kind
  /\ req' = [req EXCEPT ![r] = Idle]
  /\ UNCHANGED tokens

\* AUTO_INCREMENT: ids are used in one order, and never again.
NextId == CHOOSE m \in Match : matches[m].state = "unused"

CreateMatch(r) ==
  LET call == req[r].call IN
  /\ Saving(r, "create")
  /\ \E m \in Match :
       /\ matches[m].state = "unused"
       /\ m = NextId
       /\ matches' = [matches EXCEPT ![m] =
            [state |-> "booked", slot |-> call.slot, field |-> call.field,
             home |-> call.home, away |-> call.away, owner |-> TokenUser(call)]]
  /\ UNCHANGED recorded

Moved_Upsert(m, slot) ==
  [matches EXCEPT ![m].slot = slot, ![m].state = "booked"]

\* UPDATE ... WHERE id: no row if the match is gone
Moved(m, slot) ==
  IF m \in Booked THEN [matches EXCEPT ![m].slot = slot] ELSE matches

UpdateMatch(r) ==
  /\ Saving(r, "update")
  /\ matches' = Moved(req[r].call.match, req[r].call.slot)
  /\ UNCHANGED recorded

ResultsLeft_NoRollback(m) == [recorded EXCEPT ![m] = "nothing"]

ResultsLeft_Kept(m) == recorded

\* The results are deleted in the transaction; player_statistics has a foreign
\* key without cascade, on which the second statement fails and rolls back.
ResultsLeft(m) ==
  IF recorded[m] = "players" THEN recorded ELSE [recorded EXCEPT ![m] = "nothing"]

DeleteMatch(r) ==
  LET m == req[r].call.match IN
  /\ Saving(r, "delete")
  /\ recorded' = ResultsLeft(m)
  /\ matches' = IF recorded[m] = "players" \/ m \notin Booked THEN matches
                ELSE [matches EXCEPT ![m].state = "deleted"]

-----------------------------------------------------------------------------
(* MatchResult: a result row, and player rows, refer to a match that exists. *)

Record(m, what) ==
  /\ m \in Booked
  /\ recorded[m] # "players"
  /\ recorded' = [recorded EXCEPT ![m] = what]
  /\ UNCHANGED <<matches, tokens, req>>

-----------------------------------------------------------------------------
Next ==
  \/ \E t \in Team :
       \/ \E slot \in Slot, field \in Field : RequestCreMatch(t, slot, field)
       \/ \E m \in Match, slot \in Slot : RequestUptMatch(t, m, slot)
       \/ \E m \in Match : RequestDelMatch(t, m)
  \/ \E t \in tokens :
       \/ TokenExpires(t)
       \/ \E r \in Request, call \in Calls(t) : Accept(r, call)
  \/ \E r \in Request : CreateMatch(r) \/ UpdateMatch(r) \/ DeleteMatch(r)
  \/ \E m \in Match, what \in {"result", "players"} : Record(m, what)

Spec == Init /\ [][Next]_vars

-----------------------------------------------------------------------------
(* Properties.                                                              *)

\* Every variable has its type, and what is recorded refers to a match that
\* exists.
TypeOK ==
  /\ matches \in [Match -> MatchRow]
  /\ recorded \in [Match -> {"nothing", "result", "players"}]
  /\ \A m \in Match \ Booked : recorded[m] = "nothing"
  /\ tokens \subseteq Team
  /\ req \in [Request -> RequestState]

\* A date and time that is taken is refused (match.service.ts:1405), but nothing
\* backs the look-up: a slot holds as many matches as acceptances can pass it at
\* a time, one if they come in sequence, and never more.  What a field shows as
\* taken is refused; what it shows as free may be refused for another field.
SlotSharedOnlyByRace ==
  \A slot \in Slot :
    /\ Cardinality({m \in Booked : matches[m].slot = slot}) <= Cardinality(Request)
    /\ \A field \in Field : slot \in findAvailableTimes(field) \/ SlotTaken(slot, field)

\* What is recorded for a match goes only with the match, and a match with
\* player records does not go: the deletion of results and match is one
\* transaction, whatever order mails and reports come in.
RecordsGoWithMatch ==
  [][\A m \in Match : recorded'[m] # recorded[m] =>
       /\ recorded[m] # "players"
       /\ recorded'[m] = "nothing" => matches'[m].state = "deleted"]_vars

\* A deleted match does not come back, although a mail that moves it can be
\* accepted while it is being deleted, and has nothing recorded.
DeletedStaysDeleted ==
  [][\A m \in Match : matches[m].state = "deleted" =>
       matches'[m].state = "deleted" /\ recorded'[m] = "nothing"]_vars

=============================================================================
