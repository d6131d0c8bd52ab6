----------------------------- MODULE Tournament -----------------------------
(***************************************************************************)
(* Registration of teams for a tournament,                                 *)
(* src/src/tournament/tournament.service.ts.  Tournaments do not interact, *)
(* so the module follows one row of the table and its teams.               *)
(*                                                                         *)
(* applyTournament, cancelTournament and updateTournament run in a         *)
(* transaction that starts by reading the row FOR UPDATE; the hourly       *)
(* closeFinishedTournaments reads and saves without one.  save() reads the *)
(* row again and writes the columns and the join rows in which the entity  *)
(* differs from what it has just read.                                     *)
(*                                                                         *)
(* A definition D_Variant is D with a plausible mistake; nothing uses it   *)
(* but the runs that show which property the mistake breaks.               *)
(***************************************************************************)
EXTENDS Integers, FiniteSets

CONSTANTS
  Team,     \* teams
  Limit,    \* values of teamLimit an admin may give
  Request,  \* slots for requests in flight
  NoOne     \* the row is not locked

ASSUME TeamAssumption == IsFiniteSet(Team) /\ Team # {}
ASSUME LimitAssumption == Limit \subseteq Nat /\ Limit # {}
ASSUME RequestAssumption == NoOne \notin Request

VARIABLES
  row,    \* the row of tournament; "open" while registerDeadline is not past
  lock,   \* the request whose transaction holds the row lock
  req,    \* requests in flight, with the entity each has read
  sweep   \* closeFinishedTournaments: the entity found, and what save() read

vars == <<row, lock, req, sweep>>

Row == [limit : Limit, open : BOOLEAN, finished : BOOLEAN, cancelled : BOOLEAN,
        teams : SUBSET Team]
Blank == [limit |-> CHOOSE n \in Limit : TRUE, open |-> FALSE, finished |-> FALSE,
          cancelled |-> FALSE, teams |-> {}]

Operation == {"apply", "cancel", "update"}
RequestState ==
  [pc : {"idle", "wait", "register", "close", "withdraw", "change"},
   op : Operation, team : Team, seen : Row]
SweepState == [pc : {"idle", "found", "loaded"}, entity : Row, loaded : Row]

Idle == [pc |-> "idle", op |-> "apply", team |-> CHOOSE t \in Team : TRUE, seen |-> Blank]
NoSweep == [pc |-> "idle", entity |-> Blank, loaded |-> Blank]

\* A tournament as createTournament saves it.
Init ==
  /\ \E n \in Limit, open \in BOOLEAN : row = [Blank EXCEPT !.limit = n, !.open = open]
  /\ lock = NoOne
  /\ req = [r \in Request |-> Idle]
  /\ sweep = NoSweep

-----------------------------------------------------------------------------
Full(entity) == Cardinality(entity.teams) >= entity.limit

Differing(new, read, now) == IF new # read THEN new ELSE now

\* save(entity) after it has read the row as "loaded": what the row becomes.  A
\* deadline an admin has moved meanwhile is written back, so an expired entity
\* closes the row again; the clock alone makes no difference to write.
Saved(entity, loaded) ==
  [limit     |-> Differing(entity.limit, loaded.limit, row.limit),
   open      |-> row.open /\ (entity.open \/ ~ loaded.open),
   finished  |-> Differing(entity.finished, loaded.finished, row.finished),
   cancelled |-> Differing(entity.cancelled, loaded.cancelled, row.cancelled),
   teams     |-> (row.teams \cup (entity.teams \ loaded.teams))
                   \ (loaded.teams \ entity.teams)]

Reply(r) == req' = [req EXCEPT ![r] = Idle]

Hold_LockByTeam(r, pc) ==
  /\ lock' = req[r].team
  /\ req' = [req EXCEPT ![r].pc = pc, ![r].seen = row]

Hold(r, pc) ==
  /\ lock' = r
  /\ req' = [req EXCEPT ![r].pc = pc, ![r].seen = row]

Commit(r, new) ==
  /\ row' = new
  /\ lock' = NoOne
  /\ Reply(r)

Unlocked_Always == TRUE

\* the row can be locked: SELECT ... FOR UPDATE returns
Unlocked == lock = NoOne

\* A request arrives and its transaction asks for the row lock.
Begin(r, op, t) ==
  /\ req[r].pc = "idle"
  /\ req' = [req EXCEPT ![r] = [Idle EXCEPT !.pc = "wait", !.op = op, !.team = t]]
  /\ UNCHANGED <<row, lock, sweep>>

-----------------------------------------------------------------------------
(* applyTournament.                                                         *)

Registrable_AtLimit(t) ==
  row.open /\ ~ row.finished /\ Cardinality(row.teams) <= row.limit /\ t \notin row.teams

Registrable(t) == row.open /\ ~ row.finished /\ ~ Full(row) /\ t \notin row.teams

\* The checks after the lock: deadline, isFinished, vacancy, own registration.
ApplyLock(r) ==
  LET t == req[r].team IN
  /\ req[r].pc = "wait" /\ req[r].op = "apply"
  /\ Unlocked
  /\ \/ Registrable(t) /\ Hold(r, "register")
     \/ row.open /\ ~ row.finished /\ Full(row) /\ Hold(r, "close")
     \/ /\ ~ row.open \/ row.finished \/ (~ Full(row) /\ t \in row.teams)
        /\ Reply(r)
        /\ UNCHANGED lock
  /\ UNCHANGED <<row, sweep>>

Register(r) ==
  LET q == req[r] IN
  /\ q.pc = "register"
  /\ Commit(r, Saved([q.seen EXCEPT !.teams = @ \cup {q.team}], row))
  /\ UNCHANGED sweep

-----------------------------------------------------------------------------
(* cancelTournament, updateTournament.                                      *)

CancelLock(r) ==
  /\ req[r].pc = "wait" /\ req[r].op = "cancel"
  /\ Unlocked
  /\ IF row.open /\ req[r].team \in row.teams
     THEN Hold(r, "withdraw")
     ELSE Reply(r) /\ UNCHANGED lock
  /\ UNCHANGED <<row, sweep>>

Withdraw(r) ==
  LET q == req[r] IN
  /\ q.pc = "withdraw"
  /\ Commit(r, Saved([q.seen EXCEPT !.teams = @ \ {q.team}, !.finished = FALSE], row))
  /\ UNCHANGED sweep

UpdateLock(r) ==
  /\ req[r].pc = "wait" /\ req[r].op = "update"
  /\ Unlocked
  /\ Hold(r, "change")
  /\ UNCHANGED <<row, sweep>>

\* UPDATE with the columns of the request, which may be any of the four.
Change(r) ==
  /\ req[r].pc = "change"
  /\ \E n \in Limit, open, finished, cancelled \in BOOLEAN :
       Commit(r, [row EXCEPT !.limit = n, !.open = open,
                             !.finished = finished, !.cancelled = cancelled])
  /\ UNCHANGED sweep

-----------------------------------------------------------------------------
(* A transaction that fails: its wait for the row lock times out, or a      *)
(* statement does.  An application to a full tournament saves the entity    *)
(* through the repository, on a connection of its own, which waits for the  *)
(* lock the application itself holds: it can only fail.                     *)

Waits_ForOthers(r) == req[r].pc = "wait" /\ lock # NoOne

Waits(r) == (req[r].pc = "wait" /\ lock # NoOne) \/ req[r].pc = "close"

Abort(r) ==
  /\ Reply(r)
  /\ lock' = IF lock = r THEN NoOne ELSE lock
  /\ UNCHANGED <<row, sweep>>

Timeout(r) == Waits(r) /\ Abort(r)

Fail(r) == req[r].pc \in {"register", "withdraw", "change"} /\ Abort(r)

-----------------------------------------------------------------------------
(* closeFinishedTournaments.                                                *)

\* find(): expired and not finished; short of teams, so the loop saves it.
SweepFind ==
  /\ sweep.pc = "idle"
  /\ ~ row.open /\ ~ row.finished /\ ~ Full(row)
  /\ sweep' = [NoSweep EXCEPT !.pc = "found",
                 !.entity = [row EXCEPT !.finished = TRUE, !.cancelled = TRUE]]
  /\ UNCHANGED <<row, lock, req>>

\* save(): read the row, without a lock
SweepLoad ==
  /\ sweep.pc = "found"
  /\ sweep' = [sweep EXCEPT !.pc = "loaded", !.loaded = row]
  /\ UNCHANGED <<row, lock, req>>

\* the join rows to insert are not there yet
Insertable == (sweep.entity.teams \ sweep.loaded.teams) \cap row.teams = {}

SweepSave ==
  /\ sweep.pc = "loaded"
  /\ Unlocked
  /\ Insertable
  /\ row' = Saved(sweep.entity, sweep.loaded)
  /\ sweep' = NoSweep
  /\ UNCHANGED <<lock, req>>

\* The save times out on the row lock, or inserts a row twice: nothing awaits
\* its promise, the rejection ends the process and every request with it.
SweepCrash ==
  /\ sweep.pc = "loaded"
  /\ ~ Unlocked \/ ~ Insertable
  /\ sweep' = NoSweep
  /\ req' = [r \in Request |-> Idle]
  /\ lock' = NoOne
  /\ UNCHANGED row

\* registerDeadline passes.
Deadline ==
  /\ row.open
  /\ row' = [row EXCEPT !.open = FALSE]
  /\ UNCHANGED <<lock, req, sweep>>

-----------------------------------------------------------------------------
Handle(r) ==
  ApplyLock(r) \/ Register(r) \/ CancelLock(r) \/ Withdraw(r) \/ UpdateLock(r) \/ Change(r)

Next ==
  \/ \E r \in Request :
       \/ \E op \in Operation, t \in Team : Begin(r, op, t)
       \/ Handle(r) \/ Timeout(r) \/ Fail(r)
  \/ SweepFind \/ SweepLoad \/ SweepSave \/ SweepCrash
  \/ Deadline

Spec == Init /\ [][Next]_vars

\* The server runs every handler on, and the database ends every lock wait.
FairSpec ==
  /\ Spec
  /\ \A r \in Request : WF_vars(Handle(r)) /\ WF_vars(Timeout(r))

-----------------------------------------------------------------------------
(* Properties.                                                              *)

\* Every variable has its type.
TypeOK ==
  /\ row \in Row
  /\ lock \in Request \cup {NoOne}
  /\ req \in [Request -> RequestState]
  /\ sweep \in SweepState

Holding(r) == req[r].pc \in {"register", "close", "withdraw", "change"}

\* The entity a transaction decided on is the row until it commits, whatever
\* other requests and the sweep do (only the deadline may pass).
DecisionIsFresh ==
  \A r \in Request : Holding(r) =>
    [req[r].seen EXCEPT !.open = FALSE] = [row EXCEPT !.open = FALSE]

Registers(r) == req[r].pc = "register" /\ row' # row /\ req'[r].pc = "idle"
Withdraws(r) == req[r].pc = "withdraw" /\ row' # row /\ req'[r].pc = "idle"
Sweeps == sweep.pc = "loaded" /\ sweep'.pc = "idle"

\* A registration takes a free place of an open tournament, although several
\* teams apply while an admin changes the limit.
RegistrationFits ==
  [][\A r \in Request : Registers(r) =>
       /\ Cardinality(row'.teams) <= row'.limit
       /\ ~ row'.finished]_vars

\* A team enters and leaves only by a request of its own: concurrent
\* applications and cancellations never undo one another.  The sweep undoes
\* what came between the row it found and the row its save has read.
OnlyOwnEntryChanges ==
  [][\A t \in Team : (t \in row.teams) # (t \in row'.teams) =>
       \/ \E r \in Request : req[r].team = t /\ (Registers(r) \/ Withdraws(r))
       \/ Sweeps /\ (t \in sweep.entity.teams) # (t \in sweep.loaded.teams)]_vars

\* No transaction keeps the row lock for ever, the one that waits for itself
\* included.
LockIsReleased == \A r \in Request : (lock = r) ~> (lock # r)

=============================================================================
