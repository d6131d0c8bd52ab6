-------------------------- MODULE TournamentProofs --------------------------
(***************************************************************************)
(* Theorems about Tournament for any teams, limits and number of           *)
(* concurrent requests.                                                    *)
(***************************************************************************)
EXTENDS Tournament, FiniteSetTheorems, TLAPS

\* The row lock is held by the one transaction that has read the row, which
\* therefore still has what is stored.
LockOfHolder == \A r \in Request : Holding(r) <=> lock = r

\* A request that is going to register found an open place.
PlaceFound ==
  \A r \in Request : req[r].pc = "register" => /\ ~ Full(req[r].seen)
                                             /\ ~ req[r].seen.finished

IInv == TypeOK /\ LockOfHolder /\ DecisionIsFresh /\ PlaceFound

-----------------------------------------------------------------------------
(* Type correctness.                                                        *)

LEMMA BlankType == Blank \in Row
BY LimitAssumption DEF Blank, Row

LEMMA IdleType == Idle \in RequestState
BY TeamAssumption, BlankType DEF Idle, RequestState, Operation

LEMMA NoSweepType == NoSweep \in SweepState
BY BlankType DEF NoSweep, SweepState

\* save() leaves a row.
LEMMA SavedType ==
  ASSUME NEW e \in Row, NEW l \in Row, row \in Row
  PROVE  Saved(e, l) \in Row
<1>1. /\ e.limit \in Limit /\ l.limit \in Limit /\ row.limit \in Limit
      /\ e.open \in BOOLEAN /\ l.open \in BOOLEAN /\ row.open \in BOOLEAN
      /\ e.finished \in BOOLEAN /\ row.finished \in BOOLEAN
      /\ e.cancelled \in BOOLEAN /\ row.cancelled \in BOOLEAN
      /\ e.teams \in SUBSET Team /\ l.teams \in SUBSET Team /\ row.teams \in SUBSET Team
  BY DEF Row
<1>2. /\ Differing(e.limit, l.limit, row.limit) \in Limit
      /\ Differing(e.finished, l.finished, row.finished) \in BOOLEAN
      /\ Differing(e.cancelled, l.cancelled, row.cancelled) \in BOOLEAN
  BY <1>1 DEF Differing
<1>3. (row.teams \cup (e.teams \ l.teams)) \ (l.teams \ e.teams) \in SUBSET Team
  BY <1>1
<1> QED
  BY <1>1, <1>2, <1>3 DEF Saved, Row

\* What a registration and a withdrawal save is a row.
LEMMA EntityType ==
  ASSUME NEW q \in RequestState
  PROVE  /\ [q.seen EXCEPT !.teams = @ \cup {q.team}] \in Row
         /\ [q.seen EXCEPT !.teams = @ \ {q.team}, !.finished = FALSE] \in Row
BY DEF RequestState, Row

LEMMA TypeInit == Init => TypeOK
<1> SUFFICES ASSUME Init
             PROVE  TypeOK
  OBVIOUS
<1>1. row \in Row
  BY BlankType DEF Init, Row
<1> QED
  BY <1>1, IdleType, NoSweepType DEF Init, TypeOK

LEMMA TypeStep == TypeOK /\ [Next]_vars => TypeOK'
<1> SUFFICES ASSUME TypeOK, [Next]_vars
             PROVE  TypeOK'
  OBVIOUS
<1>0. /\ row \in Row /\ lock \in Request \cup {NoOne}
      /\ req \in [Request -> RequestState] /\ sweep \in SweepState
  BY DEF TypeOK
<1>1. ASSUME NEW r \in Request, Reply(r)
      PROVE  req' \in [Request -> RequestState]
  BY <1>0, <1>1, IdleType DEF Reply
<1>2. ASSUME NEW r \in Request, NEW pc \in {"register", "close", "withdraw", "change"}, Hold(r, pc)
      PROVE  req' \in [Request -> RequestState] /\ lock' \in Request \cup {NoOne}
  BY <1>0, <1>2 DEF Hold, RequestState
<1>3. ASSUME NEW r \in Request, NEW op \in Operation, NEW t \in Team, Begin(r, op, t)
      PROVE  TypeOK'
  <2>1. [Idle EXCEPT !.pc = "wait", !.op = op, !.team = t] \in RequestState
    BY IdleType DEF RequestState
  <2> QED
    BY <1>0, <1>3, <2>1 DEF Begin, TypeOK
<1>4. ASSUME NEW r \in Request, ApplyLock(r) \/ CancelLock(r) \/ UpdateLock(r)
      PROVE  TypeOK'
  BY <1>0, <1>1, <1>2, <1>4 DEF ApplyLock, CancelLock, UpdateLock, TypeOK
<1>5. ASSUME NEW r \in Request, Register(r) \/ Withdraw(r)
      PROVE  TypeOK'
  <2>1. row' \in Row
    BY <1>0, <1>5, SavedType, EntityType DEF Register, Withdraw, Commit
  <2> QED
    BY <1>0, <1>1, <1>5, <2>1 DEF Register, Withdraw, Commit, TypeOK
<1>6. ASSUME NEW r \in Request, Change(r)
      PROVE  TypeOK'
  <2>1. row' \in Row
    BY <1>0, <1>6 DEF Change, Commit, Row
  <2> QED
    BY <1>0, <1>1, <1>6, <2>1 DEF Change, Commit, TypeOK
<1>7. ASSUME NEW r \in Request, Timeout(r) \/ Fail(r)
      PROVE  TypeOK'
  BY <1>0, <1>1, <1>7 DEF Timeout, Fail, Abort, TypeOK
<1>8. CASE SweepFind \/ SweepLoad
  <2>1. [row EXCEPT !.finished = TRUE, !.cancelled = TRUE] \in Row
    BY <1>0 DEF Row
  <2> QED
    BY <1>0, <1>8, <2>1, NoSweepType DEF SweepFind, SweepLoad, TypeOK, SweepState
<1>9. CASE SweepSave
  BY <1>0, <1>9, SavedType, NoSweepType DEF SweepSave, TypeOK, SweepState
<1>10. CASE SweepCrash
  BY <1>0, <1>10, IdleType, NoSweepType DEF SweepCrash, TypeOK
<1>11. CASE Deadline
  BY <1>0, <1>11 DEF Deadline, TypeOK, Row
<1>12. CASE UNCHANGED vars
  BY <1>0, <1>12 DEF vars, TypeOK
<1> QED
  BY <1>3, <1>4, <1>5, <1>6, <1>7, <1>8, <1>9, <1>10, <1>11, <1>12 DEF Next, Handle

-----------------------------------------------------------------------------
(* The lock.                                                                *)

\* What DecisionIsFresh compares: everything of a row but the deadline.
Same(one, other) == [one EXCEPT !.open = FALSE] = [other EXCEPT !.open = FALSE]

LEMMA SameFields ==
  ASSUME NEW one \in Row, NEW other \in Row
  PROVE  Same(one, other) <=> /\ one.limit = other.limit /\ one.teams = other.teams
                              /\ one.finished = other.finished
                              /\ one.cancelled = other.cancelled
BY DEF Same, Row

\* A step that does not begin or end a transaction of r leaves it holding or not.
LEMMA LockStep ==
  ASSUME IInv, [Next]_vars
  PROVE  LockOfHolder' /\ DecisionIsFresh'
<1>0. /\ row \in Row /\ lock \in Request \cup {NoOne} /\ req \in [Request -> RequestState]
      /\ LockOfHolder /\ DecisionIsFresh
  BY DEF IInv, TypeOK
<1>1. ASSUME NEW r \in Request, Reply(r), lock = NoOne \/ lock = r, lock' = NoOne
      PROVE  LockOfHolder' /\ DecisionIsFresh'
  BY <1>0, <1>1, RequestAssumption DEF Reply, Idle, LockOfHolder, DecisionIsFresh, Holding
<1>2. ASSUME NEW r \in Request, NEW pc \in {"register", "close", "withdraw", "change"},
             Hold(r, pc), lock = NoOne, row' = row
      PROVE  LockOfHolder' /\ DecisionIsFresh'
  <2>1. /\ req'[r].pc = pc /\ req'[r].seen = row /\ lock' = r
        /\ \A s \in Request \ {r} : req'[s] = req[s]
    BY <1>0, <1>2 DEF Hold, RequestState
  <2>2. \A s \in Request : ~ Holding(s)
    BY <1>0, <1>2, RequestAssumption DEF LockOfHolder
  <2>3. LockOfHolder'
    BY <2>1, <2>2 DEF LockOfHolder, Holding
  <2>4. DecisionIsFresh'
    BY <1>2, <2>1, <2>2 DEF DecisionIsFresh, Holding
  <2> QED
    BY <2>3, <2>4
<1>3. ASSUME NEW r \in Request, NEW op \in Operation, NEW t \in Team, Begin(r, op, t)
      PROVE  LockOfHolder' /\ DecisionIsFresh'
  BY <1>0, <1>3, RequestAssumption DEF Begin, Idle, LockOfHolder, DecisionIsFresh, Holding,
     RequestState
<1>4. ASSUME NEW r \in Request, ApplyLock(r) \/ CancelLock(r) \/ UpdateLock(r)
      PROVE  LockOfHolder' /\ DecisionIsFresh'
  <2>1. lock = NoOne /\ row' = row
    BY <1>4 DEF ApplyLock, CancelLock, UpdateLock, Unlocked
  <2>2. \/ \E pc \in {"register", "close", "withdraw", "change"} : Hold(r, pc)
        \/ Reply(r) /\ lock' = lock
    BY <1>4 DEF ApplyLock, CancelLock, UpdateLock
  <2> QED
    BY <1>1, <1>2, <2>1, <2>2
<1>5. ASSUME NEW r \in Request, Register(r) \/ Withdraw(r) \/ Change(r)
      PROVE  LockOfHolder' /\ DecisionIsFresh'
  <2>1. lock = r
    BY <1>0, <1>5 DEF Register, Withdraw, Change, LockOfHolder, Holding
  <2>2. Reply(r) /\ lock' = NoOne
    BY <1>5 DEF Register, Withdraw, Change, Commit
  <2> QED
    BY <1>1, <2>1, <2>2
<1>6. ASSUME NEW r \in Request, Timeout(r) \/ Fail(r)
      PROVE  LockOfHolder' /\ DecisionIsFresh'
  <2>1. Reply(r) /\ lock' = (IF lock = r THEN NoOne ELSE lock) /\ row' = row
    BY <1>6 DEF Timeout, Fail, Abort
  <2> QED
    BY <1>0, <2>1, RequestAssumption DEF Reply, Idle, LockOfHolder, DecisionIsFresh, Holding
<1>7. CASE SweepFind \/ SweepLoad \/ UNCHANGED vars
  BY <1>0, <1>7 DEF SweepFind, SweepLoad, vars, LockOfHolder, DecisionIsFresh, Holding
<1>8. CASE SweepSave
  <2>1. \A r \in Request : ~ Holding(r)
    BY <1>0, <1>8, RequestAssumption DEF SweepSave, Unlocked, LockOfHolder
  <2> QED
    BY <1>0, <1>8, <2>1 DEF SweepSave, LockOfHolder, DecisionIsFresh, Holding
<1>9. CASE SweepCrash
  BY <1>0, <1>9, RequestAssumption DEF SweepCrash, Idle, LockOfHolder, DecisionIsFresh, Holding
<1>10. CASE Deadline
  <2>1. [row' EXCEPT !.open = FALSE] = [row EXCEPT !.open = FALSE]
    BY <1>0, <1>10 DEF Deadline, Row
  <2> QED
    BY <1>0, <1>10, <2>1 DEF Deadline, LockOfHolder, DecisionIsFresh, Holding
<1> QED
  BY <1>3, <1>4, <1>5, <1>6, <1>7, <1>8, <1>9, <1>10 DEF Next, Handle

\* A request starts to register only with an open place in sight.
LEMMA PlaceStep ==
  ASSUME IInv, [Next]_vars
  PROVE  PlaceFound'
<1>0. req \in [Request -> RequestState] /\ PlaceFound
  BY DEF IInv, TypeOK
<1> SUFFICES ASSUME NEW r \in Request, req'[r].pc = "register"
             PROVE  ~ Full(req'[r].seen) /\ ~ req'[r].seen.finished
  BY DEF PlaceFound, Full
<1>a. Reply(r) => req'[r].pc = "idle"
  BY <1>0 DEF Reply, Idle
<1>b. \A pc : Hold(r, pc) => req'[r].pc = pc /\ req'[r].seen = row
  BY <1>0 DEF Hold, RequestState
<1>1. CASE req'[r] = req[r]
  BY <1>0, <1>1 DEF PlaceFound
<1>2. CASE ApplyLock(r)
  <2>1. Hold(r, "register") /\ Registrable(req[r].team)
    BY <1>2, <1>a, <1>b DEF ApplyLock
  <2>2. req'[r].seen = row
    BY <1>b, <2>1
  <2> QED
    BY <2>1, <2>2 DEF Registrable
<1>3. CASE CancelLock(r) \/ UpdateLock(r)
  BY <1>3, <1>a, <1>b DEF CancelLock, UpdateLock
<1>4. CASE Register(r) \/ Withdraw(r) \/ Change(r) \/ Timeout(r) \/ Fail(r)
  BY <1>4, <1>a DEF Register, Withdraw, Change, Timeout, Fail, Commit, Abort
<1>5. ASSUME NEW op \in Operation, NEW t \in Team, Begin(r, op, t)
      PROVE  FALSE
  BY <1>0, <1>5 DEF Begin, Idle
<1>6. ASSUME NEW s \in Request \ {r},
             Handle(s) \/ Timeout(s) \/ Fail(s) \/ \E op \in Operation, t \in Team : Begin(s, op, t)
      PROVE  req'[r] = req[r]
  BY <1>0, <1>6 DEF Handle, ApplyLock, Register, CancelLock, Withdraw, UpdateLock, Change,
     Timeout, Fail, Begin, Commit, Abort, Hold, Reply
<1>7. CASE SweepCrash
  BY <1>7 DEF SweepCrash, Idle
<1>8. CASE SweepFind \/ SweepLoad \/ SweepSave \/ Deadline \/ UNCHANGED vars
  BY <1>1, <1>8 DEF SweepFind, SweepLoad, SweepSave, Deadline, vars
<1> QED
  BY <1>1, <1>2, <1>3, <1>4, <1>5, <1>6, <1>7, <1>8 DEF Next, Handle

-----------------------------------------------------------------------------
(* Theorems.                                                                *)

LEMMA InvInit == Init => IInv
<1> SUFFICES ASSUME Init
             PROVE  IInv
  OBVIOUS
<1>1. \A r \in Request : req[r].pc = "idle" /\ lock = NoOne
  BY DEF Init, Idle
<1>2. LockOfHolder /\ DecisionIsFresh /\ PlaceFound
  BY <1>1, RequestAssumption DEF LockOfHolder, DecisionIsFresh, PlaceFound, Holding
<1> QED
  BY <1>2, TypeInit DEF IInv

\* The inductive invariant: types, the lock, and what its holder has read.
THEOREM Invariance == Spec => []IInv
<1>1. IInv /\ [Next]_vars => IInv'
  BY TypeStep, LockStep, PlaceStep DEF IInv
<1> QED
  BY <1>1, InvInit, PTL DEF Spec

\* Every reachable state is well typed.
THEOREM TypeCorrect == Spec => []TypeOK
<1>1. IInv => TypeOK
  BY DEF IInv
<1> QED
  BY <1>1, Invariance, PTL

\* A transaction's copy of the tournament is what is stored until it commits.
THEOREM FreshDecisions == Spec => []DecisionIsFresh
<1>1. IInv => DecisionIsFresh
  BY DEF IInv
<1> QED
  BY <1>1, Invariance, PTL

\* What a registration and a withdrawal write under the lock.
LEMMA Written ==
  ASSUME IInv, NEW r \in Request
  PROVE  /\ Register(r) => /\ row'.teams = row.teams \cup {req[r].team}
                            /\ row'.limit = row.limit /\ row'.finished = row.finished
                            /\ req[r].seen.teams = row.teams
                            /\ req[r].seen.limit = row.limit
                            /\ req[r].seen.finished = row.finished
         /\ Withdraw(r) => row'.teams = row.teams \ {req[r].team}
<1> DEFINE q == req[r]
<1>1. q \in RequestState /\ row \in Row /\ q.seen \in Row /\ q.team \in Team
  BY DEF IInv, TypeOK, RequestState
<1>2. Register(r) \/ Withdraw(r) => Same(q.seen, row)
  BY DEF IInv, DecisionIsFresh, Holding, Register, Withdraw, Same
<1>3. ASSUME Register(r)
      PROVE  /\ row'.teams = row.teams \cup {q.team}
             /\ row'.limit = row.limit /\ row'.finished = row.finished
             /\ q.seen.teams = row.teams /\ q.seen.limit = row.limit
             /\ q.seen.finished = row.finished
  <2> DEFINE e == [q.seen EXCEPT !.teams = @ \cup {q.team}]
  <2>1. q.seen.teams = row.teams /\ q.seen.limit = row.limit /\ q.seen.finished = row.finished
    BY <1>1, <1>2, <1>3, SameFields
  <2>2. e.teams = row.teams \cup {q.team} /\ e.limit = row.limit /\ e.finished = row.finished
    BY <1>1, <2>1 DEF Row
  <2>3. row' = Saved(e, row)
    BY <1>3 DEF Register, Commit
  <2>4. /\ row'.teams = (row.teams \cup (e.teams \ row.teams)) \ (row.teams \ e.teams)
        /\ row'.limit = Differing(e.limit, row.limit, row.limit)
        /\ row'.finished = Differing(e.finished, row.finished, row.finished)
    BY <2>3 DEF Saved
  <2>5. row'.limit = row.limit /\ row'.finished = row.finished
    BY <2>2, <2>4 DEF Differing
  <2>6. row'.teams = row.teams \cup {q.team}
    BY <2>2, <2>4
  <2> QED
    BY <2>1, <2>5, <2>6
<1>4. ASSUME Withdraw(r)
      PROVE  row'.teams = row.teams \ {q.team}
  <2> DEFINE e == [q.seen EXCEPT !.teams = @ \ {q.team}, !.finished = FALSE]
  <2>1. q.seen.teams = row.teams
    BY <1>1, <1>2, <1>4, SameFields
  <2>2. e.teams = row.teams \ {q.team}
    BY <1>1, <2>1 DEF Row
  <2>3. row' = Saved(e, row)
    BY <1>4 DEF Withdraw, Commit
  <2>4. row'.teams = (row.teams \cup (e.teams \ row.teams)) \ (row.teams \ e.teams)
    BY <2>3 DEF Saved
  <2> QED
    BY <2>2, <2>4
<1> QED
  BY <1>3, <1>4

LEMMA OneMore ==
  ASSUME NEW S, NEW x, IsFiniteSet(S)
  PROVE  Cardinality(S \cup {x}) <= Cardinality(S) + 1
<1>1. Cardinality(S) \in Nat
  BY FS_CardinalityType
<1>2. Cardinality(S \cup {x}) = IF x \in S THEN Cardinality(S) ELSE Cardinality(S) + 1
  BY FS_AddElement
<1> QED
  BY <1>1, <1>2

\* A registration takes a free place of an open tournament.
THEOREM PlacesSuffice == Spec => RegistrationFits
<1> DEFINE Fits == \A r \in Request : Registers(r) =>
                     /\ Cardinality(row'.teams) <= row'.limit
                     /\ ~ row'.finished
<1>1. IInv /\ [Next]_vars => [Fits]_vars
  <2> SUFFICES ASSUME IInv, [Next]_vars, NEW r \in Request, Registers(r)
               PROVE  Cardinality(row'.teams) <= row'.limit /\ ~ row'.finished
    OBVIOUS
  <2>0. req \in [Request -> RequestState] /\ row \in Row
    BY DEF IInv, TypeOK
  <2>1. Register(r)
    <3>1. req[r].pc = "register" /\ row' # row /\ req'[r] # req[r]
      BY DEF Registers
    <3>2. ASSUME NEW s \in Request \ {r}, Handle(s)
          PROVE  req'[r] = req[r]
      BY <2>0, <3>2 DEF Handle, ApplyLock, Register, CancelLock, Withdraw, UpdateLock, Change,
         Commit, Hold, Reply
    <3>3. ~ SweepSave /\ ~ Deadline
      BY <3>1 DEF SweepSave, Deadline
    <3>4. PICK s \in Request : Handle(s)
      BY <3>1, <3>3 DEF Next, vars, Begin, Timeout, Fail, Abort, SweepFind, SweepLoad, SweepCrash
    <3>5. Handle(r)
      BY <3>1, <3>2, <3>4
    <3> QED
      BY <3>1, <3>5 DEF Handle, ApplyLock, CancelLock, Withdraw, UpdateLock, Change
  <2>2. /\ row'.teams = row.teams \cup {req[r].team}
        /\ row'.limit = row.limit /\ row'.finished = row.finished
        /\ Cardinality(row.teams) < row.limit /\ ~ row.finished
    <3>1. ~ Full(req[r].seen) /\ ~ req[r].seen.finished
      BY DEF IInv, PlaceFound, Registers
    <3>2. Cardinality(row.teams) \in Nat /\ row.limit \in Nat
      BY <2>0, TeamAssumption, LimitAssumption, FS_Subset, FS_CardinalityType DEF Row
    <3> QED
      BY <2>1, <3>1, <3>2, Written DEF Full
  <2>3. IsFiniteSet(row.teams)
    BY <2>0, TeamAssumption, FS_Subset DEF Row
  <2>4. Cardinality(row.teams) \in Nat /\ row.limit \in Nat
    BY <2>0, <2>3, LimitAssumption, FS_CardinalityType DEF Row
  <2>5. Cardinality(row.teams \cup {req[r].team}) <= Cardinality(row.teams) + 1
    BY <2>3, OneMore
  <2>6. Cardinality(row.teams \cup {req[r].team}) \in Nat
    BY <2>3, FS_AddElement, FS_CardinalityType
  <2> QED
    BY <2>2, <2>4, <2>5, <2>6
<1> QED
  BY <1>1, Invariance, PTL DEF Spec, RegistrationFits

\* Only its own requests move a team in or out, but for what the sweep undoes.
THEOREM OwnEntries == Spec => OnlyOwnEntryChanges
<1> DEFINE Own == \A t \in Team : (t \in row.teams) # (t \in row'.teams) =>
                    \/ \E r \in Request : req[r].team = t /\ (Registers(r) \/ Withdraws(r))
                    \/ Sweeps /\ (t \in sweep.entity.teams) # (t \in sweep.loaded.teams)
<1>1. IInv /\ [Next]_vars => [Own]_vars
  <2> SUFFICES ASSUME IInv, [Next]_vars, NEW t \in Team,
                      (t \in row.teams) # (t \in row'.teams),
                      ~ (Sweeps /\ (t \in sweep.entity.teams) # (t \in sweep.loaded.teams))
               PROVE  \E r \in Request : req[r].team = t /\ (Registers(r) \/ Withdraws(r))
    OBVIOUS
  <2>0. req \in [Request -> RequestState] /\ row \in Row
    BY DEF IInv, TypeOK
  <2>1. row' # row
    OBVIOUS
  <2>2. ~ SweepSave
    <3> SUFFICES ASSUME SweepSave
                 PROVE  FALSE
      OBVIOUS
    <3>1. Sweeps
      BY DEF Sweeps, SweepSave, NoSweep
    <3>2. (t \in sweep.entity.teams) <=> (t \in sweep.loaded.teams)
      BY <3>1
    <3>3. row'.teams = (row.teams \cup (sweep.entity.teams \ sweep.loaded.teams))
                          \ (sweep.loaded.teams \ sweep.entity.teams)
      BY DEF SweepSave, Saved
    <3> QED
      BY <3>2, <3>3
  <2>3. ~ Deadline /\ \A r \in Request : ~ Change(r)
    BY <2>0 DEF Deadline, Change, Commit, Row
  <2>4. PICK r \in Request : Register(r) \/ Withdraw(r)
    BY <2>1, <2>2, <2>3 DEF Next, vars, Handle, Begin, ApplyLock, CancelLock,
       UpdateLock, Timeout, Fail, Abort, SweepFind, SweepLoad, SweepCrash
  <2>5. req[r].team = t
    BY <2>4, Written
  <2>6. req'[r].pc = "idle"
    BY <2>0, <2>4 DEF Register, Withdraw, Commit, Reply, Idle
  <2> QED
    BY <2>1, <2>4, <2>5, <2>6 DEF Registers, Withdraws, Register, Withdraw
<1> QED
  BY <1>1, Invariance, PTL DEF Spec, OnlyOwnEntryChanges

=============================================================================
