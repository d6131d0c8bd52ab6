---------------------- MODULE EmailVerificationProofs ----------------------
(***************************************************************************)
(* Proofs about EmailVerification, for any number of requests, codes,      *)
(* attempts and failures.                                                  *)
(***************************************************************************)
EXTENDS EmailVerification, TLAPS

-----------------------------------------------------------------------------
(* The inductive invariant.                                                 *)

\* What a request may hold when n codes have been stored and those of sent
\* mailed: codes that were stored; where the handler is says which.
Held(q, n, sent) ==
  /\ q \in RequestState
  /\ q.entity.code <= n
  /\ q.pc \in {"reinsert", "mail", "accept", "attempt"} => q.entity.code # 0
  /\ q.pc = "accept" => q.entity.code \in sent

IInv ==
  /\ TypeOK
  /\ row.code <= made
  /\ \A r \in Request : Held(req[r], made, mailed)

LEMMA RowFields ==
  ASSUME NEW x \in Row
  PROVE  x.code \in Nat /\ x.code \in 0 .. MaxCodes /\ x.save \in {1, 2} /\ x.attempts \in 1 .. MaxTries
BY EmailVerificationAssumption DEF Row, Code

LEMMA NoRowType == NoRow \in Row /\ NoRow.code = 0
BY EmailVerificationAssumption DEF NoRow, Row

LEMMA IdleHeld ==
  ASSUME NEW n \in Nat, NEW sent
  PROVE  Idle \in RequestState /\ Held(Idle, n, sent)
<1>1. Idle \in RequestState
  BY NoRowType, EmailVerificationAssumption DEF Idle, RequestState
<1>2. Idle.pc = "idle" /\ Idle.entity.code = 0
  BY NoRowType DEF Idle
<1> QED
  BY <1>1, <1>2 DEF Held

LEMMA InitIInv == Init => IInv
<1> SUFFICES ASSUME Init PROVE IInv
  OBVIOUS
<1>1. TypeOK
  BY NoRowType, IdleHeld, EmailVerificationAssumption DEF Init, TypeOK
<1>2. row.code <= made
  BY NoRowType DEF Init
<1>3. \A r \in Request : Held(req[r], made, mailed)
  BY IdleHeld DEF Init
<1> QED
  BY <1>1, <1>2, <1>3 DEF IInv

\* A step of one request leaves all of them with what they may hold.
LEMMA SlotStep ==
  ASSUME req \in [Request -> RequestState], \A s \in Request : Held(req[s], made, mailed),
         made \in Nat, made' \in Nat, made <= made', mailed \subseteq mailed',
         NEW r \in Request, NEW pc, NEW x,
         Move(r, pc, x) \/ MoveOvertaking(r, pc, x),
         Held([pc |-> pc, entity |-> x, overtaken |-> FALSE], made', mailed')
  PROVE  /\ req' \in [Request -> RequestState]
         /\ \A s \in Request : Held(req'[s], made', mailed')
<1> DEFINE q == [pc |-> pc, entity |-> x, overtaken |-> FALSE]
<1>0. q \in RequestState /\ req'[r] = q
  BY DEF Held, Move, MoveOvertaking
<1>1. ASSUME NEW s \in Request, s # r
      PROVE  Held(req'[s], made', mailed')
  <2>1. PICK o \in RequestState : o = req[s]
    OBVIOUS
  <2>2. Held(o, made, mailed) /\ o.entity.code \in Nat
    BY <2>1, RowFields DEF RequestState
  <2>3. req'[s] = o \/ req'[s] = [o EXCEPT !.overtaken = TRUE]
    BY <1>1, <2>1 DEF Move, MoveOvertaking
  <2>4. PICK p \in RequestState : p = req'[s] /\ p.pc = o.pc /\ p.entity = o.entity
    <3>1. CASE req'[s] = o
      BY <3>1
    <3>2. CASE req'[s] = [o EXCEPT !.overtaken = TRUE]
      <4>1. [o EXCEPT !.overtaken = TRUE] \in RequestState
        BY DEF RequestState
      <4>2. /\ [o EXCEPT !.overtaken = TRUE].pc = o.pc
            /\ [o EXCEPT !.overtaken = TRUE].entity = o.entity
        BY DEF RequestState
      <4> QED
        BY <3>2, <4>1, <4>2
    <3> QED
      BY <2>3, <3>1, <3>2
  <2>5. Held(p, made', mailed')
    BY <2>2, <2>4 DEF Held
  <2> QED
    BY <2>4, <2>5
<1>2. Held(req'[r], made', mailed')
  BY <1>0
<1>3. \A s \in Request : Held(req'[s], made', mailed')
  BY <1>1, <1>2
<1>4. DOMAIN req' = Request /\ req' = [s \in Request |-> req'[s]]
  BY DEF Move, MoveOvertaking
<1> QED
  BY <1>3, <1>4 DEF Held

LEMMA StepIInv == IInv /\ [Next]_vars => IInv'
<1> SUFFICES ASSUME IInv, [Next]_vars PROVE IInv'
  OBVIOUS
<1> USE EmailVerificationAssumption
<1>0. /\ row \in Row /\ row.code <= made
      /\ made \in 0 .. MaxCodes /\ expired \subseteq 1 .. made
      /\ used \subseteq mailed /\ mailed \subseteq 1 .. made
      /\ req \in [Request -> RequestState] /\ fails \in 0 .. MaxFails
      /\ \A r \in Request : Held(req[r], made, mailed)
  BY DEF IInv, TypeOK
<1>fields. ASSUME NEW r \in Request
           PROVE  /\ req[r].entity \in Row
                  /\ req[r].entity.code \in 0 .. made
                  /\ req[r].pc \in {"reinsert", "mail", "accept", "attempt"} =>
                       req[r].entity.code # 0
                  /\ req[r].pc = "accept" => req[r].entity.code \in mailed
  <2>1. req[r] \in RequestState /\ Held(req[r], made, mailed)
    BY <1>0
  <2>2. req[r].entity \in Row
    BY <2>1 DEF RequestState
  <2>3. req[r].entity.code \in Nat
    BY <2>2, RowFields
  <2> QED
    BY <1>0, <2>1, <2>2, <2>3 DEF Held
<1>go. ASSUME NEW r \in Request, NEW x \in Row,
              NEW pc \in {"idle", "generate", "replace", "insert", "reinsert", "mail", "accept",
                          "attempt"},
              Move(r, pc, x) \/ MoveOvertaking(r, pc, x),
              made' \in Nat, made <= made', mailed \subseteq mailed', x.code <= made',
              pc \in {"reinsert", "mail", "accept", "attempt"} => x.code # 0,
              pc = "accept" => x.code \in mailed'
       PROVE  req' \in [Request -> RequestState]
              /\ \A s \in Request : Held(req'[s], made', mailed')
  <2>1. Held([pc |-> pc, entity |-> x, overtaken |-> FALSE], made', mailed')
    BY <1>go DEF Held, RequestState
  <2>2. made \in Nat
    BY <1>0
  <2> QED
    BY <1>0, <1>go, <2>1, <2>2, SlotStep
<1>done. ASSUME NEW r \in Request, Finish(r) \/ MoveOvertaking(r, "idle", NoRow),
                UNCHANGED made, mailed \subseteq mailed'
         PROVE  req' \in [Request -> RequestState]
                /\ \A s \in Request : Held(req'[s], made', mailed')
  <2>1. made' \in Nat /\ made <= made' /\ NoRow \in Row /\ NoRow.code <= made'
    BY <1>0, <1>done, NoRowType
  <2> QED
    BY <1>go, <1>done, <2>1 DEF Finish
<1>account. account' \in BOOLEAN
  <2>1. account \in BOOLEAN
    BY DEF IInv, TypeOK
  <2>2. CASE ChangeAccount
    BY <2>1, <2>2 DEF ChangeAccount
  <2>3. CASE UNCHANGED account
    BY <2>1, <2>3
  <2> QED
    BY <2>2, <2>3
    DEF Next, Handle, SendCode, SendPasswordResetEmail, SendFind, Generate, Replace, Insert,
        InsertAgain, Mail, VerifyFind, Accept, Attempt, Expire, Fail, vars
<1>all. ASSUME row' \in Row, row'.code <= made', made' \in 0 .. MaxCodes,
               expired' \subseteq 1 .. made', used' \subseteq mailed', mailed' \subseteq 1 .. made',
               fails' \in 0 .. MaxFails, req' \in [Request -> RequestState],
               \A s \in Request : Held(req'[s], made', mailed')
        PROVE  IInv'
  BY <1>all, <1>account DEF IInv, TypeOK
<1>same. ASSUME UNCHANGED <<row, made, expired, mailed, used>>
         PROVE  /\ row' \in Row /\ row'.code <= made' /\ made' \in 0 .. MaxCodes
                /\ expired' \subseteq 1 .. made' /\ used' \subseteq mailed'
                /\ mailed' \subseteq 1 .. made'
  BY <1>same, <1>0
<1>1. ASSUME NEW r \in Request, SendFind(r) PROVE IInv'
  <2>1. UNCHANGED <<row, made, expired, mailed, used, fails>>
    BY <1>1 DEF SendFind
  <2>2. CASE Found
    <3>1. Move(r, "mail", row) /\ row.code # 0
      BY <1>1, <2>2 DEF SendFind, Reusable, Found
    <3> QED
      BY <1>0, <2>1, <3>1, <1>go, <1>same, <1>all
  <2>3. CASE ~ Found
    <3>1. Move(r, "generate", row)
      BY <1>1, <2>3 DEF SendFind, Reusable
    <3> QED
      BY <1>0, <2>1, <3>1, <1>go, <1>same, <1>all
  <2> QED
    BY <2>2, <2>3
<1>2. ASSUME NEW r \in Request, Generate(r) PROVE IInv'
  <2>1. PICK pc \in {"replace", "insert"} : Move(r, pc, NoRow)
    BY <1>2 DEF Generate
  <2>2. UNCHANGED <<row, made, expired, mailed, used, fails>>
    BY <1>2 DEF Generate
  <2> QED
    BY <1>0, <2>1, <2>2, NoRowType, <1>go, <1>same, <1>all
<1>3. ASSUME NEW r \in Request, Replace(r) PROVE IInv'
  BY <1>0, <1>3, NoRowType, <1>go, <1>all DEF Replace
<1>4. ASSUME NEW r \in Request, Insert(r) PROVE IInv'
  <2> DEFINE new == [code |-> made + 1, save |-> 1, attempts |-> 1]
             again == [code |-> made + 1, save |-> 2, attempts |-> 1]
  <2>1. CASE Unique
    <3>1. /\ made < MaxCodes /\ made' = made + 1 /\ row' = new
          /\ MoveOvertaking(r, "reinsert", again)
          /\ UNCHANGED <<expired, mailed, used, fails>>
      BY <1>4, <2>1 DEF Insert
    <3>2. /\ new \in Row /\ again \in Row /\ new.code = made + 1 /\ again.code = made + 1
          /\ again # NoRow
      BY <1>0, <3>1 DEF Row, Code, NoRow
    <3> HIDE DEF new, again
    <3> QED
      BY <1>0, <3>1, <3>2, <1>go, <1>all
  <2>2. CASE ~ Unique
    <3>1. Finish(r) /\ UNCHANGED <<row, made, expired, mailed, used, fails>>
      BY <1>4, <2>2 DEF Insert
    <3> QED
      BY <1>0, <3>1, <1>done, <1>same, <1>all
  <2> QED
    BY <2>1, <2>2
<1>5. ASSUME NEW r \in Request, InsertAgain(r) PROVE IInv'
  <2>0. req[r].entity.code # 0
    BY <1>5, <1>fields DEF InsertAgain, At
  <2>1. CASE Unique
    <3>1. /\ row' = req[r].entity /\ MoveOvertaking(r, "mail", req[r].entity)
          /\ UNCHANGED <<made, expired, mailed, used, fails>>
      BY <1>5, <2>1 DEF InsertAgain
    <3> QED
      BY <1>0, <2>0, <3>1, <1>fields, <1>go, <1>all
  <2>2. CASE ~ Unique
    <3>1. Finish(r) /\ UNCHANGED <<row, made, expired, mailed, used, fails>>
      BY <1>5, <2>2 DEF InsertAgain
    <3> QED
      BY <1>0, <3>1, <1>done, <1>same, <1>all
  <2> QED
    BY <2>1, <2>2
<1>6. ASSUME NEW r \in Request, Mail(r) PROVE IInv'
  <2>1. req[r].entity.code \in 1 .. made
    BY <1>0, <1>6, <1>fields, RowFields DEF Mail, At, Code
  <2> QED
    BY <1>0, <1>6, <2>1, <1>done, <1>all DEF Mail
<1>7. ASSUME NEW r \in Request, NEW code \in mailed \cup {Wrong}, VerifyFind(r, code)
      PROVE  IInv'
  <2>1. UNCHANGED <<row, made, expired, mailed, used, fails>> /\ row.code # 0 /\ row \in Row
    BY <1>0, <1>7, RowFields DEF VerifyFind, Found
  <2>2. CASE Valid(code)
    <3>1. [row EXCEPT !.code = code] = row /\ row.code \in mailed
      BY <2>1, <2>2 DEF Valid, Row, Code, Wrong
    <3> QED
      BY <1>0, <1>7, <2>1, <2>2, <3>1, <1>go, <1>same, <1>all DEF VerifyFind
  <2>3. CASE ~ Valid(code)
    <3> DEFINE x == [row EXCEPT !.attempts = @ + 1]
    <3>1. Move(r, "attempt", x) /\ row.attempts < MaxTries
      BY <1>7, <2>3 DEF VerifyFind
    <3>2. x \in Row /\ x.code = row.code /\ x # NoRow
      BY <2>1, <3>1 DEF Row, Code, NoRow
    <3> HIDE DEF x
    <3> QED
      BY <1>0, <2>1, <3>1, <3>2, <1>go, <1>same, <1>all
  <2> QED
    BY <2>2, <2>3
<1>8. ASSUME NEW r \in Request, Accept(r) PROVE IInv'
  <2>1. req[r].entity.code \in mailed
    BY <1>8, <1>fields DEF Accept, At
  <2> QED
    <3>1. /\ row' = NoRow /\ used' = used \cup {req[r].entity.code}
          /\ MoveOvertaking(r, "idle", NoRow) /\ UNCHANGED <<made, expired, mailed, fails>>
      BY <1>8 DEF Accept, AfterUse
    <3>2. row' \in Row /\ row'.code <= made' /\ used' \subseteq mailed'
      <4>1. row' \in Row
        BY <3>1, NoRowType
      <4>2. row'.code <= made'
        BY <1>0, <3>1, NoRowType
      <4>3. used' \subseteq mailed'
        BY <1>0, <2>1, <3>1
      <4> QED
        BY <4>1, <4>2, <4>3
    <3> QED
      BY <1>0, <3>1, <3>2, <1>done, <1>all
<1>9. ASSUME NEW r \in Request, Attempt(r) PROVE IInv'
  <2>1. /\ Finish(r) \/ MoveOvertaking(r, "idle", NoRow)
        /\ UNCHANGED <<made, expired, mailed, used, fails>>
    BY <1>9 DEF Attempt
  <2>2. req[r].entity \in Row /\ req[r].entity.code <= made
    BY <1>0, <1>9, <1>fields, RowFields DEF Attempt, At
  <2>3. row' \in Row /\ row'.code <= made
    <3>1. CASE row.code # 0 /\ SameId(row, req[r].entity)
      <4>1. row' = [row EXCEPT !.attempts = req[r].entity.attempts] /\ row \in Row
        BY <1>0, <1>9, <3>1, RowFields DEF Attempt, Found
      <4> QED
        BY <1>0, <2>2, <4>1 DEF Row
    <3>2. CASE ~ (row.code # 0 /\ SameId(row, req[r].entity))
      BY <1>0, <1>9, <2>2, <3>2 DEF Attempt, Found
    <3> QED
      BY <3>1, <3>2
  <2> QED
    BY <1>0, <2>1, <2>3, <1>done, <1>all
<1>10. ASSUME NEW r \in Request, Fail(r) PROVE IInv'
  BY <1>0, <1>10, <1>done, <1>same, <1>all DEF Fail
<1>11. ASSUME NEW code \in Code, Expire(code) PROVE IInv'
  BY <1>0, <1>11, <1>all DEF Expire, Code
<1>12. CASE ChangeAccount
  BY <1>0, <1>12, <1>all DEF ChangeAccount
<1>13. CASE UNCHANGED vars
  BY <1>0, <1>13, <1>all DEF vars
<1> QED
  BY <1>1, <1>2, <1>3, <1>4, <1>5, <1>6, <1>7, <1>8, <1>9, <1>10, <1>11, <1>12, <1>13
  DEF Next, Handle, SendCode, SendPasswordResetEmail

-----------------------------------------------------------------------------
\* IInv holds in every reachable state.
THEOREM Invariance == Spec => []IInv
<1>1. Init => IInv
  BY InitIInv
<1>2. IInv /\ [Next]_vars => IInv'
  BY StepIInv
<1> QED
  BY <1>1, <1>2, PTL DEF Spec

\* Every variable has its type, whatever requests overlap or fail: a code is
\* used only if it was mailed, and mailed only if it was stored.
THEOREM TypeCorrect == Spec => []TypeOK
<1>1. IInv => TypeOK
  BY DEF IInv
<1> QED
  BY <1>1, Invariance, PTL

\* A used code comes back only through a request that held it when it was used.
THEOREM UsedCodesReturn == Spec => UsedCodeReturnsOnlyByOverlap
<1> DEFINE Returns(code) ==
      /\ code \in used' /\ Stored(code)'
      /\ ~ (code \in used /\ Stored(code))
    Brings(code) ==
      \E r \in Request :
        req[r].pc \in {"attempt", "reinsert"} /\ req[r].entity.code = code
<1>1. ASSUME IInv, [Next]_vars
      PROVE  [\A code \in Code : Returns(code) => Brings(code)]_vars
  <2> SUFFICES ASSUME NEW c \in Code, Returns(c), Next PROVE Brings(c)
    BY <1>1
  <2> USE <1>1, RowFields, EmailVerificationAssumption DEF IInv, TypeOK, Stored, At, Found, Unique, NoRow, Code
  <2>1. ASSUME NEW r \in Request, Insert(r) PROVE FALSE
    BY <2>1 DEF Insert
  <2>2. ASSUME NEW r \in Request, InsertAgain(r) PROVE Brings(c)
    BY <2>2 DEF InsertAgain
  <2>3. ASSUME NEW r \in Request, Replace(r) \/ Accept(r) PROVE FALSE
    BY <2>3 DEF Replace, Accept, AfterUse
  <2>4. ASSUME NEW r \in Request, Attempt(r) PROVE Brings(c)
    <3>1. CASE Found /\ SameId(row, req[r].entity)
      <4>1. row' = [row EXCEPT !.attempts = req[r].entity.attempts] /\ used' = used
        BY <2>4, <3>1 DEF Attempt
      <4>2. row'.code = row.code
        BY <4>1 DEF Row
      <4> QED
        BY <4>1, <4>2
    <3>2. CASE Found /\ ~ SameId(row, req[r].entity)
      BY <2>4, <3>2 DEF Attempt
    <3>3. CASE ~ Found
      BY <2>4, <3>3 DEF Attempt
    <3> QED
      BY <3>1, <3>2, <3>3
  <2>5. UNCHANGED <<row, used>> => FALSE
    OBVIOUS
  <2> HIDE DEF Brings, Returns
  <2> QED
    BY <2>1, <2>2, <2>3, <2>4, <2>5
    DEF Next, Handle, SendCode, SendPasswordResetEmail, SendFind, Generate, Mail, VerifyFind,
        Fail, Expire, ChangeAccount
<1> QED
  BY <1>1, Invariance, PTL DEF Spec, UsedCodeReturnsOnlyByOverlap

-----------------------------------------------------------------------------
(* Who deletes a code.                                                      *)

\* As long as the row has not been written since a request decided to delete it,
\* it is the row the request accepted, or one without attempts left.
Rightful(q) ==
  ~ q.overtaken =>
    /\ q.pc = "accept" => q.entity = row
    /\ q.pc = "replace" => row.attempts >= MaxAttempts

Decided == \A r \in Request : Rightful(req[r])

LEMMA DecidedInit == Init => Decided
BY DEF Init, Idle, Decided, Rightful

\* A request moves on and leaves the row alone.
LEMMA DecidedMove ==
  ASSUME IInv, Decided, NEW r \in Request, NEW pc, NEW x, Move(r, pc, x), UNCHANGED row,
         pc = "accept" => x = row,
         pc = "replace" => row.attempts >= MaxAttempts
  PROVE  Decided'
<1> SUFFICES ASSUME NEW s \in Request
             PROVE  Rightful(req[s])'
  BY DEF Decided
<1>1. req \in [Request -> RequestState]
  BY DEF IInv, TypeOK
<1>2. CASE s = r
  <2>1. req'[s] = [pc |-> pc, entity |-> x, overtaken |-> FALSE]
    BY <1>1, <1>2 DEF Move
  <2> QED
    BY <2>1 DEF Rightful
<1>3. CASE s # r
  <2>1. req'[s] = req[s]
    BY <1>1, <1>3 DEF Move
  <2> QED
    BY <2>1 DEF Rightful, Decided
<1> QED
  BY <1>2, <1>3

\* A request writes the row and overtakes whoever is about to delete it.
LEMMA DecidedOvertaking ==
  ASSUME IInv, NEW r \in Request, NEW pc, NEW x, MoveOvertaking(r, pc, x),
         pc \notin {"accept", "replace"}
  PROVE  Decided'
<1> SUFFICES ASSUME NEW s \in Request, NEW q, q = req'[s], q.pc \in {"accept", "replace"}
             PROVE  q.overtaken
  BY DEF Decided, Rightful
<1>1. req[s] \in RequestState
  BY DEF IInv, TypeOK
<1>2. s # r
  BY DEF MoveOvertaking
<1>3. req[s].pc \in {"accept", "replace"} /\ q = [req[s] EXCEPT !.overtaken = TRUE]
  <2>1. q = req[s] \/ q = [req[s] EXCEPT !.overtaken = TRUE]
    BY <1>2 DEF MoveOvertaking
  <2>2. req[s].pc \in {"accept", "replace"}
    BY <1>1, <2>1 DEF RequestState
  <2> QED
    BY <1>2, <2>2 DEF MoveOvertaking
<1> QED
  BY <1>1, <1>3 DEF RequestState

LEMMA DecidedStep == IInv /\ Decided /\ [Next]_vars => Decided'
<1> SUFFICES ASSUME IInv, Decided, [Next]_vars
             PROVE  Decided'
  OBVIOUS
<1>0. row \in Row
  BY DEF IInv, TypeOK
<1>1. ASSUME NEW r \in Request, SendFind(r)
      PROVE  Decided'
  <2>1. PICK pc \in {"mail", "generate"} : Move(r, pc, row)
    BY <1>1 DEF SendFind
  <2> QED
    BY <1>1, <2>1, DecidedMove DEF SendFind
<1>2. ASSUME NEW r \in Request, Generate(r)
      PROVE  Decided'
  <2>1. PICK pc : /\ Move(r, pc, NoRow)
                  /\ pc = "insert" \/ (pc = "replace" /\ row.attempts >= MaxAttempts)
    BY <1>2 DEF Generate
  <2> QED
    BY <1>2, <2>1, DecidedMove DEF Generate
<1>3. ASSUME NEW r \in Request, NEW code, VerifyFind(r, code)
      PROVE  Decided'
  <2>1. CASE Valid(code)
    <3>1. Move(r, "accept", [row EXCEPT !.code = code]) /\ UNCHANGED row
      BY <1>3, <2>1 DEF VerifyFind
    <3>2. [row EXCEPT !.code = code] = row
      BY <1>0, <2>1 DEF Valid, Row
    <3> QED
      BY <3>1, <3>2, DecidedMove
  <2>2. CASE ~ Valid(code)
    <3>1. Move(r, "attempt", [row EXCEPT !.attempts = @ + 1]) /\ UNCHANGED row
      BY <1>3, <2>2 DEF VerifyFind
    <3> QED
      BY <3>1, DecidedMove
  <2> QED
    BY <2>1, <2>2
<1>4. ASSUME NEW r \in Request,
             Replace(r) \/ Insert(r) \/ InsertAgain(r) \/ Mail(r) \/ Accept(r) \/ Attempt(r) \/ Fail(r)
      PROVE  Decided'
  <2>1. \/ \E pc, x : MoveOvertaking(r, pc, x) /\ pc \in {"insert", "reinsert", "mail", "idle"}
        \/ Move(r, "idle", NoRow) /\ UNCHANGED row
    BY <1>4 DEF Replace, Insert, InsertAgain, Mail, Accept, Attempt, Fail, Finish
  <2> QED
    BY <2>1, DecidedMove, DecidedOvertaking
<1>5. CASE (\E code \in Code : Expire(code)) \/ ChangeAccount \/ UNCHANGED vars
  BY <1>5 DEF Expire, ChangeAccount, vars, Decided, Rightful
<1> QED
  BY <1>1, <1>2, <1>3, <1>4, <1>5 DEF Next, Handle, SendCode, SendPasswordResetEmail

Stays ==
  Found /\ row.code \in mailed /\ row'.code # row.code =>
    \/ row.code \in used'
    \/ row.attempts >= MaxAttempts
    \/ \E r \in Request : req[r].pc \in {"accept", "replace"} /\ req[r].overtaken

LEMMA StepStays == IInv /\ Decided /\ Next => Stays
<1> SUFFICES ASSUME IInv, Decided, Next, Found, row.code \in mailed, row'.code # row.code
             PROVE  \/ row.code \in used'
                    \/ row.attempts >= MaxAttempts
                    \/ \E r \in Request : req[r].pc \in {"accept", "replace"} /\ req[r].overtaken
  BY DEF Stays
<1>1. ASSUME NEW r \in Request, Attempt(r)
      PROVE  FALSE
  <2>1. row \in Row
    BY DEF IInv, TypeOK
  <2>2. UNCHANGED row \/ row' = [row EXCEPT !.attempts = req[r].entity.attempts]
    BY <1>1 DEF Attempt
  <2> QED
    BY <2>1, <2>2 DEF Row
<1>2. PICK r \in Request : Replace(r) \/ Accept(r)
  BY <1>1
  DEF Next, Handle, SendCode, SendPasswordResetEmail, SendFind, Generate, Insert, InsertAgain,
      Unique, Mail, VerifyFind, Fail, Expire, ChangeAccount
<1>3. Rightful(req[r])
  BY DEF Decided
<1>4. CASE req[r].overtaken
  BY <1>2, <1>4 DEF Replace, Accept, At
<1>5. CASE ~ req[r].overtaken /\ Replace(r)
  BY <1>3, <1>5 DEF Replace, At, Rightful
<1>6. CASE ~ req[r].overtaken /\ Accept(r)
  BY <1>3, <1>6 DEF Accept, At, Rightful
<1> QED
  BY <1>2, <1>4, <1>5, <1>6

\* However many requests overlap: no request for a code replaces one that was
\* mailed.  It goes when it has been used or its attempts are over, or by a delete
\* that was decided before the row was last written.
THEOREM MailedCodesStay == Spec => MailedCodeStays
<1>1. Init => IInv /\ Decided
  BY InitIInv, DecidedInit
<1>2. IInv /\ Decided /\ [Next]_vars => IInv' /\ Decided' /\ [Stays]_vars
  BY StepIInv, DecidedStep, StepStays
<1>3. Spec => [][Stays]_vars
  BY <1>1, <1>2, PTL DEF Spec
<1> QED
  BY <1>3 DEF MailedCodeStays, Stays
=============================================================================
