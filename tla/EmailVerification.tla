------------------------- MODULE EmailVerification -------------------------
(***************************************************************************)
(* The codes that prove that an address is the user's,                     *)
(* src/src/email/email.service.ts: one is mailed on request, and a         *)
(* verification uses it up (a registration asks for one, and the reset of  *)
(* a password).  An address is unique in the table, so one is enough.      *)
(*                                                                         *)
(* Which endpoint sends a code depends on whether an account has the       *)
(* address: the look-up of the account and that of the code are one step,  *)
(* since nothing else reads the one or depends on it.  The third endpoint, *)
(* /send-verification-email, sends to nobody: it refuses an address with   *)
(* an account, and the look-up throws without one.  No statement shares a  *)
(* transaction with another.                                               *)
(*                                                                         *)
(* A definition D_Variant is D with a plausible mistake; nothing uses it   *)
(* but the runs that show which property the mistake breaks.               *)
(***************************************************************************)
EXTENDS Integers

CONSTANTS
  MaxAttempts, \* email.service.ts: max_attempts
  Request,     \* slots for requests in flight
  MaxCodes,    \* bound: codes stored, numbered as they come
  MaxTries,    \* bound: the attempts counted for a code
  MaxFails     \* bound: statements and mails that fail

ASSUME EmailVerificationAssumption ==
  /\ MaxAttempts \in Nat \ {0}
  /\ MaxCodes \in Nat /\ MaxTries \in Nat \ {0} /\ MaxFails \in Nat

VARIABLES
  row,     \* email_verification: the row of the address
  made,    \* number of codes stored so far
  expired, \* codes whose three minutes are over
  mailed,  \* codes the user has been sent
  used,    \* history: codes a verification has accepted
  account, \* whether a user has the address
  req,     \* requests in flight
  fails    \* failures so far

vars == <<row, made, expired, mailed, used, account, req, fails>>

Code == 1 .. MaxCodes

\* A code the user makes up; the right one is not guessed.
Wrong == 0

\* code: 0 where there is no row; save: which of the two saves of its request
\* inserted the row, with the code it stands for the id.
Row == [code : Code \cup {0}, save : {1, 2}, attempts : 1 .. MaxTries]

NoRow == [code |-> 0, save |-> 1, attempts |-> 1]

\* entity: the row or the code the request works with; overtaken: history, the
\* row has been written since the request decided to delete it
RequestState ==
  [pc : {"idle", "generate", "replace", "insert", "reinsert", "mail", "accept", "attempt"},
   entity : Row, overtaken : BOOLEAN]

Idle == [pc |-> "idle", entity |-> NoRow, overtaken |-> FALSE]

Init ==
  /\ row = NoRow
  /\ made = 0
  /\ expired = {} /\ mailed = {} /\ used = {}
  /\ account \in BOOLEAN
  /\ req = [r \in Request |-> Idle]
  /\ fails = 0

-----------------------------------------------------------------------------
At(r, pc) == req[r].pc = pc

Move(r, pc, held) ==
  req' = [req EXCEPT ![r] = [pc |-> pc, entity |-> held, overtaken |-> FALSE]]

Finish(r) == Move(r, "idle", NoRow)

\* the move of a request that has written the row
MoveOvertaking(r, pc, held) ==
  req' = [s \in Request |->
            IF s = r THEN [pc |-> pc, entity |-> held, overtaken |-> FALSE]
            ELSE IF req[s].pc \in {"accept", "replace"} THEN [req[s] EXCEPT !.overtaken = TRUE]
            ELSE req[s]]

\* findOne({ where: { email } })
Found == row.code # 0

Unique_Upsert == TRUE

\* the unique index on the address
Unique == ~ Found

-----------------------------------------------------------------------------
(* Sending a code.                                                          *)

Reusable_Unexpired == Found /\ row.code \notin expired

Reusable == Found

\* sendVerificationEmail: a code there is is mailed again, expired or not.
SendFind(r) ==
  /\ At(r, "idle")
  /\ Move(r, IF Reusable THEN "mail" ELSE "generate", row)
  /\ UNCHANGED <<row, made, expired, mailed, used, account, fails>>

\* /send-code, for an address that is free to sign up with
SendCode(r) == ~ account /\ SendFind(r)

\* /send-password-reset-email
SendPasswordResetEmail(r) == account /\ SendFind(r)

\* generateVerificationCode looks again.
Generate(r) ==
  /\ At(r, "generate")
  /\ Move(r, IF Found /\ row.attempts >= MaxAttempts THEN "replace" ELSE "insert", NoRow)
  /\ UNCHANGED <<row, made, expired, mailed, used, account, fails>>

Replace(r) ==
  /\ At(r, "replace")
  /\ row' = NoRow
  /\ MoveOvertaking(r, "insert", NoRow)
  /\ UNCHANGED <<made, expired, mailed, used, account, fails>>

\* The save has no id and always inserts; if another row has the address, the
\* request ends with the error.
Insert(r) ==
  LET new == [code |-> made + 1, save |-> 1, attempts |-> 1]
  IN /\ At(r, "insert")
     /\ IF Unique
        THEN /\ made < MaxCodes
             /\ made' = made + 1
             /\ row' = new
             /\ MoveOvertaking(r, "reinsert", [new EXCEPT !.save = 2])
        ELSE /\ Finish(r)
             /\ UNCHANGED <<row, made>>
     /\ UNCHANGED <<expired, mailed, used, account, fails>>

\* sendVerificationEmail saves the generated code once more.
InsertAgain(r) ==
  /\ At(r, "reinsert")
  /\ IF Unique
     THEN /\ row' = req[r].entity
          /\ MoveOvertaking(r, "mail", req[r].entity)
     ELSE /\ Finish(r)
          /\ UNCHANGED row
  /\ UNCHANGED <<made, expired, mailed, used, account, fails>>

Mail(r) ==
  /\ At(r, "mail")
  /\ mailed' = mailed \cup {req[r].entity.code}
  /\ Finish(r)
  /\ UNCHANGED <<row, made, expired, used, account, fails>>

-----------------------------------------------------------------------------
(* Verifying one, for /verify-code and /reset-password.                     *)

Valid_AnyCode(code) == row.code \notin expired

Valid(code) == row.code = code /\ code \notin expired

\* Without a row the answer is no and nothing changes.
VerifyFind(r, code) ==
  /\ At(r, "idle")
  /\ Found
  /\ IF Valid(code)
     THEN Move(r, "accept", [row EXCEPT !.code = code])
     ELSE /\ row.attempts < MaxTries
          /\ Move(r, "attempt", [row EXCEPT !.attempts = @ + 1])
  /\ UNCHANGED <<row, made, expired, mailed, used, account, fails>>

AfterUse_Kept == row

AfterUse == NoRow

\* delete({ email }), whatever row it is now
Accept(r) ==
  /\ At(r, "accept")
  /\ row' = AfterUse
  /\ used' = used \cup {req[r].entity.code}
  /\ MoveOvertaking(r, "idle", NoRow)
  /\ UNCHANGED <<made, expired, mailed, account, fails>>

SameId(a, b) == a.code = b.code /\ a.save = b.save

\* save of the entity: an update of the row with its id; an insert if there is
\* none, which fails if another row has the address.
Attempt(r) ==
  /\ At(r, "attempt")
  /\ IF Found /\ ~ SameId(row, req[r].entity)
     THEN Finish(r) /\ UNCHANGED row
     ELSE /\ row' = IF Found THEN [row EXCEPT !.attempts = req[r].entity.attempts]
                    ELSE req[r].entity
          /\ MoveOvertaking(r, "idle", NoRow)
  /\ UNCHANGED <<made, expired, mailed, used, account, fails>>

-----------------------------------------------------------------------------
Expire(code) ==
  /\ code <= made /\ code \notin expired
  /\ expired' = expired \cup {code}
  /\ UNCHANGED <<row, made, mailed, used, account, req, fails>>

\* A sign-up, which asks for no code, or a deletion; a row that is deleted
\* softly is not found.
ChangeAccount ==
  /\ account' = ~ account
  /\ UNCHANGED <<row, made, expired, mailed, used, req, fails>>

\* A statement fails, or the mail, whose error is only logged.
Fail(r) ==
  /\ ~ At(r, "idle")
  /\ fails < MaxFails
  /\ fails' = fails + 1
  /\ Finish(r)
  /\ UNCHANGED <<row, made, expired, mailed, used, account>>

Handle(r) ==
  \/ Generate(r) \/ Replace(r) \/ Insert(r) \/ InsertAgain(r) \/ Mail(r)
  \/ Accept(r) \/ Attempt(r)

Next ==
  \/ \E r \in Request :
       \/ SendCode(r) \/ SendPasswordResetEmail(r)
       \/ \E code \in mailed \cup {Wrong} : VerifyFind(r, code)
       \/ Handle(r)
       \/ Fail(r)
  \/ \E code \in Code : Expire(code)
  \/ ChangeAccount

Spec == Init /\ [][Next]_vars

\* The server runs every handler on, and the user keeps asking for a code, at the
\* endpoint that serves the account as it is.
FairSpec ==
  /\ Spec
  /\ \A r \in Request :
       WF_vars(Handle(r)) /\ SF_vars(SendCode(r) \/ SendPasswordResetEmail(r))

-----------------------------------------------------------------------------
(* Properties.                                                              *)

\* Every variable has its type; only codes that were mailed are used, and only
\* codes that were stored are mailed.
TypeOK ==
  /\ row \in Row
  /\ made \in 0 .. MaxCodes
  /\ expired \subseteq 1 .. made
  /\ used \subseteq mailed /\ mailed \subseteq 1 .. made
  /\ account \in BOOLEAN
  /\ req \in [Request -> RequestState]
  /\ fails \in 0 .. MaxFails

Stored(code) == row.code = code

\* What brings a used code back is a request that held it when it was used: a
\* failed attempt that saves what it found, or the one that stored the code
\* and has its second insert to do.  No code verifies twice but where requests
\* overlap.
UsedCodeReturnsOnlyByOverlap ==
  [][\A code \in Code :
       /\ code \in used' /\ Stored(code)'
       /\ ~ (code \in used /\ Stored(code))
       => \E r \in Request :
            req[r].pc \in {"attempt", "reinsert"} /\ req[r].entity.code = code]_vars

\* A code that was mailed stays good until it is used or three attempts are
\* counted: a later request for a code never replaces it.  The exception is a
\* delete by address whose request had decided on it when the row was another
\* one, or had other attempts: the row was written in between.
MailedCodeStays ==
  [][Found /\ row.code \in mailed /\ row'.code # row.code =>
       \/ row.code \in used'
       \/ row.attempts >= MaxAttempts
       \/ \E r \in Request : req[r].pc \in {"accept", "replace"} /\ req[r].overtaken]_vars

\* The first request for a code fails after it has stored one, at the second
\* insert; a user who keeps asking is mailed that code.
StoredCodeIsMailed ==
  \A code \in Code : Stored(code) ~> (code \in mailed \/ ~ Stored(code))

=============================================================================
