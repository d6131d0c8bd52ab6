------------------------- MODULE MatchBookingProofs -------------------------
(***************************************************************************)
(* Theorems about MatchBooking for any teams, slots, fields, matches and   *)
(* number of acceptances at a time.                                        *)
(***************************************************************************)
EXTENDS MatchBooking, FiniteSetTheorems, TLAPS

\* An acceptance in flight has found a user for its token.
UserFound == \A r \in Request : req[r].pc = "save" => TokenUser(req[r].call) # NoTeam

\* The acceptances that are about to write a slot.
Taking(s) ==
  {r \in Request : /\ req[r].pc = "save"
                   /\ req[r].call.kind # "delete"
                   /\ req[r].call.slot = s}

BookedAt(s) == {m \in Booked : matches[m].slot = s}

\* A check passes only while a slot is free, so the matches in it and the
\* acceptances that passed are together no more than the slots for requests.
SlotFits(s) ==
  /\ IsFiniteSet(BookedAt(s))
  /\ Cardinality(BookedAt(s)) + Cardinality(Taking(s)) <= Cardinality(Request)

SlotsFit == \A s \in Slot : SlotFits(s)

IInv == TypeOK /\ UserFound /\ SlotsFit

-----------------------------------------------------------------------------
(* Types.                                                                   *)

LEMMA UnusedType == Unused \in MatchRow
BY BookingAssumption DEF Unused, MatchRow

LEMMA IdleType ==
  /\ Idle \in RequestState /\ Idle.pc = "idle"
  /\ Idle.call \in Call
<1>1. /\ Unused.slot \in Slot /\ Unused.field \in Field
      /\ Unused.home \in Team /\ Unused.away \in Team
  BY BookingAssumption DEF Unused
<1>2. (CHOOSE m \in Match : TRUE) \in Match
  BY BookingAssumption
<1>3. Idle.call \in Call
  BY <1>1, <1>2 DEF Idle, Call, Kind
<1> QED
  BY <1>3 DEF Idle, RequestState

\* What a token is good for are calls.
LEMMA CallsType ==
  ASSUME NEW t \in Team
  PROVE  Calls(t) \subseteq Call
<1>1. \A slot \in Slot, field \in Field, home, away \in Team :
        Creation(slot, field, home, away) \in Call
  BY IdleType DEF Creation, Call, Kind
<1>2. \A m \in Match, slot \in Slot : Move(m, slot) \in Call
  BY IdleType DEF Move, Call, Kind
<1>3. \A m \in Match : Deletion(t, m) \in Call
  BY IdleType DEF Deletion, Call, Kind
<1>4. \A sides \in Pairing : sides[1] \in Team /\ sides[2] \in Team
  BY BookingAssumption
<1> QED
  BY <1>1, <1>2, <1>3, <1>4 DEF Calls

LEMMA SendStep ==
  ASSUME TypeOK, NEW t \in Team, Send(t)
  PROVE  TypeOK'
BY DEF TypeOK, Send, Booked

LEMMA TypeStep == TypeOK /\ UserFound /\ [Next]_vars => TypeOK'
<1> SUFFICES ASSUME TypeOK, UserFound, [Next]_vars
             PROVE  TypeOK'
  OBVIOUS
<1>0. /\ matches \in [Match -> MatchRow]
      /\ recorded \in [Match -> {"nothing", "result", "players"}]
      /\ \A m \in Match : matches[m].state # "booked" => recorded[m] = "nothing"
      /\ tokens \subseteq Team
      /\ req \in [Request -> RequestState]
  BY DEF TypeOK, Booked
<1>fields. /\ \A m \in Match : /\ matches[m].slot \in Slot /\ matches[m].field \in Field
                               /\ matches[m].home \in Team /\ matches[m].away \in Team
           /\ \A r \in Request : req[r].call \in Call
           /\ \A call \in Call : /\ call.slot \in Slot /\ call.field \in Field
                                 /\ call.home \in Team /\ call.away \in Team
                                 /\ call.match \in Match /\ call.by \in Team
  BY <1>0 DEF MatchRow, RequestState, Call
<1>1. ASSUME NEW t \in Team, NEW slot \in Slot, NEW field \in Field,
             RequestCreMatch(t, slot, field)
      PROVE  TypeOK'
  BY <1>1, SendStep DEF RequestCreMatch
<1>2. ASSUME NEW t \in Team, NEW m \in Match, NEW slot \in Slot,
             RequestUptMatch(t, m, slot) \/ RequestDelMatch(t, m)
      PROVE  TypeOK'
  BY <1>2, SendStep DEF RequestUptMatch, RequestDelMatch
<1>3. ASSUME NEW t \in tokens, TokenExpires(t)
      PROVE  TypeOK'
  BY <1>0, <1>3 DEF TokenExpires, TypeOK, Booked
<1>4. ASSUME NEW t \in tokens, NEW r \in Request, NEW call \in Calls(t), Accept(r, call)
      PROVE  TypeOK'
  <2>1. [pc |-> "save", call |-> call] \in RequestState
    BY <1>0, CallsType DEF RequestState
  <2> QED
    BY <1>0, <1>4, <2>1 DEF Accept, TypeOK, Booked
<1>5. ASSUME NEW r \in Request, CreateMatch(r)
      PROVE  TypeOK'
  <2> DEFINE call == req[r].call
             row == [state |-> "booked", slot |-> call.slot, field |-> call.field,
                     home |-> call.home, away |-> call.away, owner |-> TokenUser(call)]
  <2>1. TokenUser(call) \in Team
    BY <1>5, <1>fields, BookingAssumption DEF CreateMatch, Saving, UserFound, TokenUser
  <2>2. row \in MatchRow
    BY <2>1, <1>fields DEF MatchRow
  <2>3. PICK m \in Match : matches' = [matches EXCEPT ![m] = row]
    BY <1>5 DEF CreateMatch
  <2>4. matches' \in [Match -> MatchRow] /\ matches'[m].state = "booked"
        /\ \A n \in Match \ {m} : matches'[n] = matches[n]
    BY <1>0, <2>2, <2>3
  <2>5. req' \in [Request -> RequestState] /\ tokens' = tokens /\ recorded' = recorded
    BY <1>0, <1>5, IdleType DEF CreateMatch, Saving
  <2> QED
    BY <1>0, <2>4, <2>5 DEF TypeOK, Booked
<1>6. ASSUME NEW r \in Request, UpdateMatch(r)
      PROVE  TypeOK'
  <2> DEFINE m == req[r].call.match
  <2>1. req' \in [Request -> RequestState] /\ tokens' = tokens /\ recorded' = recorded
    BY <1>0, <1>6, IdleType DEF UpdateMatch, Saving
  <2>2. CASE m \in Booked
    <3>1. matches' = [matches EXCEPT ![m].slot = req[r].call.slot]
      BY <1>6, <2>2 DEF UpdateMatch, Moved
    <3>2. [matches[m] EXCEPT !.slot = req[r].call.slot] \in MatchRow
      BY <1>0, <1>fields DEF MatchRow
    <3>3. [matches[m] EXCEPT !.slot = req[r].call.slot].state = matches[m].state
      BY <1>0, <1>fields DEF MatchRow
    <3>4. matches' \in [Match -> MatchRow]
          /\ \A n \in Match : matches'[n].state = matches[n].state
      BY <1>0, <1>fields, <3>1, <3>2, <3>3
    <3> QED
      BY <1>0, <2>1, <3>4 DEF TypeOK, Booked
  <2>3. CASE m \notin Booked
    BY <1>0, <1>6, <2>1, <2>3 DEF UpdateMatch, Moved, TypeOK, Booked
  <2> QED
    BY <2>2, <2>3
<1>7. ASSUME NEW r \in Request, DeleteMatch(r)
      PROVE  TypeOK'
  <2> DEFINE m == req[r].call.match
  <2>1. req' \in [Request -> RequestState] /\ tokens' = tokens /\ m \in Match
    BY <1>0, <1>7, <1>fields, IdleType DEF DeleteMatch, Saving
  <2>2. CASE recorded[m] = "players" \/ m \notin Booked
    <3>1. matches' = matches
      BY <1>7, <2>2 DEF DeleteMatch
    <3>2. recorded' = recorded
      BY <1>0, <1>7, <2>1, <2>2 DEF DeleteMatch, ResultsLeft, Booked
    <3> QED
      BY <1>0, <2>1, <3>1, <3>2 DEF TypeOK, Booked
  <2>3. CASE ~ (recorded[m] = "players" \/ m \notin Booked)
    <3>1. matches' = [matches EXCEPT ![m].state = "deleted"]
          /\ recorded' = [recorded EXCEPT ![m] = "nothing"]
      BY <1>7, <2>3 DEF DeleteMatch, ResultsLeft
    <3>2. [matches[m] EXCEPT !.state = "deleted"] \in MatchRow
      BY <1>0, <2>1 DEF MatchRow
    <3>3. matches' \in [Match -> MatchRow]
          /\ \A n \in Match \ {m} : matches'[n] = matches[n]
      BY <1>0, <2>1, <3>1, <3>2
    <3>4. recorded' \in [Match -> {"nothing", "result", "players"}]
          /\ recorded'[m] = "nothing"
          /\ \A n \in Match \ {m} : recorded'[n] = recorded[n]
      BY <1>0, <2>1, <3>1
    <3> QED
      BY <1>0, <2>1, <3>3, <3>4 DEF TypeOK, Booked
  <2> QED
    BY <2>2, <2>3
<1>8. ASSUME NEW m \in Match, NEW what \in {"result", "players"}, Record(m, what)
      PROVE  TypeOK'
  BY <1>0, <1>8 DEF Record, TypeOK, Booked
<1>9. CASE UNCHANGED vars
  BY <1>0, <1>9 DEF vars, TypeOK, Booked
<1> QED
  BY <1>1, <1>2, <1>3, <1>4, <1>5, <1>6, <1>7, <1>8, <1>9, BookingAssumption DEF Next

LEMMA UserFoundStep == TypeOK /\ UserFound /\ [Next]_vars => UserFound'
<1> SUFFICES ASSUME TypeOK, UserFound, [Next]_vars, NEW s \in Request, req'[s].pc = "save"
             PROVE  TokenUser(req'[s].call) # NoTeam
  BY DEF UserFound, TokenUser
<1>0. req \in [Request -> RequestState]
  BY DEF TypeOK
<1>1. ASSUME NEW t \in tokens, NEW r \in Request, NEW call \in Calls(t), Accept(r, call)
      PROVE  TokenUser(req'[s].call) # NoTeam
  <2>1. req' = [req EXCEPT ![r] = [pc |-> "save", call |-> call]] /\ TokenUser(call) # NoTeam
    BY <1>1 DEF Accept, Acceptable
  <2> QED
    BY <1>0, <2>1 DEF UserFound
<1>2. ASSUME NEW r \in Request, req' = [req EXCEPT ![r] = Idle]
      PROVE  TokenUser(req'[s].call) # NoTeam
  BY <1>0, <1>2, IdleType DEF UserFound
<1>3. ASSUME req' = req
      PROVE  TokenUser(req'[s].call) # NoTeam
  BY <1>3 DEF UserFound
<1> QED
  BY <1>1, <1>2, <1>3 DEF Next, vars, RequestCreMatch, RequestUptMatch, RequestDelMatch, Send,
     TokenExpires, CreateMatch, UpdateMatch, DeleteMatch, Saving, Record

-----------------------------------------------------------------------------
(* Matches and acceptances in a slot.                                       *)

\* Two sets that fit into a third one fit after they shrink, and if one is
\* empty; they fit after an element of one made room for one of the other.
LEMMA Shrinking ==
  ASSUME NEW R, IsFiniteSet(R), NEW B, IsFiniteSet(B), NEW T \in SUBSET R,
         Cardinality(B) + Cardinality(T) <= Cardinality(R),
         NEW B2, NEW T2,
         \/ B2 \subseteq B /\ T2 \subseteq T
         \/ B2 = {} /\ T2 \subseteq R
  PROVE  /\ IsFiniteSet(B2)
         /\ Cardinality(B2) + Cardinality(T2) <= Cardinality(R)
<1>0. /\ IsFiniteSet(T)
      /\ Cardinality(B) \in Nat /\ Cardinality(T) \in Nat /\ Cardinality(R) \in Nat
  BY FS_Subset, FS_CardinalityType
<1>1. CASE B2 \subseteq B /\ T2 \subseteq T
  <2>1. IsFiniteSet(B2) /\ Cardinality(B2) <= Cardinality(B)
    BY <1>1, FS_Subset
  <2>2. IsFiniteSet(T2) /\ Cardinality(T2) <= Cardinality(T)
    BY <1>0, <1>1, FS_Subset
  <2>3. Cardinality(B2) \in Nat /\ Cardinality(T2) \in Nat
    BY <2>1, <2>2, FS_CardinalityType
  <2> QED
    BY <1>0, <2>1, <2>2, <2>3
<1>2. CASE B2 = {} /\ T2 \subseteq R
  <2>1. IsFiniteSet(B2) /\ Cardinality(B2) = 0
    BY <1>2, FS_EmptySet
  <2>2. IsFiniteSet(T2) /\ Cardinality(T2) <= Cardinality(R)
    BY <1>2, FS_Subset
  <2>3. Cardinality(T2) \in Nat
    BY <2>2, FS_CardinalityType
  <2> QED
    BY <1>0, <2>1, <2>2, <2>3
<1> QED
  BY <1>1, <1>2

LEMMA Trading ==
  ASSUME NEW R, IsFiniteSet(R), NEW B, IsFiniteSet(B), NEW T \in SUBSET R,
         Cardinality(B) + Cardinality(T) <= Cardinality(R),
         NEW B2, NEW T2, NEW r \in T, NEW m,
         B2 \subseteq B \cup {m}, T2 \subseteq T \ {r}
  PROVE  /\ IsFiniteSet(B2)
         /\ Cardinality(B2) + Cardinality(T2) <= Cardinality(R)
<1>0. /\ IsFiniteSet(T)
      /\ Cardinality(B) \in Nat /\ Cardinality(T) \in Nat /\ Cardinality(R) \in Nat
  BY FS_Subset, FS_CardinalityType
<1>1. IsFiniteSet(T \ {r}) /\ Cardinality(T \ {r}) = Cardinality(T) - 1
  BY <1>0, FS_RemoveElement
<1>2. IsFiniteSet(T2) /\ Cardinality(T2) <= Cardinality(T \ {r})
  BY <1>1, FS_Subset
<1>3. Cardinality(T2) \in Nat
  BY <1>2, FS_CardinalityType
<1>4. CASE m \in B
  <2>1. B2 \subseteq B
    BY <1>4
  <2>2. IsFiniteSet(B2) /\ Cardinality(B2) <= Cardinality(B)
    BY <2>1, FS_Subset
  <2>3. Cardinality(B2) \in Nat
    BY <2>2, FS_CardinalityType
  <2> QED
    BY <1>0, <1>1, <1>2, <1>3, <2>2, <2>3
<1>5. CASE m \notin B
  <2>1. IsFiniteSet(B \cup {m}) /\ Cardinality(B \cup {m}) = Cardinality(B) + 1
    BY <1>5, FS_AddElement
  <2>2. IsFiniteSet(B2) /\ Cardinality(B2) <= Cardinality(B \cup {m})
    BY <2>1, FS_Subset
  <2>3. Cardinality(B2) \in Nat
    BY <2>2, FS_CardinalityType
  <2> QED
    BY <1>0, <1>1, <1>2, <1>3, <2>1, <2>2, <2>3
<1> QED
  BY <1>4, <1>5

\* What one acceptance's step does to every slot.
LEMMA SlotsFitStep == TypeOK /\ SlotsFit /\ [Next]_vars => SlotsFit'
<1> SUFFICES ASSUME TypeOK, SlotsFit, [Next]_vars, NEW s \in Slot
             PROVE  SlotFits(s)'
  BY DEF SlotsFit, SlotFits, BookedAt, Taking, Booked
<1> DEFINE B == BookedAt(s)
           T == Taking(s)
           Goal == \/ B' \subseteq B /\ T' \subseteq T
                   \/ \E r \in T : \E m : B' \subseteq B \cup {m} /\ T' \subseteq T \ {r}
                   \/ B' = {} /\ T' \subseteq Request
<1>0. /\ matches \in [Match -> MatchRow]
      /\ req \in [Request -> RequestState]
  BY DEF TypeOK
<1>1. SUFFICES Goal
  <2>1. IsFiniteSet(B) /\ Cardinality(B) + Cardinality(T) <= Cardinality(Request)
    BY DEF SlotsFit, SlotFits
  <2>2. T \in SUBSET Request
    BY DEF Taking
  <2>3. IsFiniteSet(B') /\ Cardinality(B') + Cardinality(T') <= Cardinality(Request)
    <3>1. CASE \E r \in T : \E m : B' \subseteq B \cup {m} /\ T' \subseteq T \ {r}
      <4>1. PICK r \in T : \E m : B' \subseteq B \cup {m} /\ T' \subseteq T \ {r}
        BY <3>1
      <4>2. PICK m : B' \subseteq B \cup {m} /\ T' \subseteq T \ {r}
        BY <4>1
      <4> HIDE DEF B, T
      <4> QED
        BY <2>1, <2>2, <4>2, Trading, RequestAssumption
    <3>2. CASE \/ B' \subseteq B /\ T' \subseteq T
               \/ B' = {} /\ T' \subseteq Request
      <4> HIDE DEF B, T
      <4> QED
        BY <2>1, <2>2, <3>2, Shrinking, RequestAssumption
    <3> QED
      BY <1>1, <3>1, <3>2
  <2> QED
    BY <2>3 DEF SlotFits
<1>2. ASSUME matches' = matches, req' = req
      PROVE  Goal
  BY <1>2 DEF BookedAt, Taking, Booked
<1>3. ASSUME NEW t \in tokens, NEW r \in Request, NEW call \in Calls(t), Accept(r, call)
      PROVE  Goal
  <2>1. /\ req' = [req EXCEPT ![r] = [pc |-> "save", call |-> call]]
        /\ matches' = matches
    BY <1>3 DEF Accept
  <2>2. B' = B
    BY <2>1 DEF BookedAt, Booked
  <2>3. CASE call.kind # "delete" /\ call.slot = s
    <3>1. ~ SlotTaken(s, call.field)
      BY <1>3, <2>3 DEF Accept, Acceptable
    <3>2. B = {}
      BY <3>1 DEF BookedAt, SlotTaken
    <3> QED
      BY <2>2, <3>2 DEF Taking
  <2>4. CASE ~ (call.kind # "delete" /\ call.slot = s)
    <3>1. T' \subseteq T
      BY <1>0, <2>1, <2>4 DEF Taking
    <3> QED
      BY <2>2, <3>1
  <2> QED
    BY <2>3, <2>4
<1>4. ASSUME NEW r \in Request, req' = [req EXCEPT ![r] = Idle]
      PROVE  T' \subseteq T \ {r}
  BY <1>0, <1>4, IdleType DEF Taking
<1>5. ASSUME NEW r \in Request, CreateMatch(r)
      PROVE  Goal
  <2>1. T' \subseteq T \ {r}
    BY <1>4, <1>5 DEF CreateMatch, Saving
  <2>2. PICK m \in Match :
          matches' = [matches EXCEPT ![m] =
            [state |-> "booked", slot |-> req[r].call.slot, field |-> req[r].call.field,
             home |-> req[r].call.home, away |-> req[r].call.away,
             owner |-> TokenUser(req[r].call)]]
    BY <1>5 DEF CreateMatch
  <2>3. CASE req[r].call.slot = s
    <3>1. r \in T
      BY <1>5, <2>3 DEF CreateMatch, Saving, Taking
    <3>2. B' \subseteq B \cup {m}
      BY <1>0, <2>2 DEF BookedAt, Booked
    <3> QED
      BY <2>1, <3>1, <3>2
  <2>4. CASE req[r].call.slot # s
    <3>1. B' \subseteq B
      BY <1>0, <2>2, <2>4 DEF BookedAt, Booked
    <3> QED
      BY <2>1, <3>1
  <2> QED
    BY <2>3, <2>4
<1>6. ASSUME NEW r \in Request, UpdateMatch(r)
      PROVE  Goal
  <2> DEFINE m == req[r].call.match
  <2>1. T' \subseteq T \ {r}
    BY <1>4, <1>6 DEF UpdateMatch, Saving
  <2>2. CASE m \notin Booked
    <3>1. matches' = matches
      BY <1>6, <2>2 DEF UpdateMatch, Moved
    <3>2. B' = B
      BY <3>1 DEF BookedAt, Booked
    <3> QED
      BY <2>1, <3>2
  <2>3. CASE m \in Booked
    <3>1. matches' = [matches EXCEPT ![m].slot = req[r].call.slot]
      BY <1>6, <2>3 DEF UpdateMatch, Moved
    <3>2. /\ \A n \in Match \ {m} : matches'[n] = matches[n]
          /\ matches'[m].slot = req[r].call.slot
      BY <1>0, <2>3, <3>1 DEF Booked, MatchRow
    <3>3. CASE req[r].call.slot = s
      <4>1. r \in T
        BY <1>6, <3>3 DEF UpdateMatch, Saving, Taking
      <4>2. B' \subseteq B \cup {m}
        BY <3>2 DEF BookedAt, Booked
      <4> QED
        BY <2>1, <4>1, <4>2
    <3>4. CASE req[r].call.slot # s
      <4>1. B' \subseteq B
        BY <3>2, <3>4 DEF BookedAt, Booked
      <4> QED
        BY <2>1, <4>1
    <3> QED
      BY <3>3, <3>4
  <2> QED
    BY <2>2, <2>3
<1>7. ASSUME NEW r \in Request, DeleteMatch(r)
      PROVE  Goal
  <2> DEFINE m == req[r].call.match
  <2>1. T' \subseteq T \ {r}
    BY <1>4, <1>7 DEF DeleteMatch, Saving
  <2>2. matches' = matches \/ matches' = [matches EXCEPT ![m].state = "deleted"]
    BY <1>7 DEF DeleteMatch
  <2>3. B' \subseteq B
    BY <1>0, <2>2 DEF BookedAt, Booked, MatchRow
  <2> QED
    BY <2>1, <2>3
<1>8. ASSUME NEW t \in Team, NEW slot \in Slot, NEW field \in Field,
             RequestCreMatch(t, slot, field)
      PROVE  Goal
  BY <1>2, <1>8 DEF RequestCreMatch, Send
<1>9. ASSUME NEW t \in Team, NEW m \in Match, NEW slot \in Slot,
             RequestUptMatch(t, m, slot) \/ RequestDelMatch(t, m)
      PROVE  Goal
  BY <1>2, <1>9 DEF RequestUptMatch, RequestDelMatch, Send
<1>10. ASSUME NEW t \in tokens, TokenExpires(t)
       PROVE  Goal
  BY <1>2, <1>10 DEF TokenExpires
<1>11. ASSUME NEW m \in Match, NEW what \in {"result", "players"}, Record(m, what)
       PROVE  Goal
  BY <1>2, <1>11 DEF Record
<1>12. ASSUME UNCHANGED vars
       PROVE  Goal
  BY <1>2, <1>12 DEF vars
<1> HIDE DEF Goal
<1> QED
  BY <1>3, <1>5, <1>6, <1>7, <1>8, <1>9, <1>10, <1>11, <1>12, BookingAssumption DEF Next

LEMMA InitIInv == Init => IInv
<1> SUFFICES ASSUME Init PROVE IInv
  OBVIOUS
<1>1. TypeOK
  BY UnusedType, IdleType DEF Init, TypeOK, Booked
<1>2. UserFound
  BY IdleType DEF Init, UserFound
<1>3. ASSUME NEW s \in Slot
      PROVE  SlotFits(s)
  <2>1. BookedAt(s) = {} /\ Taking(s) = {}
    BY IdleType DEF Init, BookedAt, Booked, Taking, Unused
  <2>2. /\ IsFiniteSet({}) /\ Cardinality({}) = 0
        /\ Cardinality(Request) \in Nat
    BY FS_EmptySet, FS_CardinalityType, RequestAssumption
  <2> QED
    BY <2>1, <2>2 DEF SlotFits
<1> QED
  BY <1>1, <1>2, <1>3 DEF IInv, SlotsFit

-----------------------------------------------------------------------------
(* The theorems.                                                            *)

\* What every theorem about reachable states rests on: the types, a user for
\* every acceptance in flight, and the room left in every slot.
THEOREM Invariance == Spec => []IInv
<1>1. IInv /\ [Next]_vars => IInv'
  BY TypeStep, UserFoundStep, SlotsFitStep DEF IInv
<1> QED
  BY InitIInv, <1>1, PTL DEF Spec

\* Every variable has its type, and only a match that exists has records.
THEOREM TypeCorrect == Spec => []TypeOK
<1>1. IInv => TypeOK
  BY DEF IInv
<1> QED
  BY Invariance, <1>1, PTL

\* A slot holds no more matches than acceptances can run at a time, and what is
\* shown as taken is refused, for any number of teams, fields and matches.
THEOREM RacesBoundSlots == Spec => []SlotSharedOnlyByRace
<1>1. IInv => SlotSharedOnlyByRace
  <2> SUFFICES ASSUME IInv, NEW s \in Slot
               PROVE  Cardinality(BookedAt(s)) <= Cardinality(Request)
    BY DEF SlotSharedOnlyByRace, BookedAt, findAvailableTimes, SlotTaken
  <2>1. /\ IsFiniteSet(BookedAt(s))
        /\ Cardinality(BookedAt(s)) + Cardinality(Taking(s)) <= Cardinality(Request)
    BY DEF IInv, SlotsFit, SlotFits
  <2>2. IsFiniteSet(Taking(s))
    <3>1. Taking(s) \subseteq Request
      BY DEF Taking
    <3> QED
      BY <3>1, FS_Subset, RequestAssumption
  <2>3. /\ Cardinality(BookedAt(s)) \in Nat /\ Cardinality(Taking(s)) \in Nat
        /\ Cardinality(Request) \in Nat
    BY <2>1, <2>2, FS_CardinalityType, RequestAssumption
  <2> QED
    BY <2>1, <2>3
<1> QED
  BY Invariance, <1>1, PTL

-----------------------------------------------------------------------------
(* What no step does.                                                       *)

LEMMA RecordsStep ==
  ASSUME TypeOK, [Next]_vars, NEW m \in Match, recorded'[m] # recorded[m]
  PROVE  /\ recorded[m] # "players"
         /\ recorded'[m] = "nothing" => matches'[m].state = "deleted"
<1>0. /\ matches \in [Match -> MatchRow]
      /\ recorded \in [Match -> {"nothing", "result", "players"}]
      /\ m \notin Booked => recorded[m] = "nothing"
  BY DEF TypeOK
<1>1. CASE recorded' = recorded
  BY <1>1
<1>2. ASSUME NEW r \in Request, DeleteMatch(r)
      PROVE  /\ recorded[m] # "players"
             /\ recorded'[m] = "nothing" => matches'[m].state = "deleted"
  <2>1. recorded' = ResultsLeft(req[r].call.match)
    BY <1>2 DEF DeleteMatch
  <2>2. req[r].call.match = m /\ recorded[m] # "players"
    BY <1>0, <2>1 DEF ResultsLeft
  <2>3. m \in Booked
    BY <1>0, <2>1, <2>2 DEF ResultsLeft
  <2>4. matches' = [matches EXCEPT ![m].state = "deleted"]
    BY <1>2, <2>2, <2>3 DEF DeleteMatch
  <2>5. matches'[m].state = "deleted"
    BY <1>0, <2>4 DEF MatchRow
  <2> QED
    BY <2>2, <2>5
<1>3. ASSUME NEW n \in Match, NEW what \in {"result", "players"}, Record(n, what)
      PROVE  /\ recorded[m] # "players"
             /\ recorded'[m] = "nothing" => matches'[m].state = "deleted"
  BY <1>0, <1>3 DEF Record
<1> QED
  BY <1>1, <1>2, <1>3 DEF Next, vars, RequestCreMatch, RequestUptMatch, RequestDelMatch, Send,
     TokenExpires, Accept, CreateMatch, UpdateMatch

LEMMA DeletedStep ==
  ASSUME TypeOK, TypeOK', [Next]_vars, NEW m \in Match, matches[m].state = "deleted"
  PROVE  matches'[m].state = "deleted" /\ recorded'[m] = "nothing"
<1>0. matches \in [Match -> MatchRow] /\ m \notin Booked
  BY DEF TypeOK, Booked
<1>1. matches'[m].state = "deleted"
  <2>1. CASE matches' = matches
    BY <2>1
  <2>2. ASSUME NEW r \in Request, CreateMatch(r)
        PROVE  matches'[m].state = "deleted"
    <3>1. PICK n \in Match :
            /\ matches[n].state = "unused"
            /\ \A k \in Match \ {n} : matches'[k] = matches[k]
      BY <1>0, <2>2 DEF CreateMatch
    <3>2. n # m
      BY <3>1
    <3> QED
      BY <3>1, <3>2
  <2>3. ASSUME NEW r \in Request, UpdateMatch(r) \/ DeleteMatch(r)
        PROVE  matches'[m].state = "deleted"
    <3> DEFINE n == req[r].call.match
    <3>1. CASE n = m
      BY <1>0, <2>1, <2>3, <3>1 DEF UpdateMatch, Moved, DeleteMatch
    <3>2. CASE n # m
      <4>1. \/ matches' = matches
            \/ matches' = [matches EXCEPT ![n].slot = req[r].call.slot]
            \/ matches' = [matches EXCEPT ![n].state = "deleted"]
        BY <2>3 DEF UpdateMatch, Moved, DeleteMatch
      <4>2. matches'[m] = matches[m]
        BY <1>0, <3>2, <4>1
      <4> QED
        BY <4>2
    <3> QED
      BY <3>1, <3>2
  <2> QED
    BY <2>1, <2>2, <2>3 DEF Next, vars, RequestCreMatch, RequestUptMatch, RequestDelMatch, Send,
       TokenExpires, Accept, Record
<1>2. recorded'[m] = "nothing"
  BY <1>1 DEF TypeOK, Booked
<1> QED
  BY <1>1, <1>2

\* What is recorded for a match goes only in the step that deletes the match,
\* and player records keep the match.
THEOREM RecordsFollowMatch == Spec => RecordsGoWithMatch
<1>1. TypeOK /\ [Next]_vars =>
        [\A m \in Match : recorded'[m] # recorded[m] =>
           /\ recorded[m] # "players"
           /\ recorded'[m] = "nothing" => matches'[m].state = "deleted"]_vars
  BY RecordsStep
<1> QED
  BY TypeCorrect, <1>1, PTL DEF Spec, RecordsGoWithMatch

\* A deleted match stays deleted and without records, whatever mails about it
\* are followed later.
THEOREM DeletionIsFinal == Spec => DeletedStaysDeleted
<1>1. TypeOK /\ TypeOK' /\ [Next]_vars =>
        [\A m \in Match : matches[m].state = "deleted" =>
           matches'[m].state = "deleted" /\ recorded'[m] = "nothing"]_vars
  BY DeletedStep
<1> QED
  BY TypeCorrect, <1>1, PTL DEF Spec, DeletedStaysDeleted

=============================================================================
