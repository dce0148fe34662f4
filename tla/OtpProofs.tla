----------------------------- MODULE OtpProofs -----------------------------
(***************************************************************************)
(* Proofs about OtpCode.tla, for any limits and any finite set of          *)
(* handlers.                                                               *)
(***************************************************************************)
EXTENDS OtpCode, FiniteSetTheorems, TLAPS

-----------------------------------------------------------------------------
(* Types.                                                                  *)

\* The bounds are naturals.
LEMMA Limits ==
    /\ MaxResends \in Nat /\ MaxCodes \in Nat /\ MaxCrashes \in Nat
    /\ MaxAttempts \in Nat /\ HourlyMax \in Nat
BY OtpAssumption

\* Init establishes the types.
LEMMA InitType == Init => TypeOK
BY Limits DEF Init, TypeOK, RequestsOK, StoreOK, NoKey, Key, Request, Idle, NoCode, Codes, Steps

\* A handler that goes on without having compared a code keeps the types.
LEMMA GotoType ==
    ASSUME RequestsOK, NEW h \in Handlers, NEW s \in Steps \ {"accept", "count"},
           Goto(h, s), issued' = issued
    PROVE  RequestsOK'
BY DEF RequestsOK, Goto, Request

\* A handler that ends keeps the types.
LEMMA FinishType ==
    ASSUME RequestsOK, NEW h \in Handlers, Finish(h), issued' = issued, issued \in Nat
    PROVE  RequestsOK'
BY Limits DEF RequestsOK, Finish, Idle, Request, Steps, NoCode

\* Reading the hash for an issue keeps the types.
LEMMA ReadForIssueType ==
    ASSUME TypeOK, NEW h \in Handlers, ReadForIssue(h)
    PROVE  TypeOK'
<1>1. StoreOK'
  BY DEF ReadForIssue, TypeOK, StoreOK
<1>2. RequestsOK'
  <2>1. CASE Finish(h)
    BY <2>1, FinishType DEF ReadForIssue, TypeOK, StoreOK
  <2>2. CASE ~Finish(h)
    BY <2>2, Limits DEF ReadForIssue, TypeOK, RequestsOK, StoreOK, Key, Steps, Request
  <2> QED
    BY <2>1, <2>2
<1> QED
  BY <1>1, <1>2 DEF TypeOK

\* Storing a code keeps the types.
LEMMA StoreCodeType ==
    ASSUME TypeOK, NEW h \in Handlers, StoreCode(h)
    PROVE  TypeOK'
<1>1. issued + 1 \in Codes /\ issued \in Nat
  BY Limits DEF StoreCode, TypeOK, StoreOK, Codes
<1>2. StoreOK'
  BY <1>1, Limits DEF StoreCode, Stored, TypeOK, StoreOK, RequestsOK, Key, Request, Codes
<1>3. RequestsOK'
  BY <1>1, Limits DEF StoreCode, TypeOK, RequestsOK, Request, Goto, Steps, Codes, NoCode
<1> QED
  BY <1>2, <1>3 DEF TypeOK

\* Comparing a code keeps the types.
LEMMA ReadForVerifyType ==
    ASSUME TypeOK, NEW h \in Handlers, NEW right \in BOOLEAN, ReadForVerify(h, right)
    PROVE  TypeOK'
<1>1. key.code \in Codes /\ issued' = issued /\ key.code <= issued
  BY DEF ReadForVerify, TypeOK, StoreOK, Key
<1>2. StoreOK'
  <2>1. guesses' = guesses \/ guesses' = [guesses EXCEPT ![key.code] = @ + 1]
    BY DEF ReadForVerify
  <2>2. /\ guesses' \in [Codes -> Nat]
        /\ \A c \in Codes : c > issued => guesses'[c] = 0
    <3>1. CASE guesses' = guesses
      BY <3>1 DEF TypeOK, StoreOK
    <3>2. CASE guesses' = [guesses EXCEPT ![key.code] = @ + 1]
      BY <1>1, <3>2, Limits DEF TypeOK, StoreOK, Codes
    <3> QED
      BY <2>1, <3>1, <3>2
  <2> QED
    BY <1>1, <2>2 DEF ReadForVerify, TypeOK, StoreOK
<1>3. RequestsOK'
  <2>1. CASE Goto(h, "drop")
    BY <1>1, <2>1, GotoType DEF TypeOK, Steps
  <2>2. CASE ~Goto(h, "drop")
    <3>1. PICK s \in {"accept", "count"} :
             req' = [req EXCEPT ![h].pc = s, ![h].code = key.code]
      BY <2>2 DEF ReadForVerify
    <3> QED
      BY <1>1, <3>1 DEF TypeOK, RequestsOK, Request, Steps
  <2> QED
    BY <2>1, <2>2
<1> QED
  BY <1>2, <1>3 DEF TypeOK

\* Every other step of one handler keeps the types.
LEMMA HandlerType ==
    ASSUME TypeOK, NEW h \in Handlers,
           \/ AssertHourlyLimit(h) \/ SetTtl(h) \/ Send(h) \/ RecordDelivery(h)
           \/ Accept(h) \/ CountAttempt(h) \/ ReadAttempts(h) \/ Drop(h) \/ Die(h)
    PROVE  TypeOK'
<1>1. issued' = issued /\ issued \in Nat
  BY DEF TypeOK, StoreOK, AssertHourlyLimit, SetTtl, Send, RecordDelivery, Accept,
     CountAttempt, ReadAttempts, Drop, Die
<1>2. RequestsOK'
  <2>1. \/ Finish(h)
        \/ \E s \in {"readForIssue", "send", "record", "readAttempts", "drop"} : Goto(h, s)
    BY DEF AssertHourlyLimit, SetTtl, Send, RecordDelivery, Accept, CountAttempt,
       ReadAttempts, Drop, Die
  <2>2. CASE Finish(h)
    BY <1>1, <2>2, FinishType DEF TypeOK
  <2>3. ASSUME NEW s \in {"readForIssue", "send", "record", "readAttempts", "drop"}, Goto(h, s)
        PROVE  RequestsOK'
    BY <1>1, <2>3, GotoType DEF TypeOK, Steps
  <2> QED
    BY <2>1, <2>2, <2>3
<1>3. StoreOK'
  <2> USE Limits DEF TypeOK, StoreOK, Key
  <2>1. CASE AssertHourlyLimit(h) \/ Send(h) \/ RecordDelivery(h) \/ ReadAttempts(h)
    BY <2>1 DEF AssertHourlyLimit, Send, RecordDelivery, ReadAttempts
  <2>2. CASE SetTtl(h) \/ CountAttempt(h)
    BY <2>2 DEF SetTtl, CountAttempt
  <2>3. CASE Accept(h)
    <3>1. req[h].code \in 1 .. issued
      BY <2>3 DEF Accept, RequestsOK, Request, Codes, NoCode
    <3> QED
      BY <2>3, <3>1 DEF Accept, NoKey, NoCode
  <2>4. CASE Drop(h)
    BY <2>4 DEF Drop, NoKey, NoCode
  <2>5. CASE Die(h)
    BY <2>5 DEF Die
  <2> QED
    BY <2>1, <2>2, <2>3, <2>4, <2>5
<1> QED
  BY <1>2, <1>3 DEF TypeOK

\* Every step keeps the types.
LEMMA NextType == TypeOK /\ [Next]_vars => TypeOK'
<1> SUFFICES ASSUME TypeOK, [Next]_vars PROVE TypeOK'
  OBVIOUS
<1>1. ASSUME \/ InvalidateIdentifiers \/ CooldownEnds \/ KeyExpires \/ DeliveryAges
             \/ UNCHANGED vars
      PROVE  TypeOK'
  <2>1. RequestsOK'
    BY <1>1 DEF TypeOK, RequestsOK, InvalidateIdentifiers, CooldownEnds, KeyExpires,
       DeliveryAges, vars
  <2>2. StoreOK'
    <3> USE Limits DEF TypeOK, StoreOK, Key, NoKey, NoCode
    <3>1. CASE InvalidateIdentifiers
      BY <3>1 DEF InvalidateIdentifiers
    <3>2. CASE KeyExpires
      BY <3>2 DEF KeyExpires
    <3>3. CASE CooldownEnds
      BY <3>3 DEF CooldownEnds
    <3>4. CASE DeliveryAges
      BY <3>4 DEF DeliveryAges
    <3>5. CASE UNCHANGED vars
      BY <3>5 DEF vars
    <3> QED
      BY <1>1, <3>1, <3>2, <3>3, <3>4, <3>5
  <2> QED
    BY <2>1, <2>2 DEF TypeOK
<1> QED
  BY <1>1, ReadForIssueType, StoreCodeType, ReadForVerifyType, HandlerType DEF Next

\* The types hold throughout, however the requests of an identifier overlap.
THEOREM TypeCorrect == Spec => []TypeOK
BY InitType, NextType, PTL DEF Spec

-----------------------------------------------------------------------------
(* Codes and their keys.                                                   *)

\* Only StoreCode puts another code into the hash, only SetTtl and StoreCode touch
\* the TTL of a key that stays, and only Accept accepts.
LEMMA KeyMoves ==
    ASSUME TypeOK, [Next]_vars, \A h \in Handlers : ~StoreCode(h)
    PROVE  /\ key'.code \in {key.code, NoCode}
           /\ accepted' = accepted \/ (key' = NoKey /\ accepted' \subseteq accepted \cup Codes)
           /\ \/ key'.code = NoCode
              \/ key'.ttl = key.ttl
              \/ key'.ttl = "fresh"
<1> USE DEF TypeOK, StoreOK, Key, NoKey, NoCode
<1>1. ASSUME NEW h \in Handlers,
             \/ AssertHourlyLimit(h) \/ ReadForIssue(h) \/ Send(h) \/ RecordDelivery(h)
             \/ ReadAttempts(h) \/ Die(h) \/ \E right \in BOOLEAN : ReadForVerify(h, right)
      PROVE  key' = key /\ accepted' = accepted
  BY <1>1 DEF AssertHourlyLimit, ReadForIssue, Send, RecordDelivery, ReadAttempts, Die,
     ReadForVerify
<1>2. ASSUME NEW h \in Handlers, SetTtl(h)
      PROVE  accepted' = accepted /\ key'.code = key.code /\ key'.ttl \in {key.ttl, "fresh"}
  BY <1>2 DEF SetTtl
<1>3. ASSUME NEW h \in Handlers, CountAttempt(h)
      PROVE  accepted' = accepted /\ key'.code = key.code /\ key'.ttl = key.ttl
  BY <1>3 DEF CountAttempt
<1>4. ASSUME NEW h \in Handlers, Accept(h)
      PROVE  key' = NoKey /\ accepted' \subseteq accepted \cup Codes
  BY <1>4 DEF Accept, RequestsOK
<1>5. ASSUME NEW h \in Handlers, Drop(h)
      PROVE  key' = NoKey /\ accepted' = accepted
  BY <1>5 DEF Drop
<1>6. CASE InvalidateIdentifiers \/ KeyExpires
  BY <1>6 DEF InvalidateIdentifiers, KeyExpires
<1>7. CASE CooldownEnds
  BY <1>7 DEF CooldownEnds
<1>8. CASE DeliveryAges \/ UNCHANGED vars
  BY <1>8 DEF DeliveryAges, vars
<1> QED
  BY <1>1, <1>2, <1>3, <1>4, <1>5, <1>6, <1>7, <1>8 DEF Next

\* A code that was accepted is gone from Redis for good: a later verification
\* cannot accept it (otp.service.ts:171).
THEOREM AcceptedOnce == Spec => []AcceptedIsSpent
<1>1. Init => AcceptedIsSpent
  BY DEF Init, AcceptedIsSpent
<1>2. TypeOK /\ AcceptedIsSpent /\ [Next]_vars => AcceptedIsSpent'
  <2> SUFFICES ASSUME TypeOK, AcceptedIsSpent, [Next]_vars PROVE AcceptedIsSpent'
    OBVIOUS
  <2>1. 0 \notin accepted /\ issued + 1 \notin accepted
    BY DEF TypeOK, StoreOK
  <2>2. ASSUME NEW h \in Handlers, StoreCode(h) PROVE AcceptedIsSpent'
    BY <2>1, <2>2 DEF StoreCode, Stored, AcceptedIsSpent
  <2>3. CASE \A h \in Handlers : ~StoreCode(h)
    BY <2>1, <2>3, KeyMoves DEF AcceptedIsSpent, NoKey, NoCode, Codes
  <2> QED
    BY <2>2, <2>3
<1> QED
  BY <1>1, <1>2, TypeCorrect, PTL DEF Spec

\* A handler about to set the TTL sets it, or dies and is counted.
LEMMA ExpireMoves ==
    ASSUME TypeOK, [Next]_vars, NEW h \in Handlers, req[h].pc = "expire"
    PROVE  \/ req'[h].pc = "expire"
           \/ key'.code = NoCode \/ key'.ttl = "fresh"
           \/ crashes' > 0
<1> USE DEF TypeOK, RequestsOK, StoreOK, Key, NoKey, NoCode, Goto, Finish
<1>1. ASSUME NEW g \in Handlers, g # h, \A i \in Handlers \ {g} : req'[i] = req[i]
      PROVE  req'[h].pc = "expire"
  BY <1>1
<1>2. CASE SetTtl(h)
  BY <1>2 DEF SetTtl, Exists
<1>3. CASE Die(h)
  BY <1>3 DEF Die
<1>4. ASSUME NEW g \in Handlers, g # h,
             \/ AssertHourlyLimit(g) \/ ReadForIssue(g) \/ StoreCode(g) \/ SetTtl(g)
             \/ Send(g) \/ RecordDelivery(g) \/ Accept(g) \/ CountAttempt(g)
             \/ ReadAttempts(g) \/ Drop(g) \/ Die(g)
             \/ \E right \in BOOLEAN : ReadForVerify(g, right)
      PROVE  req'[h].pc = "expire"
  BY <1>4 DEF AssertHourlyLimit, ReadForIssue, StoreCode, SetTtl, Send, RecordDelivery,
     Accept, CountAttempt, ReadAttempts, Drop, Die, ReadForVerify
<1>5. ~(\/ AssertHourlyLimit(h) \/ ReadForIssue(h) \/ StoreCode(h) \/ Send(h)
        \/ RecordDelivery(h) \/ Accept(h) \/ CountAttempt(h) \/ ReadAttempts(h)
        \/ Drop(h) \/ \E right \in BOOLEAN : ReadForVerify(h, right))
  BY DEF AssertHourlyLimit, ReadForIssue, StoreCode, Send, RecordDelivery,
     Accept, CountAttempt, ReadAttempts, Drop, ReadForVerify
<1> QED
  BY <1>2, <1>3, <1>4, <1>5 DEF Next, InvalidateIdentifiers, CooldownEnds, KeyExpires,
     DeliveryAges, vars

\* Crashes are never forgotten.
LEMMA CrashesStay == TypeOK /\ [Next]_vars => crashes' \in Nat /\ crashes' >= crashes
<1> SUFFICES ASSUME TypeOK, [Next]_vars PROVE crashes' = crashes \/ crashes' = crashes + 1
  BY Limits DEF TypeOK, StoreOK
<1>1. ASSUME NEW h \in Handlers,
             \/ AssertHourlyLimit(h) \/ ReadForIssue(h) \/ StoreCode(h) \/ SetTtl(h)
             \/ Send(h) \/ RecordDelivery(h) \/ Accept(h) \/ CountAttempt(h)
             \/ ReadAttempts(h) \/ Drop(h) \/ \E right \in BOOLEAN : ReadForVerify(h, right)
      PROVE  crashes' = crashes
  BY <1>1 DEF AssertHourlyLimit, ReadForIssue, StoreCode, SetTtl, Send, RecordDelivery,
     Accept, CountAttempt, ReadAttempts, Drop, ReadForVerify
<1>2. ASSUME NEW h \in Handlers, Die(h) PROVE crashes' = crashes \/ crashes' = crashes + 1
  BY <1>2 DEF Die
<1>3. CASE \/ InvalidateIdentifiers \/ CooldownEnds \/ KeyExpires \/ DeliveryAges
           \/ UNCHANGED vars
  BY <1>3 DEF InvalidateIdentifiers, CooldownEnds, KeyExpires, DeliveryAges, vars
<1> QED
  BY <1>1, <1>2, <1>3 DEF Next

\* Without crashes, a stored code has a TTL or gets one from a handler in flight.
THEOREM EveryCodeExpires == Spec => []CodesExpire
<1>1. Init => CodesExpire
  BY DEF Init, CodesExpire, NoKey
<1>2. TypeOK /\ CodesExpire /\ [Next]_vars => CodesExpire'
  <2> SUFFICES ASSUME TypeOK, CodesExpire, [Next]_vars, key'.code # NoCode, key'.ttl = "none",
                      ~(crashes' > 0)
               PROVE  \E h \in Handlers : req'[h].pc = "expire"
    BY DEF CodesExpire
  <2>1. ASSUME NEW h \in Handlers, StoreCode(h) PROVE req'[h].pc = "expire"
    BY <2>1 DEF StoreCode, Goto, TypeOK, RequestsOK
  <2>2. CASE \A h \in Handlers : ~StoreCode(h)
    <3>1. key.code # NoCode /\ key.ttl = "none"
      BY <2>2, KeyMoves
    <3>2. ~(crashes > 0)
      BY CrashesStay, Limits DEF TypeOK, StoreOK
    <3>3. PICK h \in Handlers : req[h].pc = "expire"
      BY <3>1, <3>2 DEF CodesExpire
    <3> QED
      BY <3>3, ExpireMoves
  <2> QED
    BY <2>1, <2>2
<1> QED
  BY <1>1, <1>2, TypeCorrect, PTL DEF Spec

-----------------------------------------------------------------------------
(* Counting handlers.                                                      *)

\* When one handler moves, the size of a set of handlers changes by that handler alone.
LEMMA OneMoves ==
    ASSUME NEW h, NEW S \in SUBSET Handlers, NEW T \in SUBSET Handlers, S \ {h} = T \ {h}
    PROVE  /\ Cardinality(S) \in Nat
           /\ Cardinality(T) = Cardinality(S) - (IF h \in S THEN 1 ELSE 0)
                                              + (IF h \in T THEN 1 ELSE 0)
<1>1. IsFiniteSet(S) /\ IsFiniteSet(T)
  BY OtpAssumption, FS_Subset
<1>2. /\ Cardinality(S) \in Nat /\ Cardinality(T) \in Nat
      /\ Cardinality(S \ {h}) = IF h \in S THEN Cardinality(S) - 1 ELSE Cardinality(S)
      /\ Cardinality(T \ {h}) = IF h \in T THEN Cardinality(T) - 1 ELSE Cardinality(T)
  BY <1>1, FS_RemoveElement, FS_CardinalityType
<1> QED
  BY <1>1, <1>2

\* A set of handlers that lacks one is smaller than the whole.
LEMMA OneMissing ==
    ASSUME NEW h \in Handlers, NEW S \in SUBSET Handlers, h \notin S
    PROVE  /\ Cardinality(S) \in Nat /\ Cardinality(Handlers) \in Nat
           /\ Cardinality(S) < Cardinality(Handlers)
<1>1. IsFiniteSet(Handlers \ {h}) /\ S \in SUBSET (Handlers \ {h})
  BY OtpAssumption, FS_Subset
<1>2. /\ Cardinality(Handlers) \in Nat
      /\ Cardinality(Handlers \ {h}) = Cardinality(Handlers) - 1
  BY OtpAssumption, FS_RemoveElement, FS_CardinalityType
<1>3. IsFiniteSet(S) /\ Cardinality(S) <= Cardinality(Handlers \ {h})
  BY <1>1, FS_Subset
<1> QED
  BY <1>2, <1>3, FS_CardinalityType

\* The steps of one handler, by what they do to the sets that are counted.
LEMMA HandlerMoves ==
    ASSUME TypeOK, NEW h \in Handlers,
           \/ AssertHourlyLimit(h) \/ ReadForIssue(h) \/ StoreCode(h) \/ SetTtl(h)
           \/ Send(h) \/ RecordDelivery(h) \/ Accept(h) \/ CountAttempt(h)
           \/ ReadAttempts(h) \/ Drop(h) \/ Die(h)
           \/ \E right \in BOOLEAN : ReadForVerify(h, right)
    PROVE  \A g \in Handlers \ {h} : req'[g] = req[g]
BY DEF TypeOK, RequestsOK, Goto, Finish, AssertHourlyLimit, ReadForIssue, StoreCode, SetTtl,
   Send, RecordDelivery, Accept, CountAttempt, ReadAttempts, Drop, Die, ReadForVerify

-----------------------------------------------------------------------------
(* The hourly cap.                                                         *)

\* However many requests for a code are let in at once, an hour's deliveries exceed
\* the limit by less than the requests in flight.
THEOREM HourlyCapHolds == Spec => []HourlyCap
<1>1. Init => HourlyCap
  <2> SUFFICES ASSUME Init PROVE HourlyCap
    OBVIOUS
  <2>1. Issuing = {} /\ deliveries = 0
    BY DEF Init, Issuing, Idle
  <2> QED
    BY <2>1, FS_EmptySet, FS_CardinalityType, OtpAssumption DEF HourlyCap
<1>2. TypeOK /\ HourlyCap /\ [Next]_vars => HourlyCap'
  <2> SUFFICES ASSUME TypeOK, HourlyCap, [Next]_vars PROVE HourlyCap'
    OBVIOUS
  <2> DEFINE I == Cardinality(Issuing)
             N == Cardinality(Handlers)
  <2>1. /\ I \in Nat /\ N \in Nat /\ HourlyMax \in Nat /\ deliveries \in Nat
        /\ deliveries + I < HourlyMax + N
    BY OneMoves, Limits, FS_CardinalityType, OtpAssumption DEF Issuing, HourlyCap, TypeOK, StoreOK
  <2>2. SUFFICES deliveries' + I' < HourlyMax + N
    BY DEF HourlyCap
  <2>3. ASSUME NEW h \in Handlers,
               \/ AssertHourlyLimit(h) \/ ReadForIssue(h) \/ StoreCode(h) \/ SetTtl(h)
               \/ Send(h) \/ RecordDelivery(h) \/ Accept(h) \/ CountAttempt(h)
               \/ ReadAttempts(h) \/ Drop(h) \/ Die(h)
               \/ \E right \in BOOLEAN : ReadForVerify(h, right)
        PROVE  deliveries' + I' < HourlyMax + N
    <3>1. \A g \in Handlers \ {h} : req'[g] = req[g]
      BY <2>3, HandlerMoves
    <3>2. I' = I - (IF h \in Issuing THEN 1 ELSE 0) + (IF h \in Issuing' THEN 1 ELSE 0)
      <4>1. Issuing \in SUBSET Handlers /\ Issuing' \in SUBSET Handlers
            /\ Issuing \ {h} = Issuing' \ {h}
        BY <3>1 DEF Issuing
      <4> QED
        BY <4>1, OneMoves
    <3> HIDE DEF I, N
    <3>3. CASE AssertHourlyLimit(h)
      <4>1. h \notin Issuing /\ deliveries < HourlyMax /\ deliveries' = deliveries
        BY <3>3 DEF Issuing, AssertHourlyLimit
      <4>2. I < N
        BY <4>1, OneMissing DEF I, N, Issuing
      <4> QED
        BY <2>1, <3>2, <4>1, <4>2
    <3>4. CASE RecordDelivery(h)
      <4>1. h \in Issuing /\ h \notin Issuing' /\ deliveries' = deliveries + 1
        BY <3>4 DEF Issuing, RecordDelivery, Finish, Idle, TypeOK, RequestsOK
      <4> QED
        BY <2>1, <3>2, <4>1
    <3>5. CASE ReadForIssue(h) \/ StoreCode(h) \/ SetTtl(h) \/ Send(h)
      <4>1. h \in Issuing /\ deliveries' = deliveries
        BY <3>5 DEF Issuing, ReadForIssue, StoreCode, SetTtl, Send
      <4> QED
        BY <2>1, <3>2, <4>1
    <3>6. CASE \/ Accept(h) \/ CountAttempt(h) \/ ReadAttempts(h) \/ Drop(h) \/ Die(h)
               \/ \E right \in BOOLEAN : ReadForVerify(h, right)
      <4>1. req'[h].pc \in {"idle", "accept", "count", "readAttempts", "drop"}
        <5> USE DEF TypeOK, RequestsOK, Request, Goto, Finish, Idle
        <5>1. CASE Accept(h) \/ Drop(h) \/ Die(h)
          BY <5>1 DEF Accept, Drop, Die
        <5>2. CASE CountAttempt(h) \/ ReadAttempts(h)
          BY <5>2 DEF CountAttempt, ReadAttempts
        <5>3. CASE \E right \in BOOLEAN : ReadForVerify(h, right)
          BY <5>3 DEF ReadForVerify
        <5> QED
          BY <3>6, <5>1, <5>2, <5>3
      <4>2. h \notin Issuing'
        BY <4>1 DEF Issuing
      <4>3. deliveries' = deliveries
        BY <3>6 DEF Accept, CountAttempt, ReadAttempts, Drop, Die, ReadForVerify
      <4> QED
        BY <2>1, <3>2, <4>2, <4>3
    <3> QED
      BY <2>3, <3>3, <3>4, <3>5, <3>6
  <2>4. CASE \/ InvalidateIdentifiers \/ CooldownEnds \/ KeyExpires \/ DeliveryAges
             \/ UNCHANGED vars
    <3>1. Issuing' = Issuing
      BY <2>4 DEF Issuing, InvalidateIdentifiers, CooldownEnds, KeyExpires, DeliveryAges, vars
    <3>2. deliveries' \in {deliveries, 0} \/ (deliveries > 0 /\ deliveries' = deliveries - 1)
      BY <2>4 DEF InvalidateIdentifiers, CooldownEnds, KeyExpires, DeliveryAges, vars
    <3> QED
      BY <2>1, <3>1, <3>2
  <2> QED
    BY <2>3, <2>4 DEF Next
<1> QED
  BY <1>1, <1>2, TypeCorrect, PTL DEF Spec

-----------------------------------------------------------------------------
(* Attempts.                                                               *)

\* AttemptsAccounted and GuessesBounded for one code.  The bound alone is not
\* inductive: a verification is let in by the attempts it reads, so these must not
\* fall behind the guesses.
Accounted(c) ==
    /\ key.code = c => guesses[c] <= key.attempts + Cardinality(Counting(c)) + crashes
    /\ guesses[c] < MaxAttempts + Cardinality(Handlers) + crashes

\* The step of one handler keeps the account of a code.
LEMMA HandlerAccounts ==
    ASSUME TypeOK, NEW h \in Handlers, NEW c \in Codes, Accounted(c),
           \/ AssertHourlyLimit(h) \/ ReadForIssue(h) \/ StoreCode(h) \/ SetTtl(h)
           \/ Send(h) \/ RecordDelivery(h) \/ Accept(h) \/ CountAttempt(h)
           \/ ReadAttempts(h) \/ Drop(h) \/ Die(h)
           \/ \E right \in BOOLEAN : ReadForVerify(h, right)
    PROVE  Accounted(c)'
<1> DEFINE W == Cardinality(Counting(c))
           N == Cardinality(Handlers)
<1>1. Counting(c) \in SUBSET Handlers /\ Counting(c)' \in SUBSET Handlers
  BY DEF Counting
<1>2. /\ W \in Nat /\ W' \in Nat
      /\ W' = W - (IF h \in Counting(c) THEN 1 ELSE 0) + (IF h \in Counting(c)' THEN 1 ELSE 0)
  <2>1. Counting(c) \ {h} = Counting(c)' \ {h}
    BY HandlerMoves DEF Counting
  <2> QED
    BY <1>1, <2>1, OneMoves
<1>3. /\ N \in Nat /\ MaxAttempts \in Nat /\ crashes \in Nat /\ key.attempts \in Nat
      /\ guesses[c] \in Nat /\ c # NoCode
  BY OtpAssumption, FS_CardinalityType, Limits DEF TypeOK, StoreOK, Key, Codes, NoCode
<1>4. /\ key.code = c => guesses[c] <= key.attempts + W + crashes
      /\ guesses[c] < MaxAttempts + N + crashes
  BY DEF Accounted
<1>5. SUFFICES /\ key'.code = c => guesses'[c] <= key'.attempts + W' + crashes'
               /\ guesses'[c] < MaxAttempts + N + crashes'
  BY DEF Accounted
<1>6. /\ h \in Counting(c) <=> (req[h].pc = "count" /\ req[h].code = c)
      /\ h \in Counting(c)' <=> (req'[h].pc = "count" /\ req'[h].code = c)
  BY DEF Counting
<1>7. W < N \/ h \in Counting(c)
  BY <1>1, OneMissing
<1> HIDE DEF W, N
<1>8. CASE StoreCode(h)
  <2>1. /\ key'.code = c => guesses[c] = 0
        /\ key'.attempts = 0 /\ guesses' = guesses /\ crashes' = crashes
    BY <1>8, Limits DEF StoreCode, Stored, TypeOK, StoreOK
  <2> QED
    BY <1>2, <1>3, <1>4, <2>1
<1>9. ASSUME NEW right \in BOOLEAN, ReadForVerify(h, right)
      PROVE  /\ key'.code = c => guesses'[c] <= key'.attempts + W' + crashes'
             /\ guesses'[c] < MaxAttempts + N + crashes'
  <2>1. h \notin Counting(c) /\ key' = key /\ crashes' = crashes
    BY <1>6, <1>9 DEF ReadForVerify
  <2>2. CASE guesses' = guesses
    BY <1>2, <1>3, <1>4, <2>1, <2>2
  <2>3. CASE guesses' # guesses
    <3>1. /\ key.attempts < MaxAttempts
          /\ guesses' = [guesses EXCEPT ![key.code] = @ + 1]
          /\ req' = [req EXCEPT ![h].pc = "count", ![h].code = key.code]
      BY <1>3, <1>9, <2>3 DEF ReadForVerify
    <3>2. /\ key.code = c => guesses'[c] = guesses[c] + 1 /\ h \in Counting(c)'
          /\ key.code # c => guesses'[c] = guesses[c]
      BY <1>6, <3>1 DEF TypeOK, StoreOK, RequestsOK, Request
    <3> QED
      BY <1>2, <1>3, <1>4, <1>7, <2>1, <3>1, <3>2
  <2> QED
    BY <2>2, <2>3
<1>10. CASE CountAttempt(h)
  <2>1. /\ key'.code = key.code /\ key'.attempts = key.attempts + 1
        /\ guesses' = guesses /\ crashes' = crashes
    BY <1>10 DEF CountAttempt, TypeOK, StoreOK, Key
  <2> QED
    BY <1>2, <1>3, <1>4, <2>1
<1>11. CASE Die(h)
  <2>1. key' = key /\ guesses' = guesses
    BY <1>11 DEF Die
  <2>2. /\ h \in Counting(c) => crashes' = crashes + 1
        /\ crashes' \in {crashes, crashes + 1}
    BY <1>6, <1>11 DEF Die
  <2> QED
    BY <1>2, <1>3, <1>4, <2>1, <2>2
<1>12. CASE Accept(h) \/ Drop(h)
  <2>1. key'.code # c /\ guesses' = guesses /\ crashes' = crashes
    BY <1>3, <1>12 DEF Accept, Drop, NoKey
  <2> QED
    BY <1>3, <1>4, <2>1
<1>13. CASE \/ AssertHourlyLimit(h) \/ ReadForIssue(h) \/ SetTtl(h) \/ Send(h)
            \/ RecordDelivery(h) \/ ReadAttempts(h)
  <2>1. /\ key'.code = key.code /\ key'.attempts = key.attempts
        /\ guesses' = guesses /\ crashes' = crashes
    BY <1>13 DEF AssertHourlyLimit, ReadForIssue, SetTtl, Send, RecordDelivery,
       ReadAttempts, TypeOK, StoreOK, Key
  <2>2. h \notin Counting(c)
    BY <1>6, <1>13 DEF AssertHourlyLimit, ReadForIssue, SetTtl, Send, RecordDelivery,
       ReadAttempts
  <2> QED
    BY <1>2, <1>3, <1>4, <2>1, <2>2
<1> QED
  BY <1>8, <1>9, <1>10, <1>11, <1>12, <1>13

\* Every step keeps the account of every code.
LEMMA NextAccounts ==
    ASSUME TypeOK, [Next]_vars, NEW c \in Codes, Accounted(c)
    PROVE  Accounted(c)'
<1>1. CASE \/ InvalidateIdentifiers \/ CooldownEnds \/ KeyExpires \/ DeliveryAges
           \/ UNCHANGED vars
  <2>1. /\ key'.code = c => key'.code = key.code /\ key'.attempts = key.attempts
        /\ req' = req /\ guesses' = guesses /\ crashes' = crashes
    BY <1>1 DEF InvalidateIdentifiers, CooldownEnds, KeyExpires, DeliveryAges, vars,
       TypeOK, StoreOK, Key, NoKey, NoCode, Codes
  <2>2. Counting(c)' = Counting(c)
    BY <2>1 DEF Counting
  <2> QED
    BY <2>1, <2>2 DEF Accounted
<1> QED
  BY <1>1, HandlerAccounts DEF Next

\* The inductive invariant: the account of every code.
AllAccounted == \A c \in Codes : Accounted(c)

\* The account of every code holds throughout.
LEMMA AccountsHold == Spec => [](TypeOK /\ AllAccounted)
<1>1. Init => AllAccounted
  <2> SUFFICES ASSUME Init, NEW c \in Codes PROVE Accounted(c)
    BY DEF AllAccounted
  <2>1. Cardinality(Handlers) \in Nat /\ MaxAttempts \in Nat \ {0} /\ c # 0
    BY OtpAssumption, FS_CardinalityType DEF Codes
  <2> QED
    BY <2>1 DEF Init, Accounted, NoKey, NoCode
<1>2. TypeOK /\ AllAccounted /\ [Next]_vars => AllAccounted'
  BY NextAccounts DEF AllAccounted, Codes
<1> QED
  BY <1>1, <1>2, InitType, NextType, PTL DEF Spec

\* No overlap of issues, guesses and deletions lets the counter fall behind.
THEOREM AttemptsNeverForgotten == Spec => []AttemptsAccounted
<1>1. TypeOK /\ AllAccounted => AttemptsAccounted
  BY DEF TypeOK, StoreOK, Key, AllAccounted, Accounted, AttemptsAccounted
<1> QED
  BY <1>1, AccountsHold, PTL

\* A code is tried at most MaxAttempts times, up to the requests in flight and crashes.
THEOREM GuessesAreBounded == Spec => []GuessesBounded
<1>1. AllAccounted => GuessesBounded
  BY DEF AllAccounted, Accounted, GuessesBounded
<1> QED
  BY <1>1, AccountsHold, PTL

=============================================================================
