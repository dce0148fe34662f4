-------------------------- MODULE RateLimitsProofs --------------------------
(***************************************************************************)
(* Proofs about NewConversationQuota.tla, SlidingWindow.tla and            *)
(* ReportMail.tla, as MCRateLimits.tla instantiates them: for any caps,    *)
(* windows, days and report ids, and any finite sets of handlers and       *)
(* requests.                                                               *)
(***************************************************************************)
EXTENDS MCRateLimits, FiniteSetTheorems, TLAPS

-----------------------------------------------------------------------------
(* NewConversationQuota.                                                   *)

\* Init establishes the types.
LEMMA InitType == Init => TypeOK
BY QuotaAssumption DEF Init, TypeOK, Days, PerDay, Steps

\* Every step keeps the types.
LEMMA NextType == TypeOK /\ [Next]_vars => TypeOK'
<1> SUFFICES ASSUME TypeOK, [Next]_vars PROVE TypeOK'
  OBVIOUS
<1> USE DEF TypeOK, Steps, Goto, Bump
<1>1. ASSUME NEW h \in Handlers, Reserve(h) PROVE TypeOK'
  BY <1>1 DEF Reserve
<1>2. ASSUME NEW h \in Handlers, Refuse(h) PROVE TypeOK'
  BY <1>2 DEF Refuse
<1>3. ASSUME NEW h \in Handlers, Insert(h) PROVE TypeOK'
  BY <1>3 DEF Insert
<1>4. ASSUME NEW h \in Handlers, InsertFails(h) PROVE TypeOK'
  BY <1>4 DEF InsertFails
<1>5. ASSUME NEW h \in Handlers, Answer(h) PROVE TypeOK'
  BY <1>5 DEF Answer
<1>6. ASSUME NEW h \in Handlers, LoadFails(h) PROVE TypeOK'
  BY <1>6 DEF LoadFails
<1>7. ASSUME NEW h \in Handlers, Release(h) PROVE TypeOK'
  BY <1>7 DEF Release, ReleaseDay
<1>8. ASSUME NEW h \in Handlers, Die(h) PROVE TypeOK'
  BY <1>8 DEF Die
<1>9. CASE Midnight
  <2>1. today' \in Days
    BY <1>9, QuotaAssumption DEF Midnight, Days
  <2> QED
    BY <1>9, <2>1 DEF Midnight
<1>10. CASE UNCHANGED vars
  BY <1>10 DEF vars
<1> QED
  BY <1>1, <1>2, <1>3, <1>4, <1>5, <1>6, <1>7, <1>8, <1>9, <1>10 DEF Next

\* The types hold throughout, however the user's requests overlap.
THEOREM TypeCorrect == Spec => []TypeOK
BY InitType, NextType, PTL DEF Spec

-----------------------------------------------------------------------------
(* Counting handlers.                                                      *)

\* The handlers that hold a slot of a day, or are about to use one, can be counted.
LEMMA Countable ==
    ASSUME NEW d
    PROVE  /\ IsFiniteSet(Holding(d)) /\ Cardinality(Holding(d)) \in Nat
           /\ IsFiniteSet(Inserting(d)) /\ Cardinality(Inserting(d)) \in Nat
<1>1. Holding(d) \in SUBSET Handlers /\ Inserting(d) \in SUBSET Handlers
  BY DEF Holding, Inserting
<1>2. IsFiniteSet(Holding(d)) /\ IsFiniteSet(Inserting(d))
  BY <1>1, QuotaAssumption, FS_Subset
<1> QED
  BY <1>2, FS_CardinalityType

\* A handler about to insert holds its slot.
LEMMA InsertersHold ==
    ASSUME TypeOK, NEW d
    PROVE  Cardinality(Inserting(d)) <= Cardinality(Holding(d))
<1>1. Inserting(d) \in SUBSET Holding(d)
  BY DEF Inserting, Holding, TypeOK
<1> QED
  BY <1>1, Countable, FS_Subset

\* When one handler moves, the counts of a day change by that handler alone.
LEMMA CountsMove ==
    ASSUME NEW h \in Handlers, NEW d,
           \A g \in Handlers \ {h} : req'[g] = req[g]
    PROVE  /\ Cardinality(Holding(d))' =
                Cardinality(Holding(d))
                  - (IF h \in Holding(d) THEN 1 ELSE 0)
                  + (IF h \in Holding(d)' THEN 1 ELSE 0)
           /\ Cardinality(Inserting(d))' =
                Cardinality(Inserting(d))
                  - (IF h \in Inserting(d) THEN 1 ELSE 0)
                  + (IF h \in Inserting(d)' THEN 1 ELSE 0)
<1>1. ASSUME NEW S, NEW T, IsFiniteSet(S), IsFiniteSet(T), S \ {h} = T \ {h}
      PROVE  Cardinality(T) = Cardinality(S) - (IF h \in S THEN 1 ELSE 0)
                                             + (IF h \in T THEN 1 ELSE 0)
  <2>1. /\ Cardinality(S) \in Nat /\ Cardinality(T) \in Nat
        /\ Cardinality(S \ {h}) = IF h \in S THEN Cardinality(S) - 1 ELSE Cardinality(S)
        /\ Cardinality(T \ {h}) = IF h \in T THEN Cardinality(T) - 1 ELSE Cardinality(T)
    BY <1>1, FS_RemoveElement, FS_CardinalityType
  <2> QED
    BY <1>1, <2>1
<1>2. /\ Holding(d) \ {h} = Holding(d)' \ {h}
      /\ Inserting(d) \ {h} = Inserting(d)' \ {h}
  BY DEF Holding, Inserting
<1>3. /\ Holding(d)' \in SUBSET Handlers /\ Inserting(d)' \in SUBSET Handlers
      /\ Holding(d) \in SUBSET Handlers /\ Inserting(d) \in SUBSET Handlers
  BY DEF Holding, Inserting
<1>4. /\ IsFiniteSet(Holding(d)') /\ IsFiniteSet(Inserting(d)')
      /\ IsFiniteSet(Holding(d)) /\ IsFiniteSet(Inserting(d))
  BY <1>3, QuotaAssumption, FS_Subset
<1>5. Cardinality(Holding(d)') = Cardinality(Holding(d))
                  - (IF h \in Holding(d) THEN 1 ELSE 0)
                  + (IF h \in Holding(d)' THEN 1 ELSE 0)
  BY <1>1, <1>2, <1>4
<1>6. Cardinality(Inserting(d)') = Cardinality(Inserting(d))
                  - (IF h \in Inserting(d) THEN 1 ELSE 0)
                  + (IF h \in Inserting(d)' THEN 1 ELSE 0)
  BY <1>1, <1>2, <1>4
<1> QED
  BY <1>5, <1>6

-----------------------------------------------------------------------------
(* The accounts balance.                                                   *)

\* The two invariants of one day; the second needs the first, which says that the
\* counter a reservation compares with the cap never forgets a slot in flight.
Balanced(d) ==
    /\ counter[d] = used[d] + Cardinality(Holding(d)) + lost[d] - wrong[d]
    /\ used[d] + Cardinality(Inserting(d)) <= Max + wrong[d]

\* The step of one handler keeps the accounts of a day.
LEMMA HandlerBalances ==
    ASSUME TypeOK, NEW h \in Handlers, NEW d \in Days, Balanced(d),
           \/ Reserve(h) \/ Refuse(h) \/ Insert(h) \/ InsertFails(h)
           \/ Answer(h) \/ LoadFails(h) \/ Release(h) \/ Die(h)
    PROVE  Balanced(d)'
<1> DEFINE H == Cardinality(Holding(d))
           I == Cardinality(Inserting(d))
<1>1. /\ H \in Nat /\ I \in Nat /\ I <= H
  BY Countable, InsertersHold
<1>2. /\ counter[d] \in Int /\ used[d] \in Nat /\ lost[d] \in Nat /\ wrong[d] \in Nat
      /\ Max \in Nat
  BY QuotaAssumption DEF TypeOK
<1>3. \A g \in Handlers \ {h} : req'[g] = req[g]
  BY DEF TypeOK, Reserve, Refuse, Insert, InsertFails, Answer, LoadFails, Release, Die, Goto
<1>4. /\ H' = H - (IF h \in Holding(d) THEN 1 ELSE 0) + (IF h \in Holding(d)' THEN 1 ELSE 0)
      /\ I' = I - (IF h \in Inserting(d) THEN 1 ELSE 0) + (IF h \in Inserting(d)' THEN 1 ELSE 0)
  BY <1>3, CountsMove
<1>5. /\ h \in Holding(d) <=> (req[h].pc # "idle" /\ req[h].day = d /\ ~req[h].saved)
      /\ h \in Holding(d)' <=> (req'[h].pc # "idle" /\ req'[h].day = d /\ ~req'[h].saved)
      /\ h \in Inserting(d) <=> (req[h].pc = "insert" /\ req[h].day = d)
      /\ h \in Inserting(d)' <=> (req'[h].pc = "insert" /\ req'[h].day = d)
  BY DEF Holding, Inserting
<1>6. /\ counter[d] = used[d] + H + lost[d] - wrong[d]
      /\ used[d] + I <= Max + wrong[d]
  BY DEF Balanced
<1>7. SUFFICES /\ counter'[d] = used'[d] + H' + lost'[d] - wrong'[d]
               /\ used'[d] + I' <= Max + wrong'[d]
  BY DEF Balanced
<1> HIDE DEF H, I
<1> USE DEF TypeOK, Goto, Bump
<1>8. CASE Reserve(h)
  BY <1>1, <1>2, <1>4, <1>5, <1>6, <1>8 DEF Reserve
<1>9. CASE Refuse(h)
  BY <1>1, <1>2, <1>4, <1>5, <1>6, <1>9 DEF Refuse
<1>10. CASE Insert(h)
  BY <1>1, <1>2, <1>4, <1>5, <1>6, <1>10 DEF Insert
<1>11. CASE InsertFails(h)
  BY <1>1, <1>2, <1>4, <1>5, <1>6, <1>11 DEF InsertFails
<1>12. CASE Answer(h)
  BY <1>1, <1>2, <1>4, <1>5, <1>6, <1>12 DEF Answer
<1>13. CASE LoadFails(h)
  BY <1>1, <1>2, <1>4, <1>5, <1>6, <1>13 DEF LoadFails
<1>14. CASE Release(h)
  BY <1>1, <1>2, <1>4, <1>5, <1>6, <1>14 DEF Release, ReleaseDay
<1>15. CASE Die(h)
  BY <1>1, <1>2, <1>4, <1>5, <1>6, <1>15 DEF Die
<1> QED
  BY <1>8, <1>9, <1>10, <1>11, <1>12, <1>13, <1>14, <1>15

\* The accounts of every day balance at first.
LEMMA InitBalanced == Init => \A d \in Days : Balanced(d)
<1> SUFFICES ASSUME Init, NEW d \in Days PROVE Balanced(d)
  OBVIOUS
<1>1. Holding(d) = {} /\ Inserting(d) = {}
  BY DEF Init, Holding, Inserting
<1> QED
  BY <1>1, FS_EmptySet, QuotaAssumption DEF Init, PerDay, Balanced

\* Every step keeps the accounts of every day.
LEMMA NextBalanced ==
    TypeOK /\ (\A d \in Days : Balanced(d)) /\ [Next]_vars => (\A d \in Days : Balanced(d))'
<1> SUFFICES ASSUME TypeOK, \A d \in Days : Balanced(d), [Next]_vars,
                    NEW d \in Days
             PROVE  Balanced(d)'
  BY DEF Days
<1>1. CASE \E h \in Handlers :
          \/ Reserve(h) \/ Refuse(h) \/ Insert(h) \/ InsertFails(h)
          \/ Answer(h) \/ LoadFails(h) \/ Release(h) \/ Die(h)
  BY <1>1, HandlerBalances
<1>2. CASE Midnight \/ UNCHANGED vars
  <2>1. UNCHANGED <<counter, req, used, lost, wrong>>
    BY <1>2 DEF Midnight, vars
  <2>2. Holding(d)' = Holding(d) /\ Inserting(d)' = Inserting(d)
    BY <2>1 DEF Holding, Inserting
  <2> QED
    BY <2>1, <2>2 DEF Balanced
<1> QED
  BY <1>1, <1>2 DEF Next

\* The day's counter is the rows its slots made plus the slots in flight, up to
\* slots lost and slots given back wrongly (messaging-rate-limit.service.ts:27-50).
THEOREM SlotsAccountedFor == Spec => []SlotAccounting
<1>1. (\A d \in Days : Balanced(d)) => SlotAccounting
  BY DEF Balanced, SlotAccounting
<1> QED
  BY <1>1, InitType, NextType, InitBalanced, NextBalanced, PTL DEF Spec

\* No race for the last slot exceeds the cap: only a wrong release can
\* (messaging-rate-limit.service.ts:31, messaging.service.ts:875).
THEOREM CapHolds == Spec => []CapUpToWrongReleases
<1>1. (\A d \in Days : Balanced(d)) => CapUpToWrongReleases
  BY DEF Balanced, CapUpToWrongReleases
<1> QED
  BY <1>1, InitType, NextType, InitBalanced, NextBalanced, PTL DEF Spec

-----------------------------------------------------------------------------
(* The handlers implement the allowance of Allowance.tla.                  *)

\* What the abstract specification sees as held.
HeldOf == [d \in Days |-> used[d] + Cardinality(Inserting(d))]

\* The step of one handler grants a slot, gives one back, gives one back that the
\* day did not grant, or changes nothing that the allowance sees.
LEMMA HandlerRefines ==
    ASSUME TypeOK, \A d \in Days : Balanced(d), NEW h \in Handlers,
           \/ Reserve(h) \/ Refuse(h) \/ Insert(h) \/ InsertFails(h)
           \/ Answer(h) \/ LoadFails(h) \/ Release(h) \/ Die(h)
    PROVE  \/ UNCHANGED <<HeldOf, wrong>>
           \/ \E d \in Days :
                 \/ /\ HeldOf[d] < Max + wrong[d]
                    /\ HeldOf' = [HeldOf EXCEPT ![d] = @ + 1]
                    /\ UNCHANGED wrong
                 \/ /\ HeldOf[d] > 0
                    /\ HeldOf' = [HeldOf EXCEPT ![d] = @ - 1]
                    /\ UNCHANGED wrong
                 \/ /\ wrong' = [wrong EXCEPT ![d] = @ + 1]
                    /\ UNCHANGED HeldOf
<1> DEFINE I(d) == Cardinality(Inserting(d))
<1>e. PICK e \in Days : e = req[h].day
  BY DEF TypeOK
<1>1. /\ \A d \in Days : I(d) \in Nat /\ used[d] \in Nat /\ wrong[d] \in Nat
                         /\ lost[d] \in Nat /\ counter[d] \in Int
                         /\ I(d) <= Cardinality(Holding(d)) /\ Cardinality(Holding(d)) \in Nat
      /\ today \in Days /\ Max \in Nat
  BY Countable, InsertersHold, QuotaAssumption DEF TypeOK
<1>2. \A g \in Handlers \ {h} : req'[g] = req[g]
  BY DEF TypeOK, Reserve, Refuse, Insert, InsertFails, Answer, LoadFails, Release, Die, Goto
<1>3. \A d \in Days :
        I(d)' = I(d) - (IF h \in Inserting(d) THEN 1 ELSE 0)
                     + (IF h \in Inserting(d)' THEN 1 ELSE 0)
  BY <1>2, CountsMove
<1>4. \A d \in Days :
        /\ h \in Inserting(d) <=> (req[h].pc = "insert" /\ req[h].day = d)
        /\ h \in Inserting(d)' <=> (req'[h].pc = "insert" /\ req'[h].day = d)
  BY DEF Inserting
<1>5. \A d \in Days : h \in Inserting(d) => I(d) > 0
  BY Countable, FS_EmptySet
<1>6. /\ HeldOf = [d \in Days |-> used[d] + I(d)]
      /\ HeldOf' = [d \in Days |-> used'[d] + I(d)']
  BY DEF HeldOf, Days
<1> HIDE DEF I
<1> USE DEF TypeOK, Goto, Bump
<1>7. CASE Refuse(h) \/ Answer(h) \/ LoadFails(h)
  <2>1. UNCHANGED <<used, wrong>> /\ \A d \in Days : I(d)' = I(d)
    BY <1>1, <1>3, <1>4, <1>7 DEF Refuse, Answer, LoadFails
  <2> QED
    BY <1>6, <2>1
<1>8. CASE Reserve(h)
  <2>1. UNCHANGED <<used, wrong>> /\ \A d \in Days \ {today} : I(d)' = I(d)
    BY <1>1, <1>3, <1>4, <1>8 DEF Reserve
  <2>2. CASE counter'[today] > Max
    <3>1. \A d \in Days : d = today => I(d)' = I(d)
      BY <1>1, <1>3, <1>4, <1>8, <2>2 DEF Reserve
    <3>2. HeldOf' = HeldOf
      BY <1>6, <2>1, <3>1
    <3> QED
      BY <2>1, <3>2
  <2>3. CASE ~(counter'[today] > Max)
    <3>1. \A d \in Days : d = today => I(d)' = I(d) + 1
      BY <1>1, <1>3, <1>4, <1>8, <2>3 DEF Reserve
    <3>2. HeldOf[today] < Max + wrong[today]
      <4>1. counter[today] + 1 <= Max
        BY <1>1, <1>8, <2>3 DEF Reserve
      <4>2. counter[today]
              = used[today] + Cardinality(Holding(today)) + lost[today] - wrong[today]
        BY <1>1 DEF Balanced
      <4> QED
        BY <1>1, <1>6, <4>1, <4>2
    <3>3. HeldOf' = [HeldOf EXCEPT ![today] = @ + 1]
      BY <1>1, <1>6, <2>1, <3>1
    <3> QED
      BY <1>1, <2>1, <3>2, <3>3
  <2> QED
    BY <2>2, <2>3
<1>9. CASE Insert(h)
  <2>1. /\ used' = [used EXCEPT ![e] = @ + 1] /\ UNCHANGED wrong
        /\ req[h].pc = "insert" /\ req'[h].pc = "load" /\ req'[h].day = e
    BY <1>9, <1>e DEF Insert
  <2>2. \A d \in Days : used'[d] + I(d)' = used[d] + I(d)
    BY <1>1, <1>3, <1>4, <1>5, <1>e, <2>1
  <2>3. HeldOf' = HeldOf
    BY <1>6, <2>2
  <2> QED
    BY <2>1, <2>3
<1>10. CASE InsertFails(h) \/ Die(h)
  <2>1. UNCHANGED <<used, wrong>> /\ req'[h].pc # "insert"
        /\ \A d \in Days \ {e} : I(d)' = I(d)
    BY <1>1, <1>3, <1>4, <1>10, <1>e DEF InsertFails, Die
  <2>2. CASE req[h].pc = "insert"
    <3>1. h \in Inserting(e) /\ h \notin Inserting(e)'
      BY <1>1, <1>4, <1>e, <2>1, <2>2
    <3>2. I(e) > 0
      BY <1>1, <1>5, <3>1
    <3>3. I(e)' = I(e) - 1
      BY <1>1, <1>3, <3>1
    <3>4. HeldOf[e] > 0
      BY <1>1, <1>6, <3>2
    <3>5. \A d \in Days : used'[d] + I(d)' = IF d = e THEN used[d] + I(d) - 1
                                                   ELSE used[d] + I(d)
      BY <1>1, <2>1, <3>3
    <3>6. HeldOf' = [HeldOf EXCEPT ![e] = @ - 1]
      BY <1>1, <1>6, <3>5
    <3> QED
      BY <1>1, <2>1, <3>4, <3>6
  <2>3. CASE req[h].pc # "insert"
    <3>1. \A d \in Days : I(d)' = I(d)
      BY <1>1, <1>3, <1>4, <1>e, <2>1, <2>3
    <3>2. HeldOf' = HeldOf
      BY <1>6, <2>1, <3>1
    <3> QED
      BY <2>1, <3>2
  <2> QED
    BY <2>2, <2>3
<1>11. CASE Release(h)
  <2>1. UNCHANGED used /\ \A d \in Days : I(d)' = I(d)
    BY <1>1, <1>3, <1>4, <1>11 DEF Release
  <2>2. HeldOf' = HeldOf
    BY <1>6, <2>1
  <2>3. wrong' = wrong \/ wrong' = [wrong EXCEPT ![today] = @ + 1]
    BY <1>11 DEF Release, ReleaseDay
  <2> QED
    BY <1>1, <2>2, <2>3
<1> QED
  BY <1>7, <1>8, <1>9, <1>10, <1>11

\* Every step is a step of the allowance, or none.
LEMMA NextRefines ==
    TypeOK /\ (\A d \in Days : Balanced(d)) /\ [Next]_vars =>
        [Slots!Next]_<<HeldOf, wrong>>
<1> SUFFICES ASSUME TypeOK, \A d \in Days : Balanced(d), [Next]_vars
             PROVE  [Slots!Next]_<<HeldOf, wrong>>
  OBVIOUS
<1>1. CASE \E h \in Handlers :
          \/ Reserve(h) \/ Refuse(h) \/ Insert(h) \/ InsertFails(h)
          \/ Answer(h) \/ LoadFails(h) \/ Release(h) \/ Die(h)
  BY <1>1, HandlerRefines
     DEF Slots!Next, Slots!Grant, Slots!GiveBack, Slots!GiveBackForeign, HeldOf
<1>2. CASE Midnight \/ UNCHANGED vars
  <2>1. UNCHANGED <<req, used, wrong>>
    BY <1>2 DEF Midnight, vars
  <2>2. \A d : Inserting(d)' = Inserting(d)
    BY <2>1 DEF Inserting
  <2>3. HeldOf' = HeldOf
    BY <2>1, <2>2 DEF HeldOf, Days
  <2> QED
    BY <2>1, <2>3
<1> QED
  BY <1>1, <1>2 DEF Next

\* Nothing is held at first.
LEMMA InitRefines == Init => Slots!Init
<1> SUFFICES ASSUME Init PROVE Slots!Init
  OBVIOUS
<1>1. \A d \in Days : Inserting(d) = {}
  BY DEF Init, Inserting
<1> QED
  BY <1>1, FS_EmptySet DEF Init, PerDay, Slots!Init

\* The requests of a user together are an allowance of Max new conversations per
\* day: a slot is granted while one is left, and what is given back twice or on
\* another day raises the cap of that day alone (messaging-rate-limit.service.ts:27-50).
THEOREM ImplementsAllowance == Spec => KeepsAllowance
<1>1. [Slots!Next]_<<HeldOf, wrong>> => [Slots!Next]_(Slots!allowanceVars)
  BY DEF HeldOf, Slots!allowanceVars
<1> QED
  BY <1>1, InitType, NextType, InitBalanced, NextBalanced, InitRefines, NextRefines, PTL
     DEF Spec, KeepsAllowance, Slots!Spec

-----------------------------------------------------------------------------
(* SlidingWindow.                                                          *)

\* An instance of a module has the finite sets of this module.
LEMMA RateFinite == \A S : Rate!IsFiniteSet(S) <=> IsFiniteSet(S)
  BY DEF Rate!IsFiniteSet, IsFiniteSet

LEMMA RateCardinality == \A S : Rate!Cardinality(S) = Cardinality(S)
  BY DEF Rate!Cardinality, Cardinality, IsFiniteSet, Rate!IsFiniteSet

LEMMA RateConstants ==
    /\ IsFiniteSet(Requests) /\ Max \in Nat \ {0}
    /\ RateWindow \in Nat /\ Life \in Nat /\ Life < RateWindow
  BY PartsAssumption, RateFinite DEF Rate!WindowAssumption

\* A part of some requests can be counted, and is no larger.
LEMMA RequestsCount ==
    ASSUME NEW T, T \subseteq Requests, NEW S, S \subseteq T
    PROVE  /\ Cardinality(S) \in Nat /\ Cardinality(T) \in Nat
           /\ Cardinality(S) <= Cardinality(T)
           /\ \A r : IsFiniteSet(T) /\ Cardinality(T \cup {r}) <= Cardinality(T) + 1
                     /\ Cardinality(T \ {r}) >= Cardinality(T) - 1
<1>1. IsFiniteSet(T)
  BY RateConstants, FS_Subset
<1>2. IsFiniteSet(S) /\ Cardinality(S) <= Cardinality(T)
  BY <1>1, FS_Subset
<1>3. Cardinality(S) \in Nat /\ Cardinality(T) \in Nat
  BY <1>1, <1>2, FS_CardinalityType
<1>4. ASSUME NEW r
      PROVE  Cardinality(T \cup {r}) <= Cardinality(T) + 1 /\ Cardinality(T \ {r}) >= Cardinality(T) - 1
  <2>1. Cardinality(T \cup {r}) = IF r \in T THEN Cardinality(T) ELSE Cardinality(T) + 1
    BY <1>1, FS_AddElement
  <2>2. Cardinality(T \ {r}) = IF r \in T THEN Cardinality(T) - 1 ELSE Cardinality(T)
    BY <1>1, FS_RemoveElement
  <2> QED
    BY <1>3, <2>1, <2>2
<1> QED
  BY <1>1, <1>2, <1>3, <1>4

\* The steps of the requests whose member may be in the set.
Added == IF limiter = "send" THEN {"trim", "count", "remove", "admitted", "dead"} ELSE {"admitted"}

\* A request is young while it is in flight.
Clocks ==
    \A r \in Requests :
        (pc[r] = "idle" => age[r] = 0) /\ (r \in Rate!InFlight => age[r] <= Life)

\* Only a request that was added is in the set.
Members == \A r \in entries : pc[r] \in Added

\* A window passes before anyone trims what an admitted request, or one on its way,
\* has added.
KeptYoung ==
    \A r \in Requests : pc[r] \in Added \ {"dead"} /\ age[r] < RateWindow => r \in entries

\* What a request has trimmed does not come back.
TrimmedStays ==
    \A r \in Requests :
        pc[r] \in {"count", "remove"} => \A q \in entries : age[q] - age[r] < RateWindow

\* A request that met no other races alone; one from an address has room.
Alone == \A r \in Rate!Racing \ met : Rate!Racing = {r}

RoomLeft == limiter = "auth" => \A r \in Rate!Racing \ met : Cardinality(entries) < Max

\* The admitted requests of the window that begins at an age, those that met apart.
AdmittedIn(a) ==
    {q \in Requests : /\ pc[q] = "admitted" /\ a - age[q] \in 0 .. RateWindow - Life - 1
                      /\ limiter = "send" \/ q \notin met}

\* The limit of every window, whichever request it begins with.
WindowsHold == \A a \in 0 .. Rate!Old - 1 : Cardinality(AdmittedIn(a)) <= Max

\* What may have filled the set for r, whose refusal is decided before it is removed.
Filling(r) == {q \in Requests : pc[q] \in {"admitted", "dead"} /\ age[q] - age[r] < RateWindow}

RefusalsHold ==
    \A r \in Requests \ met :
        pc[r] \in {"remove", "refused"} /\ age[r] < RateWindow => Cardinality(Filling(r)) >= Max

RateInv ==
    /\ Rate!TypeOK
    /\ Clocks /\ Members /\ KeptYoung /\ TrimmedStays /\ Alone /\ RoomLeft
    /\ WindowsHold /\ RefusalsHold

LEMMA RateInit == Rate!Init => RateInv
<1> SUFFICES ASSUME Rate!Init PROVE RateInv
  OBVIOUS
<1>1. Rate!TypeOK
  BY RateConstants DEF Rate!Init, Rate!TypeOK, Rate!Steps, Rate!Old
<1>2. Clocks /\ Members /\ KeptYoung /\ TrimmedStays
  BY RateConstants DEF Rate!Init, Clocks, Members, KeptYoung, TrimmedStays, Added, Rate!InFlight
<1>3. Rate!Racing = {}
  BY DEF Rate!Init, Rate!Racing
<1>4. \A a : AdmittedIn(a) = {}
  BY DEF Rate!Init, AdmittedIn
<1>5. \A a : Cardinality(AdmittedIn(a)) = 0
  BY <1>4, FS_EmptySet
<1>6. WindowsHold
  BY <1>5, RateConstants DEF WindowsHold
<1>7. Alone /\ RoomLeft /\ RefusalsHold
  BY <1>3 DEF Alone, RoomLeft, RefusalsHold, Rate!Init
<1> QED
  BY <1>1, <1>2, <1>6, <1>7 DEF RateInv

\* Nobody is admitted: the windows keep their limit.
LEMMA WindowsStay ==
    ASSUME RateInv, UNCHANGED <<limiter, age>>, met \subseteq met',
           \A q \in Requests : pc'[q] = "admitted" => pc[q] = "admitted" \/ (q \in met' /\ limiter = "auth")
    PROVE  WindowsHold'
<1> SUFFICES ASSUME NEW a \in 0 .. Rate!Old - 1 PROVE Cardinality(AdmittedIn(a))' <= Max
  BY DEF WindowsHold, Rate!Old
<1>1. AdmittedIn(a)' \subseteq AdmittedIn(a) /\ AdmittedIn(a) \subseteq Requests
  BY DEF AdmittedIn, RateInv, Rate!TypeOK
<1>2. Cardinality(AdmittedIn(a)) <= Max
  BY DEF RateInv, WindowsHold
<1>3. /\ Cardinality(AdmittedIn(a)') \in Nat /\ Cardinality(AdmittedIn(a)) \in Nat
      /\ Cardinality(AdmittedIn(a)') <= Cardinality(AdmittedIn(a))
  BY <1>1, RequestsCount
<1> QED
  BY <1>2, <1>3, RateConstants

\* What filled the set for a refusal stays admitted or dead.
LEMMA RefusalsStay ==
    ASSUME RateInv, UNCHANGED age, met \subseteq met',
           \A q \in Requests : pc[q] \in {"admitted", "dead"} => pc'[q] = pc[q],
           \A q \in Requests \ met : pc'[q] \in {"remove", "refused"} /\ age[q] < RateWindow =>
              pc[q] \in {"remove", "refused"} \/ Cardinality(Filling(q)) >= Max
    PROVE  RefusalsHold'
<1> SUFFICES ASSUME NEW r \in Requests \ met', pc'[r] \in {"remove", "refused"}, age'[r] < RateWindow
             PROVE  Cardinality(Filling(r))' >= Max
  BY DEF RefusalsHold
<1>1. Filling(r) \subseteq Filling(r)' /\ Filling(r)' \subseteq Requests
  BY DEF Filling
<1>2. Cardinality(Filling(r)) >= Max
  BY DEF RateInv, RefusalsHold
<1>3. /\ Cardinality(Filling(r)') \in Nat /\ Cardinality(Filling(r)) \in Nat
      /\ Cardinality(Filling(r)) <= Cardinality(Filling(r)')
  BY <1>1, RequestsCount
<1> QED
  BY <1>2, <1>3, RateConstants

LEMMA RateStart ==
    ASSUME RateInv, NEW r \in Requests, Rate!Start(r)
    PROVE  RateInv'
<1> USE DEF RateInv
<1>1. /\ pc[r] = "idle" /\ pc'[r] = IF limiter = "send" THEN "add" ELSE "trim"
      /\ \A q \in Requests \ {r} : pc'[q] = pc[q]
      /\ pc' \in [Requests -> Rate!Steps]
      /\ UNCHANGED <<limiter, age, entries, met>>
  BY DEF Rate!Start, Rate!Goto, Rate!TypeOK, Rate!Steps
<1>2. limiter \in {"send", "auth"} /\ entries \subseteq Requests
  BY DEF Rate!TypeOK
<1>3. Rate!TypeOK'
  BY <1>1, <1>2 DEF Rate!TypeOK
<1>4. Clocks'
  BY <1>1, RateConstants DEF Clocks, Rate!InFlight
<1>5. Members' /\ KeptYoung' /\ TrimmedStays'
  BY <1>1, <1>2 DEF Members, KeptYoung, TrimmedStays, Added
<1>6. Rate!Racing' = Rate!Racing
  BY <1>1, <1>2 DEF Rate!Racing
<1>7. Alone' /\ RoomLeft'
  BY <1>1, <1>6 DEF Alone, RoomLeft
<1>8. WindowsHold'
  <2> HIDE DEF RateInv
  <2>1. \A q \in Requests : pc'[q] = "admitted" => pc[q] = "admitted"
    BY <1>1
  <2> QED
    BY <1>1, <2>1, WindowsStay
<1>9. RefusalsHold'
  BY <1>1, <1>2, RefusalsStay
<1> QED
  BY <1>3, <1>4, <1>5, <1>7, <1>8, <1>9

\* A message adds itself before it counts.
LEMMA RateAddSend ==
    ASSUME RateInv, NEW r \in Requests, Rate!Add(r), limiter = "send"
    PROVE  RateInv'
<1> USE DEF RateInv
<1>1. /\ pc[r] = "add" /\ pc'[r] = "trim" /\ entries' = entries \cup {r}
      /\ \A q \in Requests \ {r} : pc'[q] = pc[q]
      /\ pc' \in [Requests -> Rate!Steps]
      /\ UNCHANGED <<limiter, age>>
      /\ met' = IF Rate!Racing = {} THEN met ELSE met \cup Rate!Racing \cup {r}
  BY DEF Rate!Add, Rate!Goto, Rate!Meets, Rate!TypeOK, Rate!Steps
<1>2. entries \subseteq Requests /\ age \in [Requests -> 0 .. Rate!Old] /\ age[r] <= Life
      /\ met \subseteq met' /\ Rate!Racing \subseteq Requests
  BY <1>1 DEF Rate!TypeOK, Clocks, Rate!InFlight, Rate!Racing
<1>3. Rate!TypeOK'
  BY <1>1, <1>2 DEF Rate!TypeOK
<1>4. Clocks'
  BY <1>1 DEF Clocks, Rate!InFlight
<1>5. Members' /\ KeptYoung'
  BY <1>1, <1>2 DEF Members, KeptYoung, Added
<1>6. TrimmedStays'
  <2>1. \A q \in Requests : age[q] \in Int /\ age[q] >= 0
    BY <1>2, RateConstants DEF Rate!Old
  <2> QED
    BY <1>1, <1>2, <2>1, RateConstants DEF TrimmedStays
<1>7. Rate!Racing' = Rate!Racing \cup {r}
  BY <1>1 DEF Rate!Racing
<1>8. Alone' /\ RoomLeft'
  BY <1>1, <1>7 DEF Alone, RoomLeft
<1>9. WindowsHold'
  <2> HIDE DEF RateInv
  <2>1. \A q \in Requests : pc'[q] = "admitted" => pc[q] = "admitted"
    BY <1>1
  <2> QED
    BY <1>1, <1>2, <2>1, WindowsStay
<1>10. RefusalsHold'
  BY <1>1, <1>2, RefusalsStay
<1> QED
  BY <1>3, <1>4, <1>5, <1>6, <1>8, <1>9, <1>10

\* The admitted requests of a window that holds a young one are all in the set.
LEMMA WindowInSet ==
    ASSUME RateInv, NEW r \in Requests, age[r] <= Life, NEW a \in 0 .. Rate!Old - 1,
           a - age[r] \in 0 .. RateWindow - Life - 1
    PROVE  AdmittedIn(a) \subseteq entries
<1> SUFFICES ASSUME NEW q \in AdmittedIn(a) PROVE q \in entries
  OBVIOUS
<1>1. q \in Requests /\ pc[q] = "admitted" /\ a - age[q] \in 0 .. RateWindow - Life - 1
  BY DEF AdmittedIn
<1>2. age[q] \in Int /\ age[r] \in Int
  BY <1>1, RateConstants DEF RateInv, Rate!TypeOK, Rate!Old
<1>3. age[q] < RateWindow
  BY <1>1, <1>2, RateConstants DEF Rate!Old
<1>4. pc[q] \in Added \ {"dead"}
  BY <1>1 DEF Added
<1> QED
  BY <1>1, <1>3, <1>4 DEF RateInv, KeptYoung

\* A request from an address adds itself after it counted.
LEMMA RateAddAuth ==
    ASSUME RateInv, NEW r \in Requests, Rate!Add(r), limiter = "auth"
    PROVE  RateInv'
<1> USE DEF RateInv
<1>1. /\ pc[r] = "add" /\ pc'[r] = "admitted" /\ entries' = entries \cup {r}
      /\ \A q \in Requests \ {r} : pc'[q] = pc[q]
      /\ pc' \in [Requests -> Rate!Steps]
      /\ UNCHANGED <<limiter, age, met>>
  BY DEF Rate!Add, Rate!Goto, Rate!TypeOK, Rate!Steps
<1>2. entries \subseteq Requests /\ age \in [Requests -> 0 .. Rate!Old] /\ age[r] <= Life
  BY <1>1 DEF Rate!TypeOK, Clocks, Rate!InFlight
<1>3. Rate!TypeOK'
  BY <1>1, <1>2 DEF Rate!TypeOK
<1>4. Clocks'
  BY <1>1 DEF Clocks, Rate!InFlight
<1>5. Members' /\ KeptYoung'
  BY <1>1, <1>2 DEF Members, KeptYoung, Added
<1>6. TrimmedStays'
  <2>1. \A q \in Requests : age[q] \in Int /\ age[q] >= 0
    BY <1>2, RateConstants DEF Rate!Old
  <2> QED
    BY <1>1, <1>2, <2>1, RateConstants DEF TrimmedStays
<1>7. Rate!Racing' = Rate!Racing \ {r} /\ r \in Rate!Racing
  BY <1>1 DEF Rate!Racing
<1>8. Alone' /\ RoomLeft'
  BY <1>1, <1>7 DEF Alone, RoomLeft
<1>9. WindowsHold'
  <2>1. CASE r \in met
    BY <1>1, <2>1, WindowsStay
  <2>2. CASE r \notin met
    <3> SUFFICES ASSUME NEW a \in 0 .. Rate!Old - 1 PROVE Cardinality(AdmittedIn(a))' <= Max
      BY DEF WindowsHold, Rate!Old
    <3>1. CASE a - age[r] \in 0 .. RateWindow - Life - 1
      <4>1. AdmittedIn(a)' \subseteq AdmittedIn(a) \cup {r}
        BY <1>1 DEF AdmittedIn
      <4>2. AdmittedIn(a)' \subseteq entries' /\ entries' \subseteq Requests
        BY <1>1, <1>2, <3>1, <4>1, WindowInSet
      <4>3. Cardinality(entries) < Max
        BY <1>1, <1>7, <2>2 DEF RoomLeft
      <4>4. Cardinality(entries) \in Nat /\ Cardinality(entries \cup {r}) <= Cardinality(entries) + 1
        BY <1>2, RequestsCount
      <4>5. /\ Cardinality(AdmittedIn(a)') \in Nat /\ Cardinality(entries') \in Nat
            /\ Cardinality(AdmittedIn(a)') <= Cardinality(entries')
        BY <4>2, RequestsCount
      <4> QED
        BY <1>1, <4>3, <4>4, <4>5, RateConstants
    <3>2. CASE a - age[r] \notin 0 .. RateWindow - Life - 1
      <4>1. AdmittedIn(a)' = AdmittedIn(a)
        BY <1>1, <3>2 DEF AdmittedIn
      <4> QED
        BY <4>1 DEF WindowsHold
    <3> QED
      BY <3>1, <3>2
  <2> QED
    BY <2>1, <2>2
<1>10. RefusalsHold'
  BY <1>1, <1>2, RefusalsStay
<1> QED
  BY <1>3, <1>4, <1>5, <1>6, <1>8, <1>9, <1>10

\* Trimming takes what is a window older than the request that trims.
LEMMA RateTrim ==
    ASSUME RateInv, NEW r \in Requests, Rate!Trim(r)
    PROVE  RateInv'
<1> USE DEF RateInv
<1>1. /\ pc[r] = "trim" /\ pc'[r] = "count"
      /\ entries' = {q \in entries : age[q] - age[r] < RateWindow}
      /\ \A q \in Requests \ {r} : pc'[q] = pc[q]
      /\ pc' \in [Requests -> Rate!Steps]
      /\ UNCHANGED <<limiter, age, met>>
  BY DEF Rate!Trim, Rate!Goto, Rate!TypeOK, Rate!Steps
<1>2. /\ entries \subseteq Requests /\ limiter \in {"send", "auth"}
      /\ \A q \in Requests : age[q] \in Int /\ age[q] >= 0
  BY RateConstants DEF Rate!TypeOK, Rate!Old
<1>3. Rate!TypeOK'
  BY <1>1, <1>2 DEF Rate!TypeOK
<1>4. Clocks'
  BY <1>1 DEF Clocks, Rate!InFlight
<1>5. Members'
  BY <1>1, <1>2 DEF Members, Added
<1>6. KeptYoung'
  BY <1>1, <1>2, RateConstants DEF KeptYoung, Added
<1>7. TrimmedStays'
  BY <1>1, <1>2 DEF TrimmedStays
<1>8. Rate!Racing' = Rate!Racing /\ Rate!Racing \subseteq Requests
  BY <1>1, <1>2 DEF Rate!Racing
<1>9. Alone'
  BY <1>1, <1>8 DEF Alone
<1>10. RoomLeft'
  <2>1. /\ Cardinality(entries) \in Nat /\ Cardinality(entries') \in Nat
        /\ Cardinality(entries') <= Cardinality(entries)
    BY <1>1, <1>2, RequestsCount
  <2> QED
    BY <1>1, <1>8, <2>1, RateConstants DEF RoomLeft
<1>11. WindowsHold'
  <2> HIDE DEF RateInv
  <2>1. \A q \in Requests : pc'[q] = "admitted" => pc[q] = "admitted"
    BY <1>1
  <2> QED
    BY <1>1, <2>1, WindowsStay
<1>12. RefusalsHold'
  BY <1>1, <1>2, RefusalsStay
<1> QED
  BY <1>3, <1>4, <1>5, <1>6, <1>7, <1>9, <1>10, <1>11, <1>12

\* A message that finds more than Max in the set will be refused.
LEMMA RateCountTooMany ==
    ASSUME RateInv, NEW r \in Requests, Rate!Count(r), limiter = "send", Cardinality(entries) > Max
    PROVE  RateInv'
<1> USE DEF RateInv
<1>1. /\ pc[r] = "count" /\ pc'[r] = "remove"
      /\ \A q \in Requests \ {r} : pc'[q] = pc[q]
      /\ pc' \in [Requests -> Rate!Steps]
      /\ UNCHANGED <<limiter, age, entries, met>>
  BY RateCardinality DEF Rate!Count, Rate!Goto, Rate!TypeOK, Rate!Steps
<1>2. /\ entries \subseteq Requests
      /\ \A q \in Requests : age[q] \in Int /\ age[q] >= 0
  BY RateConstants DEF Rate!TypeOK, Rate!Old
<1>3. Rate!TypeOK'
  BY <1>1 DEF Rate!TypeOK
<1>4. Clocks'
  BY <1>1 DEF Clocks, Rate!InFlight
<1>5. Members' /\ KeptYoung' /\ TrimmedStays'
  BY <1>1, <1>2 DEF Members, KeptYoung, TrimmedStays, Added
<1>6. Rate!Racing' = Rate!Racing
  BY <1>1 DEF Rate!Racing
<1>7. Alone' /\ RoomLeft'
  BY <1>1, <1>6 DEF Alone, RoomLeft
<1>8. WindowsHold'
  <2> HIDE DEF RateInv
  <2>1. \A q \in Requests : pc'[q] = "admitted" => pc[q] = "admitted"
    BY <1>1
  <2> QED
    BY <1>1, <2>1, WindowsStay
<1>9. RefusalsHold'
  <2>1. r \notin met => Cardinality(Filling(r)) >= Max
    <3> SUFFICES ASSUME r \notin met PROVE Cardinality(Filling(r)) >= Max
      OBVIOUS
    <3>1. Rate!Racing = {r}
      BY <1>1 DEF Alone, Rate!Racing
    <3>2. \A q \in entries \ {r} : pc[q] \in {"admitted", "dead"}
      BY <1>2, <3>1 DEF Members, Added, Rate!Racing
    <3>3. entries \ {r} \subseteq Filling(r) /\ Filling(r) \subseteq Requests
      BY <1>1, <1>2, <3>2 DEF TrimmedStays, Filling
    <3>4. /\ Cardinality(entries \ {r}) \in Nat /\ Cardinality(Filling(r)) \in Nat
          /\ Cardinality(entries \ {r}) <= Cardinality(Filling(r))
      BY <3>3, RequestsCount
    <3>5. Cardinality(entries) \in Nat /\ Cardinality(entries \ {r}) >= Cardinality(entries) - 1
      BY <1>2, RequestsCount
    <3> QED
      BY <3>4, <3>5, RateConstants
  <2>2. /\ \A q \in Requests : pc[q] \in {"admitted", "dead"} => pc'[q] = pc[q]
        /\ \A q \in Requests \ met : pc'[q] \in {"remove", "refused"} /\ age[q] < RateWindow =>
              pc[q] \in {"remove", "refused"} \/ Cardinality(Filling(q)) >= Max
    BY <1>1, <2>1
  <2> HIDE DEF RateInv
  <2> QED
    BY <1>1, <2>2, RefusalsStay
<1> QED
  BY <1>3, <1>4, <1>5, <1>7, <1>8, <1>9

\* A message that finds no more than Max in the set, itself included, is admitted.
LEMMA RateCountFits ==
    ASSUME RateInv, NEW r \in Requests, Rate!Count(r), limiter = "send", ~(Cardinality(entries) > Max)
    PROVE  RateInv'
<1> USE DEF RateInv
<1>1. /\ pc[r] = "count" /\ pc'[r] = "admitted"
      /\ \A q \in Requests \ {r} : pc'[q] = pc[q]
      /\ pc' \in [Requests -> Rate!Steps]
      /\ UNCHANGED <<limiter, age, entries, met>>
  BY RateCardinality DEF Rate!Count, Rate!Goto, Rate!TypeOK, Rate!Steps
<1>2. /\ entries \subseteq Requests /\ age[r] <= Life
      /\ \A q \in Requests : age[q] \in Int /\ age[q] >= 0
  BY <1>1, RateConstants DEF Rate!TypeOK, Rate!Old, Clocks, Rate!InFlight
<1>3. Rate!TypeOK'
  BY <1>1 DEF Rate!TypeOK
<1>4. Clocks'
  BY <1>1 DEF Clocks, Rate!InFlight
<1>5. Members' /\ KeptYoung' /\ TrimmedStays'
  BY <1>1, <1>2 DEF Members, KeptYoung, TrimmedStays, Added
<1>6. Rate!Racing' = Rate!Racing \ {r}
  BY <1>1 DEF Rate!Racing
<1>7. Alone' /\ RoomLeft'
  BY <1>1, <1>6 DEF Alone, RoomLeft
<1>8. WindowsHold'
  <2> SUFFICES ASSUME NEW a \in 0 .. Rate!Old - 1 PROVE Cardinality(AdmittedIn(a))' <= Max
    BY DEF WindowsHold, Rate!Old
  <2>1. CASE a - age[r] \in 0 .. RateWindow - Life - 1
    <3>1. r \in entries
      BY <1>1, <1>2, RateConstants DEF KeptYoung, Added
    <3>2. AdmittedIn(a)' \subseteq AdmittedIn(a) \cup {r}
      BY <1>1 DEF AdmittedIn
    <3>3. AdmittedIn(a)' \subseteq entries
      BY <1>1, <1>2, <2>1, <3>1, <3>2, WindowInSet
    <3>4. /\ Cardinality(AdmittedIn(a)') \in Nat /\ Cardinality(entries) \in Nat
          /\ Cardinality(AdmittedIn(a)') <= Cardinality(entries)
      BY <1>2, <3>3, RequestsCount
    <3> QED
      BY <3>4, RateConstants
  <2>2. CASE a - age[r] \notin 0 .. RateWindow - Life - 1
    <3>1. AdmittedIn(a)' = AdmittedIn(a)
      BY <1>1, <2>2 DEF AdmittedIn
    <3> QED
      BY <3>1 DEF WindowsHold
  <2> QED
    BY <2>1, <2>2
<1>9. RefusalsHold'
  BY <1>1, <1>2, RefusalsStay
<1> QED
  BY <1>3, <1>4, <1>5, <1>7, <1>8, <1>9

\* A request from an address counts first, and joins those that are about to add.
LEMMA RateCountAuth ==
    ASSUME RateInv, NEW r \in Requests, Rate!Count(r), limiter = "auth"
    PROVE  RateInv'
<1> USE DEF RateInv
<1>1. /\ pc[r] = "count" /\ pc'[r] = IF Cardinality(entries) >= Max THEN "refused" ELSE "add"
      /\ \A q \in Requests \ {r} : pc'[q] = pc[q]
      /\ pc' \in [Requests -> Rate!Steps]
      /\ UNCHANGED <<limiter, age, entries>>
      /\ met' = IF Cardinality(entries) >= Max \/ Rate!Racing = {} THEN met ELSE met \cup Rate!Racing \cup {r}
  BY RateCardinality DEF Rate!Count, Rate!Goto, Rate!Meets, Rate!TypeOK, Rate!Steps
<1>2. /\ entries \subseteq Requests /\ r \notin entries /\ met \subseteq met'
      /\ \A q \in Requests : age[q] \in Int /\ age[q] >= 0
      /\ Rate!Racing \subseteq Requests /\ met' \subseteq Requests
      /\ Cardinality(entries) \in Nat
  <2>1. entries \subseteq Requests /\ Rate!Racing \subseteq Requests /\ met \subseteq Requests
    BY DEF Rate!TypeOK, Rate!Racing
  <2>2. \A q \in Requests : age[q] \in Int /\ age[q] >= 0
    BY RateConstants DEF Rate!TypeOK, Rate!Old
  <2>3. Cardinality(entries) \in Nat
    BY <2>1, RequestsCount
  <2>4. r \notin entries
    BY <1>1 DEF Members, Added
  <2> QED
    BY <1>1, <2>1, <2>2, <2>3, <2>4
<1>3. Rate!TypeOK'
  BY <1>1, <1>2 DEF Rate!TypeOK
<1>4. Clocks'
  BY <1>1 DEF Clocks, Rate!InFlight
<1>5. Members' /\ KeptYoung' /\ TrimmedStays'
  BY <1>1, <1>2 DEF Members, KeptYoung, TrimmedStays, Added
<1>6. Alone' /\ RoomLeft'
  <2>1. CASE Cardinality(entries) >= Max
    <3>1. Rate!Racing' = Rate!Racing
      BY <1>1, <2>1 DEF Rate!Racing
    <3> QED
      BY <1>1, <2>1, <3>1 DEF Alone, RoomLeft
  <2>2. CASE ~(Cardinality(entries) >= Max)
    <3>1. Rate!Racing' = Rate!Racing \cup {r}
      BY <1>1, <2>2 DEF Rate!Racing
    <3>2. Cardinality(entries) < Max
      BY <1>2, <2>2, RateConstants
    <3> QED
      BY <1>1, <2>2, <3>1, <3>2 DEF Alone, RoomLeft
  <2> QED
    BY <2>1, <2>2
<1>7. WindowsHold'
  <2> HIDE DEF RateInv
  <2>1. \A q \in Requests : pc'[q] = "admitted" => pc[q] = "admitted"
    BY <1>1
  <2> QED
    BY <1>1, <1>2, <2>1, WindowsStay
<1>8. RefusalsHold'
  <2>1. pc'[r] = "refused" => Cardinality(Filling(r)) >= Max
    <3> SUFFICES ASSUME Cardinality(entries) >= Max PROVE Cardinality(Filling(r)) >= Max
      BY <1>1
    <3>1. entries \subseteq Filling(r) /\ Filling(r) \subseteq Requests
      BY <1>1, <1>2 DEF TrimmedStays, Filling, Members, Added
    <3>2. /\ Cardinality(entries) \in Nat /\ Cardinality(Filling(r)) \in Nat
          /\ Cardinality(entries) <= Cardinality(Filling(r))
      BY <3>1, RequestsCount
    <3> QED
      BY <3>2, RateConstants
  <2>2. /\ \A q \in Requests : pc[q] \in {"admitted", "dead"} => pc'[q] = pc[q]
        /\ \A q \in Requests \ met : pc'[q] \in {"remove", "refused"} /\ age[q] < RateWindow =>
              pc[q] \in {"remove", "refused"} \/ Cardinality(Filling(q)) >= Max
    BY <1>1, <2>1
  <2> HIDE DEF RateInv
  <2> QED
    BY <1>1, <1>2, <2>2, RefusalsStay
<1> QED
  BY <1>3, <1>4, <1>5, <1>6, <1>7, <1>8

\* A refused message leaves the set; who dies leaves what it added.
LEMMA RateLeave ==
    ASSUME RateInv, NEW r \in Requests, Rate!Remove(r) \/ Rate!Die(r)
    PROVE  RateInv'
<1> USE DEF RateInv
<1>1. /\ pc[r] \in {"add", "trim", "count", "remove"}
      /\ \/ pc[r] = "remove" /\ pc'[r] = "refused" /\ entries' = entries \ {r}
         \/ pc'[r] = "dead" /\ entries' = entries
      /\ \A q \in Requests \ {r} : pc'[q] = pc[q]
      /\ pc' \in [Requests -> Rate!Steps]
      /\ UNCHANGED <<limiter, age, met>>
  <2>1. CASE Rate!Remove(r)
    BY <2>1 DEF Rate!Remove, Rate!Goto, Rate!TypeOK, Rate!Steps
  <2>2. CASE Rate!Die(r)
    BY <2>2 DEF Rate!Die, Rate!InFlight, Rate!Goto, Rate!TypeOK, Rate!Steps
  <2> QED
    BY <2>1, <2>2
<1>2. /\ entries \subseteq Requests /\ entries' \subseteq entries /\ limiter \in {"send", "auth"}
      /\ \A q \in Requests : age[q] \in Int /\ age[q] >= 0
  BY <1>1, RateConstants DEF Rate!TypeOK, Rate!Old
<1>3. Rate!TypeOK'
  BY <1>1, <1>2 DEF Rate!TypeOK
<1>4. Clocks'
  BY <1>1 DEF Clocks, Rate!InFlight
<1>5. Members' /\ KeptYoung'
  BY <1>1, <1>2 DEF Members, KeptYoung, Added
<1>6. TrimmedStays'
  BY <1>1, <1>2 DEF TrimmedStays
<1>7. Rate!Racing' = Rate!Racing \ {r}
  BY <1>1, <1>2 DEF Rate!Racing
<1>8. Alone' /\ RoomLeft'
  <2>1. /\ Cardinality(entries) \in Nat /\ Cardinality(entries') \in Nat
        /\ Cardinality(entries') <= Cardinality(entries)
    BY <1>2, RequestsCount
  <2>2. Alone'
    BY <1>1, <1>7 DEF Alone
  <2> QED
    BY <1>1, <1>7, <2>1, <2>2, RateConstants DEF RoomLeft
<1>9. WindowsHold'
  <2> HIDE DEF RateInv
  <2>1. \A q \in Requests : pc'[q] = "admitted" => pc[q] = "admitted"
    BY <1>1
  <2> QED
    BY <1>1, <2>1, WindowsStay
<1>10. RefusalsHold'
  BY <1>1, <1>2, RefusalsStay
<1> QED
  BY <1>3, <1>4, <1>5, <1>6, <1>8, <1>9, <1>10

\* As time passes, the ages of the requests that are not too old stay as far apart.
LEMMA RateTick ==
    ASSUME RateInv, Rate!Tick
    PROVE  RateInv'
<1> USE DEF RateInv
<1>1. /\ UNCHANGED <<limiter, pc, entries, met>>
      /\ \A q \in Requests :
            /\ age[q] \in 0 .. 2 * RateWindow
            /\ age'[q] = IF pc[q] # "idle" /\ age[q] < 2 * RateWindow THEN age[q] + 1 ELSE age[q]
            /\ q \in Rate!InFlight => age[q] < Life
      /\ age' = [q \in Requests |-> age'[q]]
  BY DEF Rate!Tick, Rate!TypeOK, Rate!Old
<1>2. entries \subseteq Requests /\ limiter \in {"send", "auth"}
  BY DEF Rate!TypeOK
<1>3. \A q \in Requests : age[q] \in Int /\ age'[q] \in 0 .. 2 * RateWindow
  BY <1>1, RateConstants
<1>4. Rate!TypeOK'
  <2>1. age' \in [Requests -> 0 .. Rate!Old]
    BY <1>1, <1>3 DEF Rate!Old
  <2> QED
    BY <1>1, <2>1 DEF Rate!TypeOK, Rate!Old
<1>5. Clocks'
  BY <1>1, <1>3, RateConstants DEF Clocks, Rate!InFlight
<1>6. Members'
  BY <1>1 DEF Members, Added
<1>7. KeptYoung'
  BY <1>1, <1>3, RateConstants DEF KeptYoung, Added
<1>8. TrimmedStays'
  <2> SUFFICES ASSUME NEW r \in Requests, pc[r] \in {"count", "remove"}, NEW q \in entries
               PROVE  age'[q] - age'[r] < RateWindow
    BY <1>1 DEF TrimmedStays
  <2>1. age[r] < Life /\ age[q] - age[r] < RateWindow
    BY <1>1 DEF TrimmedStays, Rate!InFlight
  <2> QED
    BY <1>1, <1>2, <1>3, <2>1, RateConstants
<1>9. Rate!Racing' = Rate!Racing
  BY <1>1 DEF Rate!Racing
<1>10. Alone' /\ RoomLeft'
  BY <1>1, <1>9 DEF Alone, RoomLeft
<1>11. WindowsHold'
  <2> SUFFICES ASSUME NEW a \in 0 .. Rate!Old - 1 PROVE Cardinality(AdmittedIn(a))' <= Max
    BY DEF WindowsHold, Rate!Old
  <2>1. \A q \in Requests : pc[q] = "admitted" => age'[q] >= 1
    BY <1>1, <1>3, RateConstants
  <2>2. CASE a = 0
    <3>1. AdmittedIn(a)' = {}
      BY <1>1, <1>3, <2>1, <2>2, RateConstants DEF AdmittedIn
    <3> QED
      BY <3>1, FS_EmptySet, RateConstants
  <2>3. CASE a # 0
    <3>1. a - 1 \in 0 .. Rate!Old - 1
      BY <2>3, RateConstants DEF Rate!Old
    <3>2. AdmittedIn(a)' = AdmittedIn(a - 1)
      <4>1. ASSUME NEW q \in Requests, pc[q] = "admitted"
            PROVE  a - age'[q] \in 0 .. RateWindow - Life - 1
                     <=> (a - 1) - age[q] \in 0 .. RateWindow - Life - 1
        BY <1>1, <1>3, <4>1, RateConstants DEF Rate!Old
      <4> QED
        BY <1>1, <4>1 DEF AdmittedIn
    <3> QED
      BY <3>1, <3>2 DEF WindowsHold
  <2> QED
    BY <2>2, <2>3
<1>12. RefusalsHold'
  <2> SUFFICES ASSUME NEW r \in Requests \ met, pc[r] \in {"remove", "refused"}, age'[r] < RateWindow
               PROVE  Cardinality(Filling(r))' >= Max
    BY <1>1 DEF RefusalsHold
  <2>1. age'[r] = age[r] + 1 /\ age[r] < RateWindow
    BY <1>1, <1>3, RateConstants
  <2>2. \A q \in Requests : age'[q] - age'[r] <= age[q] - age[r]
    BY <1>1, <1>3, <2>1
  <2>3. Filling(r) \subseteq Filling(r)' /\ Filling(r)' \subseteq Requests
    BY <1>1, <1>3, <2>2, RateConstants DEF Filling
  <2>4. Cardinality(Filling(r)) >= Max
    BY <2>1 DEF RefusalsHold
  <2>5. /\ Cardinality(Filling(r)') \in Nat /\ Cardinality(Filling(r)) \in Nat
        /\ Cardinality(Filling(r)) <= Cardinality(Filling(r)')
    BY <2>3, RequestsCount
  <2> QED
    BY <2>4, <2>5, RateConstants
<1> QED
  BY <1>4, <1>5, <1>6, <1>7, <1>8, <1>10, <1>11, <1>12

LEMMA RateStep == RateInv /\ [Rate!Next]_rate => RateInv'
<1> SUFFICES ASSUME RateInv, [Rate!Next]_rate PROVE RateInv'
  OBVIOUS
<1>1. ASSUME NEW r \in Requests,
             Rate!Start(r) \/ Rate!Add(r) \/ Rate!Trim(r) \/ Rate!Remove(r) \/ Rate!Die(r)
      PROVE  RateInv'
  <2>1. limiter \in {"send", "auth"}
    BY DEF RateInv, Rate!TypeOK
  <2> QED
    BY <1>1, <2>1, RateStart, RateAddSend, RateAddAuth, RateTrim, RateLeave
<1>2. ASSUME NEW r \in Requests, Rate!Count(r) PROVE RateInv'
  <2>1. limiter \in {"send", "auth"}
    BY DEF RateInv, Rate!TypeOK
  <2> QED
    BY <1>2, <2>1, RateCountTooMany, RateCountFits, RateCountAuth
<1>3. CASE UNCHANGED rate
  <2>1. UNCHANGED <<limiter, pc, age, entries, met>>
    BY <1>3 DEF rate
  <2> QED
    BY <2>1 DEF RateInv, Rate!TypeOK, Clocks, Rate!InFlight, Members, Added, KeptYoung, TrimmedStays,
                Alone, RoomLeft, Rate!Racing, WindowsHold, AdmittedIn, RefusalsHold, Filling, Rate!Old
<1> QED
  BY <1>1, <1>2, <1>3, RateTick DEF Rate!Next

\* No window lets in more than Max messages, nor more than Max requests from an address
\* that met no other, and a refusal that met no other was filled by admitted or dead
\* requests: for any window, limit and requests (messaging-rate-limit.service.ts,
\* auth-ip-rate-limit.interceptor.ts).
THEOREM RatesAreExact == Rate!Spec => []RateExact
<1>1. RateInv => Rate!WithinLimit
  <2> SUFFICES ASSUME RateInv, NEW r \in Requests, pc[r] = "admitted", age[r] < Rate!Old
               PROVE  Cardinality(IF limiter = "send" THEN Rate!AdmittedFrom(r)
                                  ELSE Rate!AdmittedFrom(r) \ met) <= Max
    BY RateCardinality DEF Rate!WithinLimit
  <2>1. age[r] \in 0 .. Rate!Old - 1
    BY RateConstants DEF RateInv, Rate!TypeOK, Rate!Old
  <2>2. (IF limiter = "send" THEN Rate!AdmittedFrom(r) ELSE Rate!AdmittedFrom(r) \ met)
          = AdmittedIn(age[r])
    BY DEF Rate!AdmittedFrom, AdmittedIn
  <2> QED
    BY <2>1, <2>2 DEF RateInv, WindowsHold
<1>2. RateInv => Rate!RefusedWhenFull
  BY RateCardinality DEF RateInv, RefusalsHold, Filling, Rate!RefusedWhenFull
<1>3. RateInv => RateExact
  BY <1>1, <1>2 DEF RateInv, RateExact
<1> QED
  BY <1>3, RateInit, RateStep, PTL DEF Rate!Spec, Rate!vars, rate

-----------------------------------------------------------------------------
(* ReportMail.                                                             *)

\* An instance of a module has the finite sets of this module.
LEMMA MailCardinality == \A S : Mail!Cardinality(S) = Cardinality(S)
  BY DEF Mail!Cardinality, Cardinality, IsFiniteSet, Mail!IsFiniteSet

\* The requests a handler may hold, whose batches are of a set of reports.
MailRequests(reports) ==
    [pc : Mail!Steps, id : Ids \cup {0}, age : 0 .. 2, knew : BOOLEAN, batch : SUBSET reports]

\* The reports are numbered in the order of their commits.
Numbered == \E n \in Nat : filed = 1 .. n

\* Between two requests a handler holds nothing.
Rests == \A h \in Handlers : mailReq[h].pc = "idle" => mailReq[h] = Mail!NoReq

\* A report that is notified about is filed and not yet counted.
OwnReport == \A h \in Handlers : mailReq[h].pc # "idle" => mailReq[h].id \in filed \ counted

\* Two requests notify about two reports.
OneNotifier ==
    \A h, g \in Handlers :
        h # g /\ mailReq[h].pc # "idle" /\ mailReq[g].pc # "idle" => mailReq[h].id # mailReq[g].id

\* Once its mail is out, a request has covered its report and the batch it read.
Covered ==
    \A h \in Handlers :
        mailReq[h].pc \in {"setLast", "reset"} => mailReq[h].id \in told /\ mailReq[h].batch \subseteq told

MailInv ==
    /\ Mail!TypeOK
    /\ Numbered /\ Rests /\ OwnReport /\ OneNotifier /\ Covered
    /\ Mail!EveryReportHeard /\ Mail!WindowKept

\* The reports filed can be counted, and so can a part of them.
LEMMA ReportsCount ==
    ASSUME Numbered
    PROVE  /\ IsFiniteSet(filed) /\ filed = 1 .. Cardinality(filed) /\ Cardinality(filed) \in Nat
           /\ \A S \in SUBSET filed : IsFiniteSet(S) /\ Cardinality(S) \in Nat
<1>1. PICK n \in Nat : filed = 1 .. n
  BY DEF Numbered
<1>2. IsFiniteSet(1 .. n) /\ Cardinality(1 .. n) = n
  BY FS_Interval
<1> QED
  BY <1>1, <1>2, FS_Subset, FS_CardinalityType

LEMMA NoReqTyped ==
    /\ Mail!NoReq.pc = "idle" /\ Mail!NoReq.id = 0
    /\ \A S : Mail!NoReq \in MailRequests(S)
  BY DEF Mail!NoReq, MailRequests, Mail!Steps

LEMMA MailInit == Mail!Init => MailInv
<1> SUFFICES ASSUME Mail!Init PROVE MailInv
  OBVIOUS
<1>1. mailReq = [h \in Handlers |-> Mail!NoReq] /\ filed = {} /\ counted = {} /\ count = 0
  BY DEF Mail!Init
<1>2. mailReq \in [Handlers -> MailRequests(filed)]
  BY <1>1, NoReqTyped
<1>3. count = Mail!Cardinality(counted)
  BY <1>1, MailCardinality, FS_EmptySet
<1>4. Mail!TypeOK
  BY <1>2, <1>3 DEF Mail!Init, Mail!TypeOK, MailRequests, Mail!Window, Mail!CountTtl
<1>5. Numbered
  <2>1. filed = 1 .. 0
    BY <1>1
  <2> QED
    BY <2>1 DEF Numbered
<1>6. \A h \in Handlers : mailReq[h] = Mail!NoReq /\ mailReq[h].pc = "idle"
  BY <1>1, NoReqTyped
<1>7. Rests /\ OwnReport /\ OneNotifier /\ Covered /\ Mail!WindowKept
  BY <1>6 DEF Rests, OwnReport, OneNotifier, Covered, Mail!WindowKept
<1>8. Mail!EveryReportHeard
  BY <1>1 DEF Mail!EveryReportHeard
<1> QED
  BY <1>4, <1>5, <1>7, <1>8 DEF MailInv

\* When the request of one handler becomes x, it is enough to look at x.
LEMMA OneRequestMoves ==
    ASSUME MailInv, NEW h \in Handlers, NEW x \in MailRequests(filed'),
           mailReq' = [mailReq EXCEPT ![h] = x],
           filed \subseteq filed', told \subseteq told',
           x.pc = "idle" => x = Mail!NoReq,
           x.pc # "idle" => x.id \in filed' \ counted',
           \A g \in Handlers \ {h} :
              mailReq[g].pc # "idle" =>
                 mailReq[g].id \notin counted' /\ (x.pc # "idle" => mailReq[g].id # x.id),
           x.pc \in {"setLast", "reset"} => x.id \in told' /\ x.batch \subseteq told'
    PROVE  /\ mailReq' \in [Handlers -> MailRequests(filed')]
           /\ mailReq'[h] = x /\ \A g \in Handlers \ {h} : mailReq'[g] = mailReq[g]
           /\ Rests' /\ OwnReport' /\ OneNotifier' /\ Covered'
<1>1. mailReq \in [Handlers -> MailRequests(filed)]
  BY DEF MailInv, Mail!TypeOK, MailRequests, Mail!Window
<1>2. MailRequests(filed) \subseteq MailRequests(filed')
  BY DEF MailRequests
<1>3. mailReq'[h] = x /\ \A g \in Handlers \ {h} : mailReq'[g] = mailReq[g]
  BY <1>1
<1>4. mailReq' \in [Handlers -> MailRequests(filed')]
  BY <1>1, <1>2
<1>5. Rests' /\ OwnReport' /\ Covered'
  <2> USE DEF MailInv
  <2>1. Rests'
    BY <1>3, NoReqTyped DEF Rests, Mail!NoReq
  <2>2. OwnReport'
    BY <1>3 DEF OwnReport
  <2>3. Covered'
    BY <1>3 DEF Covered
  <2> QED
    BY <2>1, <2>2, <2>3
<1>6. OneNotifier'
  BY <1>3 DEF MailInv, OneNotifier
<1> QED
  BY <1>3, <1>4, <1>5, <1>6

\* createReport's commit: a new number, notified about by h alone.
LEMMA MailFile ==
    ASSUME MailInv, NEW h \in Handlers, Mail!File(h)
    PROVE  MailInv'
<1> DEFINE i == Cardinality(filed) + 1
           x == [Mail!NoReq EXCEPT !.pc = "last", !.id = i]
<1>1. /\ mailReq[h].pc = "idle" /\ i \in Ids /\ filed' = filed \cup {i}
      /\ mailReq' = [mailReq EXCEPT ![h] = x]
      /\ UNCHANGED <<lastAge, count, countAge, counted, told, silent, mailAge>>
  BY MailCardinality DEF Mail!File, Mail!redis, Mail!mails
<1>2. x.pc = "last" /\ x.id = i /\ \A S : x \in MailRequests(S)
  <2> HIDE DEF i
  <2>1. ASSUME NEW S PROVE x \in MailRequests(S) /\ x.pc = "last" /\ x.id = i
    <3>1. Mail!NoReq \in MailRequests(S)
      BY NoReqTyped
    <3>2. x \in MailRequests(S)
      BY <1>1, <3>1 DEF MailRequests, Mail!Steps
    <3>3. x.pc = "last" /\ x.id = i
      BY <3>1 DEF MailRequests
    <3> QED
      BY <3>2, <3>3
  <2> QED
    BY <2>1
<1> HIDE DEF x
<1>3. i \notin filed /\ i \in Nat \ {0} /\ filed = 1 .. i - 1
  BY ReportsCount DEF MailInv
<1> HIDE DEF i
<1>4. counted \subseteq filed
  BY DEF MailInv, Mail!TypeOK
<1>5. /\ mailReq' \in [Handlers -> MailRequests(filed')]
      /\ mailReq'[h] = x /\ \A g \in Handlers \ {h} : mailReq'[g] = mailReq[g]
      /\ Rests' /\ OwnReport' /\ OneNotifier' /\ Covered'
  <2>1. \A g \in Handlers \ {h} :
           mailReq[g].pc # "idle" => mailReq[g].id \notin counted' /\ mailReq[g].id # i
    BY <1>1, <1>3 DEF MailInv, OwnReport
  <2> QED
    BY <1>1, <1>2, <1>3, <1>4, <2>1, OneRequestMoves
<1>6. Mail!TypeOK'
  BY <1>1, <1>5 DEF MailInv, Mail!TypeOK, MailRequests, Mail!Window
<1>7. Numbered'
  <2>1. filed' = 1 .. i
    BY <1>1, <1>3
  <2> QED
    BY <1>3, <2>1 DEF Numbered
<1>8. Mail!EveryReportHeard'
  BY <1>1, <1>2, <1>3, <1>5, NoReqTyped DEF MailInv, Mail!EveryReportHeard, Rests
<1>9. Mail!WindowKept'
  BY <1>1, <1>2, <1>5 DEF MailInv, Mail!WindowKept
<1> QED
  BY <1>5, <1>6, <1>7, <1>8, <1>9 DEF MailInv

\* The steps of h that send nothing and end nothing.
LEMMA MailGoes ==
    ASSUME MailInv, NEW h \in Handlers,
           Mail!GetLast(h) \/ Mail!GetCount(h) \/ Mail!SetLast(h)
    PROVE  MailInv'
<1> DEFINE old == mailReq[h]
<1>1. /\ old \in MailRequests(filed) /\ counted \subseteq filed
      /\ lastAge \in 0 .. 2 /\ mailAge \in 0 .. 2
      /\ mailReq \in [Handlers -> MailRequests(filed)]
  BY DEF MailInv, Mail!TypeOK, MailRequests, Mail!Window
<1>2. PICK x \in MailRequests(filed) :
         /\ mailReq' = [mailReq EXCEPT ![h] = x]
         /\ x.id = old.id /\ x.pc # "idle" /\ old.pc # "idle"
         /\ x.pc \in {"setLast", "reset"} => old.pc \in {"setLast", "reset"} /\ x.batch = old.batch
         /\ x.pc \in {"batch", "mail"} /\ x.knew =>
               mailAge = 2 \/ (old.pc \in {"batch", "mail"} /\ old.knew)
  <2>1. CASE Mail!GetLast(h)
    <3> DEFINE step == IF lastAge < 2 THEN "count" ELSE "batch"
               knew == lastAge <= mailAge
               x == [old EXCEPT !.pc = step, !.age = 0, !.knew = knew]
    <3>1. mailReq' = [mailReq EXCEPT ![h] = x] /\ old.pc = "last"
      BY <2>1 DEF Mail!GetLast, Mail!Window
    <3>2. step \in {"count", "batch"} /\ knew \in BOOLEAN
          /\ (step = "batch" /\ knew => mailAge = 2)
      BY <1>1
    <3> HIDE DEF step, knew
    <3>3. x \in MailRequests(filed)
      <4> DEFINE y == [old EXCEPT !.pc = step]
                 z == [y EXCEPT !.age = 0]
      <4>1. y \in MailRequests(filed)
        BY <1>1, <3>2 DEF MailRequests, Mail!Steps
      <4>2. x = [z EXCEPT !.knew = knew]
        BY <1>1 DEF MailRequests
      <4> HIDE DEF y
      <4>3. z \in MailRequests(filed)
        BY <4>1 DEF MailRequests
      <4> HIDE DEF z
      <4> QED
        BY <3>2, <4>2, <4>3 DEF MailRequests
    <3>4. x.pc = step /\ x.knew = knew /\ x.id = old.id
      BY <1>1 DEF MailRequests
    <3> HIDE DEF x
    <3> QED
      BY <3>1, <3>2, <3>3, <3>4
  <2>2. CASE Mail!GetCount(h)
    <3> DEFINE x == [old EXCEPT !.pc = "mail", !.batch = counted]
    <3>1. mailReq' = [mailReq EXCEPT ![h] = x] /\ old.pc = "batch"
      BY <2>2 DEF Mail!GetCount
    <3>2. x \in MailRequests(filed)
      BY <1>1 DEF MailRequests, Mail!Steps
    <3>3. x.pc = "mail" /\ x.knew = old.knew /\ x.id = old.id
      BY <1>1 DEF MailRequests
    <3> HIDE DEF x
    <3> QED
      BY <3>1, <3>2, <3>3
  <2>3. CASE Mail!SetLast(h)
    <3> DEFINE x == [old EXCEPT !.pc = "reset"]
    <3>1. mailReq' = [mailReq EXCEPT ![h] = x] /\ old.pc = "setLast"
      BY <2>3 DEF Mail!SetLast, Mail!Goto
    <3>2. x \in MailRequests(filed)
      BY <1>1 DEF MailRequests, Mail!Steps
    <3>3. x.pc = "reset" /\ x.batch = old.batch /\ x.id = old.id
      BY <1>1 DEF MailRequests
    <3> HIDE DEF x
    <3> QED
      BY <3>1, <3>2, <3>3
  <2> QED
    BY <2>1, <2>2, <2>3
<1>3. /\ UNCHANGED <<filed, count, countAge, counted, told, silent, mailAge>>
      /\ lastAge' \in 0 .. 2
  BY <1>1 DEF Mail!GetLast, Mail!GetCount, Mail!SetLast, Mail!redis, Mail!mails, MailRequests
<1>4. old.pc # "idle" => old.id \in filed \ counted
  BY DEF MailInv, OwnReport
<1>5. \A g \in Handlers \ {h} :
         mailReq[g].pc # "idle" => mailReq[g].id \notin counted /\ mailReq[g].id # x.id
  BY <1>2 DEF MailInv, OwnReport, OneNotifier
<1>6. old.pc \in {"setLast", "reset"} => old.id \in told /\ old.batch \subseteq told
  BY DEF MailInv, Covered
<1>7. /\ mailReq' \in [Handlers -> MailRequests(filed')]
      /\ mailReq'[h] = x /\ \A g \in Handlers \ {h} : mailReq'[g] = mailReq[g]
      /\ Rests' /\ OwnReport' /\ OneNotifier' /\ Covered'
  BY <1>2, <1>3, <1>4, <1>5, <1>6, OneRequestMoves
<1>8. Mail!TypeOK'
  BY <1>3, <1>7 DEF MailInv, Mail!TypeOK, MailRequests, Mail!Window, Mail!CountTtl
<1>9. Numbered'
  BY <1>3 DEF MailInv, Numbered
<1>10. Mail!EveryReportHeard'
  BY <1>2, <1>3, <1>7 DEF MailInv, Mail!EveryReportHeard
<1>11. Mail!WindowKept'
  BY <1>2, <1>3, <1>7 DEF MailInv, Mail!WindowKept, Mail!Window
<1> QED
  BY <1>7, <1>8, <1>9, <1>10, <1>11 DEF MailInv

\* A request ends once its report is counted, covered or silent.
LEMMA MailEnds ==
    ASSUME MailInv, NEW h \in Handlers, mailReq[h].pc # "idle",
           mailReq' = [mailReq EXCEPT ![h] = Mail!NoReq],
           UNCHANGED <<filed, told, mailAge>>,
           lastAge' = lastAge, countAge' \in 0 .. 3 \cup {-1},
           counted' \subseteq counted \cup {mailReq[h].id},
           count' = Cardinality(counted'),
           silent \subseteq silent', silent' \subseteq filed,
           \A i \in counted \cup {mailReq[h].id} : i \in counted' \cup told \cup silent'
    PROVE  MailInv'
<1>1. counted \subseteq filed /\ mailReq[h].id \in filed
  BY DEF MailInv, Mail!TypeOK, OwnReport
<1>2. \A g \in Handlers \ {h} :
         mailReq[g].pc # "idle" => mailReq[g].id \notin counted /\ mailReq[g].id # mailReq[h].id
  BY DEF MailInv, OwnReport, OneNotifier
<1>3. /\ mailReq' \in [Handlers -> MailRequests(filed')]
      /\ mailReq'[h] = Mail!NoReq /\ \A g \in Handlers \ {h} : mailReq'[g] = mailReq[g]
      /\ Rests' /\ OwnReport' /\ OneNotifier' /\ Covered'
  <2>1. \A g \in Handlers \ {h} :
           mailReq[g].pc # "idle" =>
              mailReq[g].id \notin counted' /\ (Mail!NoReq.pc # "idle" => mailReq[g].id # Mail!NoReq.id)
    BY <1>2, NoReqTyped
  <2>2. filed \subseteq filed' /\ told \subseteq told' /\ Mail!NoReq \in MailRequests(filed')
    BY NoReqTyped
  <2> QED
    BY <2>1, <2>2, NoReqTyped, OneRequestMoves
<1>4. Mail!TypeOK'
  BY <1>1, <1>3, MailCardinality
  DEF MailInv, Mail!TypeOK, MailRequests, Mail!Window, Mail!CountTtl, Mail!NoTtl
<1>5. Numbered'
  BY DEF MailInv, Numbered
<1>6. Mail!EveryReportHeard'
  BY <1>3 DEF MailInv, Mail!EveryReportHeard
<1>7. Mail!WindowKept'
  BY <1>3, NoReqTyped DEF MailInv, Mail!WindowKept
<1> QED
  BY <1>3, <1>4, <1>5, <1>6, <1>7 DEF MailInv

LEMMA MailCount ==
    ASSUME MailInv, NEW h \in Handlers, Mail!CountReport(h)
    PROVE  MailInv'
<1>1. /\ mailReq[h].pc = "count" /\ mailReq' = [mailReq EXCEPT ![h] = Mail!NoReq]
      /\ count' = count + 1 /\ counted' = counted \cup {mailReq[h].id}
      /\ countAge' = IF countAge = 3 THEN -1 ELSE countAge
      /\ UNCHANGED <<filed, lastAge, told, silent, mailAge>>
  BY DEF Mail!CountReport, Mail!End, Mail!mails, Mail!CountTtl, Mail!NoTtl
<1>2. /\ counted \subseteq filed /\ silent \subseteq filed /\ countAge \in 0 .. 3 \cup {-1}
      /\ count = Cardinality(counted) /\ mailReq[h].id \notin counted
  BY <1>1, MailCardinality DEF MailInv, Mail!TypeOK, Mail!CountTtl, Mail!NoTtl, OwnReport
<1>3. IsFiniteSet(counted)
  BY <1>2, ReportsCount DEF MailInv
<1>4. count' = Cardinality(counted')
  BY <1>1, <1>2, <1>3, FS_AddElement
<1>5. countAge' \in 0 .. 3 \cup {-1}
  BY <1>1, <1>2
<1> QED
  BY <1>1, <1>2, <1>4, <1>5, MailEnds

LEMMA MailReset ==
    ASSUME MailInv, NEW h \in Handlers, Mail!ResetCount(h)
    PROVE  MailInv'
<1>1. /\ mailReq[h].pc = "reset" /\ mailReq' = [mailReq EXCEPT ![h] = Mail!NoReq]
      /\ count' = 0 /\ counted' = {} /\ countAge' = 0
      /\ silent' = silent \cup (counted \ mailReq[h].batch)
      /\ UNCHANGED <<filed, lastAge, told, mailAge>>
  BY DEF Mail!ResetCount, Mail!End
<1>2. counted \subseteq filed /\ silent \subseteq filed
  BY DEF MailInv, Mail!TypeOK
<1>3. mailReq[h].id \in told /\ mailReq[h].batch \subseteq told
  BY <1>1 DEF MailInv, Covered
<1>4. /\ count' = Cardinality(counted') /\ countAge' \in 0 .. 3 \cup {-1}
      /\ counted' \subseteq counted \cup {mailReq[h].id}
      /\ silent \subseteq silent' /\ silent' \subseteq filed
  BY <1>1, <1>2, FS_EmptySet
<1>5. \A i \in counted \cup {mailReq[h].id} : i \in counted' \cup told \cup silent'
  BY <1>1, <1>3
<1> QED
  BY <1>1, <1>4, <1>5, MailEnds

LEMMA MailFail ==
    ASSUME MailInv, NEW h \in Handlers, Mail!Fail(h)
    PROVE  MailInv'
<1>1. /\ mailReq[h].pc # "idle" /\ mailReq' = [mailReq EXCEPT ![h] = Mail!NoReq]
      /\ silent' = IF mailReq[h].pc \in {"last", "count", "batch", "mail"}
                     THEN silent \cup {mailReq[h].id} ELSE silent
      /\ UNCHANGED <<filed, lastAge, count, countAge, counted, told, mailAge>>
  BY DEF Mail!Fail, Mail!End, Mail!redis
<1>2. /\ silent \subseteq filed /\ countAge \in 0 .. 3 \cup {-1} /\ count = Cardinality(counted)
      /\ mailReq[h].id \in filed
      /\ mailReq[h].pc \in {"idle", "last", "count", "batch", "mail", "setLast", "reset"}
  BY <1>1, MailCardinality
  DEF MailInv, Mail!TypeOK, Mail!CountTtl, Mail!NoTtl, OwnReport, Mail!Steps
<1>3. mailReq[h].id \in silent' \cup told
  BY <1>1, <1>2 DEF MailInv, Covered
<1>4. \A i \in counted \cup {mailReq[h].id} : i \in counted' \cup told \cup silent'
  BY <1>1, <1>3
<1> QED
  BY <1>1, <1>2, <1>4, MailEnds

\* The mail covers its report and its batch, and what others knew is out of date.
LEMMA MailSent ==
    ASSUME MailInv, NEW h \in Handlers, Mail!SendMail(h)
    PROVE  MailInv'
<1>1. /\ mailReq[h].pc = "mail" /\ mailAge' = 0
      /\ told' = told \cup {mailReq[h].id} \cup mailReq[h].batch
      /\ mailReq' = [g \in Handlers |-> IF g = h THEN [mailReq[h] EXCEPT !.pc = "setLast"]
                                         ELSE [mailReq[g] EXCEPT !.knew = FALSE]]
      /\ UNCHANGED <<filed, lastAge, count, countAge, counted, silent>>
  BY DEF Mail!SendMail, Mail!Mailed, Mail!redis
<1>2. \A g \in Handlers : mailReq[g] \in MailRequests(filed)
  BY DEF MailInv, Mail!TypeOK, MailRequests, Mail!Window
<1>3. /\ mailReq'[h] = [mailReq[h] EXCEPT !.pc = "setLast"]
      /\ \A g \in Handlers \ {h} : mailReq'[g] = [mailReq[g] EXCEPT !.knew = FALSE]
  BY <1>1
<1>4. /\ mailReq'[h] \in MailRequests(filed)
      /\ mailReq'[h].pc = "setLast" /\ mailReq'[h].id = mailReq[h].id
      /\ mailReq'[h].batch = mailReq[h].batch
  BY <1>2, <1>3 DEF MailRequests, Mail!Steps
<1>5. ASSUME NEW g \in Handlers \ {h}
      PROVE  /\ mailReq'[g] \in MailRequests(filed) /\ mailReq'[g].knew = FALSE
             /\ mailReq'[g].pc = mailReq[g].pc /\ mailReq'[g].id = mailReq[g].id
             /\ mailReq'[g].batch = mailReq[g].batch
             /\ mailReq[g] = Mail!NoReq => mailReq'[g] = Mail!NoReq
  <2>1. mailReq[g] \in MailRequests(filed) /\ mailReq'[g] = [mailReq[g] EXCEPT !.knew = FALSE]
    BY <1>2, <1>3
  <2>2. mailReq'[g] \in MailRequests(filed)
    BY <2>1 DEF MailRequests
  <2>3. /\ mailReq'[g].pc = mailReq[g].pc /\ mailReq'[g].id = mailReq[g].id
        /\ mailReq'[g].batch = mailReq[g].batch
    BY <2>1 DEF MailRequests
  <2>4. mailReq'[g].knew = FALSE
    BY <2>1 DEF MailRequests
  <2>5. mailReq[g] = Mail!NoReq => mailReq'[g] = Mail!NoReq
    <3>1. Mail!NoReq.knew = FALSE
      BY DEF Mail!NoReq
    <3>2. \A r \in MailRequests(filed) : r.knew = FALSE => [r EXCEPT !.knew = FALSE] = r
      BY DEF MailRequests
    <3> QED
      BY <2>1, <3>1, <3>2
  <2> QED
    BY <2>2, <2>3, <2>4, <2>5
<1>6. mailReq' \in [Handlers -> MailRequests(filed)]
  <2>1. mailReq' = [g \in Handlers |-> mailReq'[g]]
    BY <1>1
  <2>2. \A g \in Handlers : mailReq'[g] \in MailRequests(filed)
    BY <1>4, <1>5
  <2> QED
    BY <2>1, <2>2
<1>7. mailReq[h].id \in filed /\ mailReq[h].batch \subseteq filed /\ mailReq[h].id \notin counted
  BY <1>1, <1>2 DEF MailInv, OwnReport, MailRequests
<1>8. Mail!TypeOK'
  <2>1. told' \subseteq filed /\ mailAge' \in 0 .. 2
    BY <1>1, <1>7 DEF MailInv, Mail!TypeOK
  <2> QED
    BY <1>1, <1>6, <2>1 DEF MailInv, Mail!TypeOK, MailRequests, Mail!Window, Mail!CountTtl, Mail!NoTtl
<1>9. Numbered'
  BY <1>1 DEF MailInv, Numbered
<1>10. Rests' /\ OwnReport' /\ OneNotifier'
  <2>1. Rests'
    BY <1>4, <1>5 DEF MailInv, Rests, Mail!NoReq
  <2>2. OwnReport'
    BY <1>1, <1>4, <1>5, <1>7 DEF MailInv, OwnReport
  <2>3. OneNotifier'
    BY <1>1, <1>4, <1>5 DEF MailInv, OneNotifier
  <2> QED
    BY <2>1, <2>2, <2>3
<1>11. Covered'
  BY <1>1, <1>4, <1>5 DEF MailInv, Covered
<1>12. Mail!EveryReportHeard'
  BY <1>1, <1>4, <1>5 DEF MailInv, Mail!EveryReportHeard
<1>13. Mail!WindowKept'
  BY <1>4, <1>5 DEF Mail!WindowKept
<1> QED
  BY <1>8, <1>9, <1>10, <1>11, <1>12, <1>13 DEF MailInv

\* As time passes the count may be lost with its key, and its reports with it.
LEMMA MailTick ==
    ASSUME MailInv, Mail!Tick
    PROVE  MailInv'
<1>1. /\ lastAge' = Mail!Older(lastAge, 2) /\ mailAge' = Mail!Older(mailAge, 2)
      /\ countAge' = Mail!Older(countAge, 3)
      /\ \/ UNCHANGED <<count, counted, silent>>
         \/ count' = 0 /\ counted' = {} /\ silent' = silent \cup counted
      /\ mailReq' = [h \in Handlers |->
                       IF mailReq[h].pc \in {"batch", "mail", "setLast"}
                         THEN [mailReq[h] EXCEPT !.age = Mail!Older(@, 2)] ELSE mailReq[h]]
      /\ UNCHANGED <<filed, told>>
  BY DEF Mail!Tick, Mail!Window, Mail!CountTtl
<1>2. /\ \A g \in Handlers : mailReq[g] \in MailRequests(filed)
      /\ lastAge \in 0 .. 2 /\ mailAge \in 0 .. 2 /\ countAge \in 0 .. 3 \cup {-1}
      /\ count = Cardinality(counted)
      /\ counted \subseteq filed /\ silent \subseteq filed
  BY MailCardinality DEF MailInv, Mail!TypeOK, MailRequests, Mail!Window, Mail!CountTtl, Mail!NoTtl
<1>3. \A a \in 0 .. 2 : Mail!Older(a, 2) \in 0 .. 2
  BY DEF Mail!Older
<1>4. /\ lastAge' \in 0 .. 2 /\ mailAge' \in 0 .. 2 /\ countAge' \in 0 .. 3 \cup {-1}
      /\ mailAge = 2 => mailAge' = 2
  BY <1>1, <1>2 DEF Mail!Older
<1>5. ASSUME NEW g \in Handlers
      PROVE  /\ mailReq'[g] \in MailRequests(filed) /\ mailReq'[g].knew = mailReq[g].knew
             /\ mailReq'[g].pc = mailReq[g].pc /\ mailReq'[g].id = mailReq[g].id
             /\ mailReq'[g].batch = mailReq[g].batch
             /\ mailReq[g].pc = "idle" => mailReq'[g] = mailReq[g]
  <2>1. CASE mailReq[g].pc \in {"batch", "mail", "setLast"}
    <3>1. /\ mailReq'[g] = [mailReq[g] EXCEPT !.age = Mail!Older(mailReq[g].age, 2)]
          /\ mailReq[g] \in MailRequests(filed)
      BY <1>1, <1>2, <2>1
    <3>2. Mail!Older(mailReq[g].age, 2) \in 0 .. 2
      BY <1>3, <3>1 DEF MailRequests
    <3>3. mailReq'[g] \in MailRequests(filed)
      BY <3>1, <3>2 DEF MailRequests
    <3>4. /\ mailReq'[g].pc = mailReq[g].pc /\ mailReq'[g].id = mailReq[g].id
          /\ mailReq'[g].batch = mailReq[g].batch
      BY <3>1 DEF MailRequests
    <3>5. mailReq'[g].knew = mailReq[g].knew
      BY <3>1 DEF MailRequests
    <3> QED
      BY <2>1, <3>3, <3>4, <3>5
  <2>2. CASE mailReq[g].pc \notin {"batch", "mail", "setLast"}
    <3>1. mailReq'[g] = mailReq[g]
      BY <1>1, <2>2
    <3> QED
      BY <1>2, <3>1
  <2> QED
    BY <2>1, <2>2
<1>6. mailReq' \in [Handlers -> MailRequests(filed)]
  <2>1. mailReq' = [g \in Handlers |-> mailReq'[g]]
    BY <1>1
  <2>2. \A g \in Handlers : mailReq'[g] \in MailRequests(filed)
    BY <1>5
  <2> QED
    BY <2>1, <2>2
<1>7. count' = Cardinality(counted') /\ counted' \subseteq counted
  BY <1>1, <1>2, FS_EmptySet
<1>8. silent \subseteq silent' /\ silent' \subseteq filed /\ counted \subseteq counted' \cup silent'
  BY <1>1, <1>2
<1>9. Mail!TypeOK'
  BY <1>1, <1>2, <1>4, <1>6, <1>7, <1>8, MailCardinality
  DEF MailInv, Mail!TypeOK, MailRequests, Mail!Window, Mail!CountTtl, Mail!NoTtl
<1>10. Numbered'
  BY <1>1 DEF MailInv, Numbered
<1>11. Rests' /\ OwnReport' /\ OneNotifier' /\ Covered'
  BY <1>1, <1>5, <1>7 DEF MailInv, Rests, OwnReport, OneNotifier, Covered
<1>12. Mail!EveryReportHeard'
  BY <1>1, <1>5, <1>8 DEF MailInv, Mail!EveryReportHeard
<1>13. Mail!WindowKept'
  BY <1>4, <1>5 DEF MailInv, Mail!WindowKept, Mail!Window
<1> QED
  BY <1>9, <1>10, <1>11, <1>12, <1>13 DEF MailInv

LEMMA MailStep == MailInv /\ [Mail!Next]_mail => MailInv'
<1> SUFFICES ASSUME MailInv, [Mail!Next]_mail PROVE MailInv'
  OBVIOUS
<1>1. CASE UNCHANGED mail
  <2>1. UNCHANGED <<filed, mailReq, lastAge, count, countAge, counted, told, silent, mailAge>>
    BY <1>1 DEF mail
  <2> QED
    BY <2>1 DEF MailInv, Mail!TypeOK, Numbered, Rests, OwnReport, OneNotifier, Covered,
                Mail!EveryReportHeard, Mail!WindowKept, Mail!Window, Mail!NoReq
<1> QED
  BY <1>1, MailFile, MailGoes, MailCount, MailReset, MailFail, MailSent, MailTick DEF Mail!Next

\* No report is forgotten without a known reason, and a second mail within the window
\* has one as well, for any number of reports and handlers (safety.service.ts,
\* sendAdminReportNotification).
THEOREM ReportsAreAnnounced == Mail!Spec => []ReportsAnnounced
<1>1. MailInv => ReportsAnnounced
  BY DEF MailInv, ReportsAnnounced
<1> QED
  BY <1>1, MailInit, MailStep, PTL DEF Mail!Spec, Mail!vars, mail


-----------------------------------------------------------------------------
(* The run of MCRateLimits.                                                *)

\* In a behaviour of the run every component keeps to its own specification: the part
\* that was chosen takes its steps, the others stutter.
THEOREM PartsKeepTheirSpecs == PartsSpec => Spec /\ Rate!Spec /\ Mail!Spec
<1>1. PartsInit => Init /\ Rate!Init /\ Mail!Init
  BY DEF PartsInit
<1>2. [PartsNext]_<<part, vars, rate, mail>> =>
         [Next]_vars /\ [Rate!Next]_rate /\ [Mail!Next]_mail
  <2> SUFFICES ASSUME [PartsNext]_<<part, vars, rate, mail>>
               PROVE  [Next]_vars /\ [Rate!Next]_rate /\ [Mail!Next]_mail
    OBVIOUS
  <2> QED
    BY DEF PartsNext
<1> QED
  BY <1>1, <1>2, PTL
  DEF PartsSpec, Spec, Rate!Spec, Mail!Spec, Rate!vars, Mail!vars, rate, mail

=============================================================================
