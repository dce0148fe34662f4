-------------------------- MODULE AllowancesProofs --------------------------
(***************************************************************************)
(* Proofs about MapsBudget.tla and Uploads.tla, as MCAllowances.tla        *)
(* instantiates them, for any budget and limit, any number of days and     *)
(* hours, any routes and confirmations, and any finite sets of handlers    *)
(* and objects.                                                            *)
(***************************************************************************)
EXTENDS MCAllowances, FiniteSetTheorems, TLAPS

-----------------------------------------------------------------------------
(* MapsBudget.                                                             *)

\* The step of handler h.
Step(h) ==
    \/ Lookup(h) \/ Count(h) \/ Refuse(h)
    \/ CallWithTraffic(h) \/ CallWithoutTraffic(h)
    \/ Store(h) \/ StoreFails(h) \/ Refund(h) \/ Die(h)

\* Init establishes the types.
LEMMA InitType == Init => TypeOK
BY MapsAssumption DEF Init, TypeOK, Days, PerDay, Steps

\* The step of one handler keeps the types.
LEMMA StepType == ASSUME TypeOK, NEW h \in Handlers, Step(h) PROVE TypeOK'
<1> USE DEF TypeOK, Steps, Goto, Done, Bump
<1>1. 1 \in Days
  BY MapsAssumption DEF Days
<1>2. CASE Lookup(h)
  BY <1>2 DEF Lookup
<1>3. CASE Count(h)
  BY <1>3 DEF Count
<1>4. CASE Refuse(h)
  BY <1>1, <1>4 DEF Refuse, GiveBack, RefundDay, Keep
<1>5. CASE CallWithTraffic(h)
  BY <1>5 DEF CallWithTraffic
<1>6. CASE CallWithoutTraffic(h)
  BY <1>6 DEF CallWithoutTraffic
<1>7. CASE Store(h)
  BY <1>1, <1>7 DEF Store, Keep
<1>8. CASE StoreFails(h)
  BY <1>8 DEF StoreFails
<1>9. CASE Refund(h)
  BY <1>1, <1>9 DEF Refund, GiveBack, RefundDay, Keep
<1>10. CASE Die(h)
  BY <1>1, <1>10 DEF Die, Keep
<1> QED
  BY <1>2, <1>3, <1>4, <1>5, <1>6, <1>7, <1>8, <1>9, <1>10 DEF Step

\* Every step keeps the types.
LEMMA NextType == TypeOK /\ [Next]_vars => TypeOK'
<1> SUFFICES ASSUME TypeOK, [Next]_vars PROVE TypeOK'
  OBVIOUS
<1>1. CASE \E h \in Handlers : Step(h)
  BY <1>1, StepType
<1>2. CASE ExpireEntry
  BY <1>2 DEF ExpireEntry, TypeOK
<1>3. CASE Midnight
  <2>1. today' \in Days
    BY <1>3, MapsAssumption DEF Midnight, Days, TypeOK
  <2> QED
    BY <1>3, <2>1 DEF Midnight, TypeOK
<1>4. CASE UNCHANGED vars
  BY <1>4 DEF vars, TypeOK
<1> QED
  BY <1>1, <1>2, <1>3, <1>4 DEF Next, Step

\* The types hold throughout, however the requests overlap.
THEOREM TypeCorrect == Spec => []TypeOK
BY InitType, NextType, PTL DEF Spec

-----------------------------------------------------------------------------
(* Counting handlers.                                                      *)

\* The handlers that hold a count of a day can be counted; some of them are granted.
LEMMA Countable ==
    ASSUME NEW d
    PROVE  /\ IsFiniteSet(Taking(d)) /\ Cardinality(Taking(d)) \in Nat
           /\ IsFiniteSet(Granted(d)) /\ Cardinality(Granted(d)) \in Nat
           /\ Cardinality(Granted(d)) <= Cardinality(Taking(d))
<1>1. Taking(d) \in SUBSET Handlers /\ Granted(d) \in SUBSET Taking(d)
  BY DEF Taking, Granted
<1>2. IsFiniteSet(Taking(d))
  BY <1>1, MapsAssumption, FS_Subset
<1>3. IsFiniteSet(Granted(d)) /\ Cardinality(Granted(d)) <= Cardinality(Taking(d))
  BY <1>1, <1>2, FS_Subset
<1> QED
  BY <1>2, <1>3, FS_CardinalityType

\* Two finite sets that differ in one element at most.
LEMMA OneElement ==
    ASSUME NEW S, NEW T, IsFiniteSet(S), IsFiniteSet(T), NEW h, S \ {h} = T \ {h}
    PROVE  Cardinality(T) = Cardinality(S) - (IF h \in S THEN 1 ELSE 0)
                                           + (IF h \in T THEN 1 ELSE 0)
<1>1. /\ Cardinality(S) \in Nat /\ Cardinality(T) \in Nat
      /\ Cardinality(S \ {h}) = IF h \in S THEN Cardinality(S) - 1 ELSE Cardinality(S)
      /\ Cardinality(T \ {h}) = IF h \in T THEN Cardinality(T) - 1 ELSE Cardinality(T)
  BY FS_RemoveElement, FS_CardinalityType
<1> QED
  BY <1>1

\* When one handler moves, the counts of a day change by that handler alone.
LEMMA CountsMove ==
    ASSUME NEW h \in Handlers, NEW d,
           \A g \in Handlers \ {h} : req'[g] = req[g]
    PROVE  /\ Cardinality(Taking(d))' =
                Cardinality(Taking(d))
                  - (IF h \in Taking(d) THEN 1 ELSE 0)
                  + (IF h \in Taking(d)' THEN 1 ELSE 0)
           /\ Cardinality(Granted(d))' =
                Cardinality(Granted(d))
                  - (IF h \in Granted(d) THEN 1 ELSE 0)
                  + (IF h \in Granted(d)' THEN 1 ELSE 0)
<1>1. /\ Taking(d) \ {h} = Taking(d)' \ {h}
      /\ Granted(d) \ {h} = Granted(d)' \ {h}
  BY DEF Taking, Granted
<1>2. /\ Taking(d)' \in SUBSET Handlers /\ Granted(d)' \in SUBSET Handlers
      /\ Taking(d) \in SUBSET Handlers /\ Granted(d) \in SUBSET Handlers
  BY DEF Taking, Granted
<1>3. /\ IsFiniteSet(Taking(d)') /\ IsFiniteSet(Granted(d)')
      /\ IsFiniteSet(Taking(d)) /\ IsFiniteSet(Granted(d))
  BY <1>2, MapsAssumption, FS_Subset
<1> QED
  BY <1>1, <1>3, OneElement

\* A step moves no other handler.
LEMMA OthersWait ==
    ASSUME TypeOK, NEW h \in Handlers, Step(h)
    PROVE  \A g \in Handlers \ {h} : req'[g] = req[g]
BY DEF TypeOK, Step, Lookup, Count, Refuse, CallWithTraffic, CallWithoutTraffic,
       Store, StoreFails, Refund, Die, Goto, Done

-----------------------------------------------------------------------------
(* The accounts balance.                                                   *)

\* The two invariants of one day; the second needs the first, which says that the
\* counter compared with the budget never forgets a request that is granted.
Balanced(d) ==
    /\ counter[d] = kept[d] + stuck[d] + Cardinality(Taking(d)) - surplus[d]
    /\ Cardinality(Granted(d)) + kept[d] <= Budget + surplus[d]

\* The step of one handler keeps the accounts of a day.
LEMMA StepBalances ==
    ASSUME TypeOK, NEW h \in Handlers, NEW d \in Days, Balanced(d), Step(h)
    PROVE  Balanced(d)'
<1> DEFINE T == Cardinality(Taking(d))
           G == Cardinality(Granted(d))
<1>1. T \in Nat /\ G \in Nat /\ G <= T
  BY Countable
<1>2. /\ counter[d] \in Int /\ kept[d] \in Nat /\ stuck[d] \in Nat /\ surplus[d] \in Nat
      /\ Budget \in Nat
  BY MapsAssumption DEF TypeOK
<1>3. /\ T' = T - (IF h \in Taking(d) THEN 1 ELSE 0) + (IF h \in Taking(d)' THEN 1 ELSE 0)
      /\ G' = G - (IF h \in Granted(d) THEN 1 ELSE 0) + (IF h \in Granted(d)' THEN 1 ELSE 0)
  BY OthersWait, CountsMove
<1>4. /\ h \in Taking(d) <=> (req[h].pc \notin {"idle", "count"} /\ req[h].day = d)
      /\ h \in Taking(d)' <=> (req'[h].pc \notin {"idle", "count"} /\ req'[h].day = d)
      /\ h \in Granted(d) <=>
            (req[h].pc \notin {"idle", "count", "refuse"} /\ req[h].day = d)
      /\ h \in Granted(d)' <=>
            (req'[h].pc \notin {"idle", "count", "refuse"} /\ req'[h].day = d)
  BY DEF Taking, Granted
<1>5. /\ counter[d] = kept[d] + stuck[d] + T - surplus[d]
      /\ G + kept[d] <= Budget + surplus[d]
  BY DEF Balanced
<1>6. SUFFICES /\ counter'[d] = kept'[d] + stuck'[d] + T' - surplus'[d]
               /\ G' + kept'[d] <= Budget + surplus'[d]
  BY DEF Balanced
<1> HIDE DEF T, G
<1> USE DEF TypeOK, Goto, Done, Bump
<1>7. CASE Lookup(h)
  BY <1>1, <1>2, <1>3, <1>4, <1>5, <1>7 DEF Lookup
<1>8. CASE Count(h)
  BY <1>1, <1>2, <1>3, <1>4, <1>5, <1>8 DEF Count
<1>9. CASE Refuse(h)
  BY <1>1, <1>2, <1>3, <1>4, <1>5, <1>9 DEF Refuse, GiveBack, RefundDay, Keep
<1>10. CASE CallWithTraffic(h)
  BY <1>1, <1>2, <1>3, <1>4, <1>5, <1>10 DEF CallWithTraffic
<1>11. CASE CallWithoutTraffic(h)
  BY <1>1, <1>2, <1>3, <1>4, <1>5, <1>11 DEF CallWithoutTraffic
<1>12. CASE Store(h)
  <2>1. /\ req[h].pc = "store" /\ req'[h].pc = "idle"
        /\ kept' = [kept EXCEPT ![req[h].day] = @ + 1]
        /\ UNCHANGED <<counter, stuck, surplus>>
    BY <1>12 DEF Store, Keep
  <2> QED
    BY <1>1, <1>2, <1>3, <1>4, <1>5, <2>1
<1>13. CASE StoreFails(h)
  BY <1>1, <1>2, <1>3, <1>4, <1>5, <1>13 DEF StoreFails
<1>14. CASE Refund(h)
  BY <1>1, <1>2, <1>3, <1>4, <1>5, <1>14 DEF Refund, GiveBack, RefundDay, Keep
<1>15. CASE Die(h)
  BY <1>1, <1>2, <1>3, <1>4, <1>5, <1>15 DEF Die, Keep
<1> QED
  BY <1>7, <1>8, <1>9, <1>10, <1>11, <1>12, <1>13, <1>14, <1>15 DEF Step

\* The accounts of every day balance at first.
LEMMA InitBalanced == Init => \A d \in Days : Balanced(d)
<1> SUFFICES ASSUME Init, NEW d \in Days PROVE Balanced(d)
  OBVIOUS
<1>1. Taking(d) = {} /\ Granted(d) = {}
  BY DEF Init, Taking, Granted
<1> QED
  BY <1>1, FS_EmptySet, MapsAssumption DEF Init, PerDay, Balanced

\* Every step keeps the accounts of every day.
LEMMA NextBalanced ==
    TypeOK /\ (\A d \in Days : Balanced(d)) /\ [Next]_vars => (\A d \in Days : Balanced(d))'
<1> SUFFICES ASSUME TypeOK, \A d \in Days : Balanced(d), [Next]_vars,
                    NEW d \in Days
             PROVE  Balanced(d)'
  BY DEF Days
<1>1. CASE \E h \in Handlers : Step(h)
  BY <1>1, StepBalances
<1>2. CASE ExpireEntry \/ Midnight \/ UNCHANGED vars
  <2>1. UNCHANGED <<counter, req, kept, stuck, surplus>>
    BY <1>2 DEF ExpireEntry, Midnight, vars
  <2>2. Taking(d)' = Taking(d) /\ Granted(d)' = Granted(d)
    BY <2>1 DEF Taking, Granted
  <2> QED
    BY <2>1, <2>2 DEF Balanced
<1> QED
  BY <1>1, <1>2 DEF Next, Step

\* The day's counter is the units kept and in flight, up to those of another day
\* given back to it (maps.service.ts:71-78, 112, 119, 139).
THEOREM UnitsAccountedFor == Spec => []BudgetAccounting
<1>1. (\A d \in Days : Balanced(d)) => BudgetAccounting
  BY DEF Balanced, BudgetAccounting
<1> QED
  BY <1>1, InitType, NextType, InitBalanced, NextBalanced, PTL DEF Spec

\* No race for the last unit exceeds the budget: only a unit given back after
\* midnight raises it (maps.service.ts:109-114, 139).
THEOREM BudgetHolds == Spec => []GrantedWithinBudget
<1>1. (\A d \in Days : Balanced(d)) => GrantedWithinBudget
  BY DEF Balanced, GrantedWithinBudget
<1> QED
  BY <1>1, InitType, NextType, InitBalanced, NextBalanced, PTL DEF Spec

-----------------------------------------------------------------------------
(* The handlers implement the allowance.                                   *)

\* The units of a day that are granted and not given back.
HeldOf == [d \in Days |-> kept[d] + Cardinality(Granted(d))]

\* The step of one handler is a step of the allowance, or none.
LEMMA StepRefines ==
    ASSUME TypeOK, \A d \in Days : Balanced(d), NEW h \in Handlers, Step(h)
    PROVE  \/ UNCHANGED <<HeldOf, surplus>>
           \/ \E d \in Days :
                 \/ /\ HeldOf[d] < Budget + surplus[d]
                    /\ HeldOf' = [HeldOf EXCEPT ![d] = @ + 1]
                    /\ UNCHANGED surplus
                 \/ /\ HeldOf[d] > 0
                    /\ HeldOf' = [HeldOf EXCEPT ![d] = @ - 1]
                    /\ UNCHANGED surplus
                 \/ /\ surplus' = [surplus EXCEPT ![d] = @ + 1]
                    /\ UNCHANGED HeldOf
<1> DEFINE G(d) == Cardinality(Granted(d))
           e == req[h].day
<1>1. /\ \A d \in Days : G(d) \in Nat /\ kept[d] \in Nat /\ kept'[d] \in Nat
                         /\ surplus[d] \in Nat /\ stuck[d] \in Nat /\ counter[d] \in Int
                         /\ G(d) <= Cardinality(Taking(d)) /\ Cardinality(Taking(d)) \in Nat
      /\ e \in Days /\ today \in Days /\ Budget \in Nat
  BY StepType, Countable, MapsAssumption DEF TypeOK
<1>2. \A d \in Days :
        G(d)' = G(d) - (IF h \in Granted(d) THEN 1 ELSE 0)
                     + (IF h \in Granted(d)' THEN 1 ELSE 0)
  BY OthersWait, CountsMove
<1>3. \A d \in Days :
        /\ h \in Granted(d) <=>
              (req[h].pc \notin {"idle", "count", "refuse"} /\ req[h].day = d)
        /\ h \in Granted(d)' <=>
              (req'[h].pc \notin {"idle", "count", "refuse"} /\ req'[h].day = d)
  BY DEF Taking, Granted
<1>4. \A d \in Days : h \in Granted(d) => G(d) > 0
  BY Countable, FS_EmptySet
<1>5. /\ HeldOf = [d \in Days |-> kept[d] + G(d)]
      /\ HeldOf' = [d \in Days |-> kept'[d] + G(d)']
  BY DEF HeldOf, Days
<1> HIDE DEF G
<1> USE DEF TypeOK, Goto, Done, Bump
<1>6. CASE Lookup(h) \/ CallWithTraffic(h) \/ CallWithoutTraffic(h) \/ StoreFails(h)
  <2>1. UNCHANGED <<kept, surplus>> /\ \A d \in Days : G(d)' = G(d)
    BY <1>1, <1>2, <1>3, <1>6 DEF Lookup, CallWithTraffic, CallWithoutTraffic, StoreFails
  <2> QED
    BY <1>5, <2>1
<1>7. CASE Count(h)
  <2>1. UNCHANGED <<kept, surplus>> /\ \A d \in Days \ {today} : G(d)' = G(d)
    BY <1>1, <1>2, <1>3, <1>7 DEF Count
  <2>2. CASE counter'[today] > Budget
    <3>1. \A d \in Days : d = today => G(d)' = G(d)
      BY <1>1, <1>2, <1>3, <1>7, <2>2 DEF Count
    <3>2. \A d \in Days : G(d)' = G(d)
      BY <2>1, <3>1
    <3>3. HeldOf' = HeldOf
      BY <1>5, <2>1, <3>2
    <3> QED
      BY <2>1, <3>3
  <2>3. CASE ~(counter'[today] > Budget)
    <3>1. \A d \in Days : d = today => G(d)' = G(d) + 1
      BY <1>1, <1>2, <1>3, <1>7, <2>3 DEF Count
    <3>2. HeldOf[today] < Budget + surplus[today]
      <4>1. counter[today] + 1 <= Budget
        BY <1>1, <1>7, <2>3 DEF Count
      <4> QED
        BY <1>1, <1>5, <4>1 DEF Balanced
    <3>3. HeldOf' = [HeldOf EXCEPT ![today] = @ + 1]
      <4>1. \A d \in Days : kept'[d] + G(d)' = [HeldOf EXCEPT ![today] = @ + 1][d]
        BY <1>1, <1>5, <2>1, <3>1
      <4> QED
        BY <1>5, <4>1
    <3> QED
      BY <1>1, <2>1, <3>2, <3>3
  <2> QED
    BY <2>2, <2>3
<1>8. CASE Refuse(h)
  <2>1. UNCHANGED kept /\ \A d \in Days : G(d)' = G(d)
    BY <1>1, <1>2, <1>3, <1>8 DEF Refuse, GiveBack, RefundDay, Keep
  <2>2. UNCHANGED surplus \/ surplus' = [surplus EXCEPT ![today] = @ + 1]
    BY <1>8 DEF Refuse, GiveBack, RefundDay
  <2> QED
    BY <1>1, <1>5, <2>1, <2>2
<1>9. CASE Store(h) \/ Die(h)
  <2>1. UNCHANGED surplus /\ \A d \in Days : kept'[d] + G(d)' = kept[d] + G(d)
    BY <1>1, <1>2, <1>3, <1>9 DEF Store, Die, Keep
  <2> QED
    BY <1>5, <2>1
<1>10. CASE Refund(h)
  <2>1. CASE today = e
    <3>1. UNCHANGED <<kept, surplus>> /\ req[h].pc = "refund" /\ req'[h].pc = "idle"
      BY <1>10, <2>1 DEF Refund, GiveBack, RefundDay
    <3>2. HeldOf[e] > 0
      BY <1>1, <1>3, <1>4, <1>5, <3>1
    <3>3. HeldOf' = [HeldOf EXCEPT ![e] = @ - 1]
      <4>1. \A d \in Days : G(d)' = IF d = e THEN G(d) - 1 ELSE G(d)
        BY <1>1, <1>2, <1>3, <3>1
      <4>2. \A d \in Days : kept'[d] + G(d)' = [HeldOf EXCEPT ![e] = @ - 1][d]
        BY <1>1, <1>5, <3>1, <4>1
      <4> QED
        BY <1>5, <4>2
    <3> QED
      BY <1>1, <3>1, <3>2, <3>3
  <2>2. CASE today # e
    <3>1. /\ surplus' = [surplus EXCEPT ![today] = @ + 1]
          /\ kept' = [kept EXCEPT ![e] = @ + 1]
          /\ req[h].pc = "refund" /\ req'[h].pc = "idle"
      BY <1>10, <2>2 DEF Refund, GiveBack, RefundDay, Keep
    <3>2. \A d \in Days : kept'[d] + G(d)' = kept[d] + G(d)
      BY <1>1, <1>2, <1>3, <3>1
    <3>3. HeldOf' = HeldOf
      BY <1>5, <3>2
    <3> QED
      BY <1>1, <3>1, <3>3
  <2> QED
    BY <2>1, <2>2
<1> QED
  BY <1>6, <1>7, <1>8, <1>9, <1>10 DEF Step

\* Every step is a step of the allowance, or none.
LEMMA NextRefines ==
    TypeOK /\ (\A d \in Days : Balanced(d)) /\ [Next]_vars =>
        [Budgeted!Next]_<<HeldOf, surplus>>
<1> SUFFICES ASSUME TypeOK, \A d \in Days : Balanced(d), [Next]_vars
             PROVE  [Budgeted!Next]_<<HeldOf, surplus>>
  OBVIOUS
<1>1. CASE \E h \in Handlers : Step(h)
  BY <1>1, StepRefines
     DEF Budgeted!Next, Budgeted!Grant, Budgeted!GiveBack, Budgeted!GiveBackForeign, HeldOf
<1>2. CASE ExpireEntry \/ Midnight \/ UNCHANGED vars
  <2>1. UNCHANGED <<req, kept, surplus>>
    BY <1>2 DEF ExpireEntry, Midnight, vars
  <2>2. \A d : Granted(d)' = Granted(d)
    BY <2>1 DEF Taking, Granted
  <2>3. HeldOf' = HeldOf
    BY <2>1, <2>2 DEF HeldOf, Days
  <2> QED
    BY <2>1, <2>3
<1> QED
  BY <1>1, <1>2 DEF Next, Step

\* Nothing is held at first.
LEMMA InitRefines == Init => Budgeted!Init
<1> SUFFICES ASSUME Init PROVE Budgeted!Init
  OBVIOUS
<1>1. \A d \in Days : Granted(d) = {}
  BY DEF Init, Taking, Granted
<1>2. \A d \in Days : kept[d] = 0 /\ Cardinality(Granted(d)) = 0
  BY <1>1, FS_EmptySet DEF Init, PerDay
<1>3. \A d \in Days : kept[d] + Cardinality(Granted(d)) = 0
  BY <1>2
<1>4. surplus = [d \in Days |-> 0]
  BY DEF Init, PerDay
<1> QED
  BY <1>3, <1>4 DEF Budgeted!Init

\* The commute requests together are an allowance of Budget units per day: a
\* unit is granted while one is left and given back at most once
\* (maps.service.ts:84-147).
THEOREM ImplementsAllowance == Spec => KeepsAllowance
<1>1. [Budgeted!Next]_<<HeldOf, surplus>> => [Budgeted!Next]_(Budgeted!allowanceVars)
  BY DEF HeldOf, Budgeted!allowanceVars
<1> QED
  BY <1>1, InitType, NextType, InitBalanced, NextBalanced, InitRefines, NextRefines, PTL
     DEF Spec, KeepsAllowance, Budgeted!Spec

-----------------------------------------------------------------------------
(* Uploads: metadata is never older than its signature until it is spent,  *)
(* and what a confirmation is about to spend has been uploaded.            *)

\* An instance of a module has the finite sets of this module.
LEMMA UploadFinite == \A S : Upload!IsFiniteSet(S) <=> IsFiniteSet(S)
  BY DEF Upload!IsFiniteSet, IsFiniteSet

LEMMA UploadCardinality == \A S : Upload!Cardinality(S) = Cardinality(S)
  BY DEF Upload!Cardinality, Cardinality, IsFiniteSet, Upload!IsFiniteSet

LEMMA ObjectsFinite == IsFiniteSet(Objects)
  BY UploadAssumption, UploadFinite DEF Upload!UploadsAssumption

\* The metadata of a signature that still works was written after it.
MetaYounger ==
    \A o \in Objects \ spent :
        put[o].pc = "answered" /\ urlAge[o] < Upload!UrlTtl => metaAge[o] <= urlAge[o]

\* An object whose size is as declared had it, and so had one about to be confirmed.
FittedSeen ==
    /\ \A o \in Objects : stored[o] = "declared" => o \in fitted
    /\ \A c \in Confirms : confirm[c].pc = "delete" => confirm[c].key \in fitted

UploadInv ==
    /\ Upload!TypeOK /\ MetaYounger /\ FittedSeen
    /\ Upload!QuotaAccounting /\ Upload!SpentOnUpload

\* The first states, in which no object has an hour's unit.
LEMMA UploadInit == Upload!Init => UploadInv
<1> SUFFICES ASSUME Upload!Init PROVE UploadInv
  OBVIOUS
<1>1. 1 \in Upload!Hours
  BY UploadAssumption DEF Upload!UploadsAssumption, Upload!Hours
<1>2. Upload!NoConfirm \in [pc : {"idle", "head", "delete"}, key : Objects]
  BY UploadAssumption DEF Upload!UploadsAssumption, Upload!NoConfirm
<1>3. Upload!TypeOK
  BY <1>1, <1>2 DEF Upload!Init, Upload!TypeOK, Upload!UrlTtl, Upload!MetaTtl, Upload!Steps
<1>4. MetaYounger /\ FittedSeen /\ Upload!SpentOnUpload
  BY DEF Upload!Init, MetaYounger, FittedSeen, Upload!SpentOnUpload, Upload!NoConfirm
<1>5. Upload!QuotaAccounting
  <2>1. \A t : Upload!Granted(t) = {} /\ Upload!InHour(t, {"refuse", "stuck"}) = {}
    BY DEF Upload!Init, Upload!Granted, Upload!InHour
  <2>2. \A t : /\ Upload!Cardinality(Upload!Granted(t)) = 0
               /\ Upload!Cardinality(Upload!InHour(t, {"refuse", "stuck"})) = 0
    BY <2>1, FS_EmptySet, UploadCardinality
  <2>3. \A t \in Upload!Hours : urlCounter[t] = 0
    BY DEF Upload!Init
  <2> QED
    BY <2>2, <2>3 DEF Upload!QuotaAccounting
<1> QED
  BY <1>3, <1>4, <1>5 DEF UploadInv

-----------------------------------------------------------------------------
(* The units of an hour, counted by object.                                *)

\* When one object's request moves, the sets of an hour change by that object alone.
LEMMA UnitsMove ==
    ASSUME NEW o \in Objects, NEW t, NEW steps,
           \A p \in Objects \ {o} : put'[p] = put[p]
    PROVE  /\ Cardinality(Upload!InHour(t, steps)) \in Nat
           /\ Cardinality(Upload!InHour(t, steps))' =
                Cardinality(Upload!InHour(t, steps))
                  - (IF put[o].hour = t /\ put[o].pc \in steps THEN 1 ELSE 0)
                  + (IF put'[o].hour = t /\ put'[o].pc \in steps THEN 1 ELSE 0)
<1>1. /\ Upload!InHour(t, steps) \in SUBSET Objects /\ Upload!InHour(t, steps)' \in SUBSET Objects
      /\ Upload!InHour(t, steps) \ {o} = Upload!InHour(t, steps)' \ {o}
      /\ o \in Upload!InHour(t, steps) <=> put[o].hour = t /\ put[o].pc \in steps
      /\ o \in Upload!InHour(t, steps)' <=> put'[o].hour = t /\ put'[o].pc \in steps
  BY DEF Upload!InHour
<1>2. IsFiniteSet(Upload!InHour(t, steps)) /\ IsFiniteSet(Upload!InHour(t, steps)')
  BY <1>1, ObjectsFinite, FS_Subset
<1> QED
  BY <1>1, <1>2, OneElement, FS_CardinalityType

\* The steps at which a request holds a unit for a URL, and for nothing.
ForUrl == {"sign", "save", "answered", "wasted"}
ForNothing == {"refuse", "stuck"}

\* The counter of every hour follows the units when one request moves.
LEMMA CounterFollows ==
    ASSUME Upload!TypeOK, Upload!QuotaAccounting, NEW o \in Objects,
           \A p \in Objects \ {o} : put'[p] = put[p],
           \A t \in Upload!Hours :
              urlCounter'[t] = urlCounter[t]
                - (IF put[o].hour = t /\ put[o].pc \in ForUrl \cup ForNothing THEN 1 ELSE 0)
                + (IF put'[o].hour = t /\ put'[o].pc \in ForUrl \cup ForNothing THEN 1 ELSE 0)
    PROVE  Upload!QuotaAccounting'
<1> SUFFICES ASSUME NEW t \in Upload!Hours
             PROVE  urlCounter'[t] = Cardinality(Upload!InHour(t, ForUrl))'
                                   + Cardinality(Upload!InHour(t, ForNothing))'
  BY UploadCardinality DEF Upload!QuotaAccounting, Upload!Granted, ForUrl, ForNothing, Upload!Hours
<1>1. urlCounter[t] = Cardinality(Upload!InHour(t, ForUrl)) + Cardinality(Upload!InHour(t, ForNothing))
  BY UploadCardinality DEF Upload!QuotaAccounting, Upload!Granted, ForUrl, ForNothing
<1>2. /\ Cardinality(Upload!InHour(t, ForUrl)) \in Nat
      /\ Cardinality(Upload!InHour(t, ForUrl))' =
            Cardinality(Upload!InHour(t, ForUrl))
              - (IF put[o].hour = t /\ put[o].pc \in ForUrl THEN 1 ELSE 0)
              + (IF put'[o].hour = t /\ put'[o].pc \in ForUrl THEN 1 ELSE 0)
  BY UnitsMove
<1>3. /\ Cardinality(Upload!InHour(t, ForNothing)) \in Nat
      /\ Cardinality(Upload!InHour(t, ForNothing))' =
            Cardinality(Upload!InHour(t, ForNothing))
              - (IF put[o].hour = t /\ put[o].pc \in ForNothing THEN 1 ELSE 0)
              + (IF put'[o].hour = t /\ put'[o].pc \in ForNothing THEN 1 ELSE 0)
  BY UnitsMove
<1>4. \A pc : ~(pc \in ForUrl /\ pc \in ForNothing)
  BY DEF ForUrl, ForNothing
<1> QED
  BY <1>1, <1>2, <1>3, <1>4

\* Nothing about the units changes.
LEMMA UnitsStay ==
    ASSUME Upload!QuotaAccounting, UNCHANGED <<urlCounter, put>>
    PROVE  Upload!QuotaAccounting'
  BY DEF Upload!QuotaAccounting, Upload!Granted, Upload!InHour, Upload!Hours

-----------------------------------------------------------------------------
(* The requests for a URL.                                                 *)

LEMMA UploadReserve ==
    ASSUME UploadInv, NEW o \in Objects, Upload!Reserve(o)
    PROVE  UploadInv'
<1> USE DEF UploadInv
<1> DEFINE step == IF urlCounter'[hour] > Limit THEN "refuse" ELSE "sign"
<1>1. /\ put[o].pc = "idle" /\ put' = [put EXCEPT ![o] = [hour |-> hour, pc |-> step]]
      /\ urlCounter' = [urlCounter EXCEPT ![hour] = @ + 1]
      /\ UNCHANGED <<hour, urlAge, metaAge, stored, confirm, spent, fitted>>
  BY DEF Upload!Reserve
<1>2. step \in {"refuse", "sign"} /\ hour \in Upload!Hours
  BY DEF Upload!TypeOK
<1> HIDE DEF step
<1>3. /\ put'[o].pc = step /\ put'[o].hour = hour
      /\ \A p \in Objects \ {o} : put'[p] = put[p]
  BY <1>1 DEF Upload!TypeOK
<1>4. Upload!TypeOK'
  BY <1>1, <1>2, <1>3 DEF Upload!TypeOK, Upload!Steps
<1>5. MetaYounger' /\ FittedSeen' /\ Upload!SpentOnUpload'
  BY <1>1, <1>2, <1>3 DEF MetaYounger, FittedSeen, Upload!SpentOnUpload
<1>6. Upload!QuotaAccounting'
  <2>1. \A t \in Upload!Hours :
           urlCounter[t] \in Int /\ urlCounter'[t] = IF t = hour THEN urlCounter[t] + 1 ELSE urlCounter[t]
    BY <1>1, <1>2 DEF Upload!TypeOK
  <2> QED
    BY <1>1, <1>2, <1>3, <2>1, CounterFollows DEF ForUrl, ForNothing
<1> QED
  BY <1>4, <1>5, <1>6

LEMMA UploadRefuse ==
    ASSUME UploadInv, NEW o \in Objects, Upload!Refuse(o)
    PROVE  UploadInv'
<1> USE DEF UploadInv
<1>1. /\ put[o].pc = "refuse" /\ put' = [put EXCEPT ![o].pc = "refused"]
      /\ urlCounter' = [urlCounter EXCEPT ![put[o].hour] = @ - 1]
      /\ UNCHANGED <<hour, urlAge, metaAge, stored, confirm, spent, fitted>>
  BY DEF Upload!Refuse, Upload!Goto
<1>2. /\ put'[o].pc = "refused" /\ put'[o].hour = put[o].hour /\ put[o].hour \in Upload!Hours
      /\ \A p \in Objects \ {o} : put'[p] = put[p]
  BY <1>1 DEF Upload!TypeOK
<1>3. Upload!TypeOK'
  BY <1>1, <1>2 DEF Upload!TypeOK, Upload!Steps
<1>4. MetaYounger' /\ FittedSeen' /\ Upload!SpentOnUpload'
  BY <1>1, <1>2 DEF MetaYounger, FittedSeen, Upload!SpentOnUpload
<1>5. Upload!QuotaAccounting'
  <2>1. \A t \in Upload!Hours :
           /\ urlCounter[t] \in Int
           /\ urlCounter'[t] = IF t = put[o].hour THEN urlCounter[t] - 1 ELSE urlCounter[t]
    BY <1>1, <1>2 DEF Upload!TypeOK
  <2> QED
    BY <1>1, <1>2, <2>1, CounterFollows DEF ForUrl, ForNothing
<1> QED
  BY <1>3, <1>4, <1>5

\* The steps that leave the counter keep the request on its side of it.
LEMMA UploadGoes ==
    ASSUME UploadInv, NEW o \in Objects,
           Upload!Sign(o) \/ Upload!SaveMeta(o) \/ Upload!FailPut(o)
    PROVE  UploadInv'
<1> USE DEF UploadInv, Upload!UrlTtl, Upload!MetaTtl
<1>1. PICK step \in Upload!Steps :
         /\ put' = [put EXCEPT ![o].pc = step]
         /\ \/ put[o].pc \in ForUrl /\ step \in ForUrl
            \/ put[o].pc \in ForNothing /\ step \in ForNothing
         /\ step = "answered" => Upload!SaveMeta(o)
  <2> USE DEF Upload!Goto, Upload!Steps, ForUrl, ForNothing
  <2>1. CASE Upload!Sign(o)
    BY <2>1 DEF Upload!Sign
  <2>2. CASE Upload!SaveMeta(o)
    BY <2>2 DEF Upload!SaveMeta
  <2>3. CASE Upload!FailPut(o) /\ put[o].pc = "refuse"
    BY <2>3 DEF Upload!FailPut
  <2>4. CASE Upload!FailPut(o) /\ put[o].pc # "refuse"
    BY <2>4 DEF Upload!FailPut
  <2> QED
    BY <2>1, <2>2, <2>3, <2>4
<1>2. /\ put'[o].pc = step /\ put'[o].hour = put[o].hour /\ put[o].hour \in Upload!Hours
      /\ \A p \in Objects \ {o} : put'[p] = put[p]
  BY <1>1 DEF Upload!TypeOK
<1>3. UNCHANGED <<hour, urlCounter, stored, confirm, spent, fitted>>
  BY DEF Upload!Sign, Upload!SaveMeta, Upload!FailPut
<1>4. /\ urlAge' \in [Objects -> 0 .. Upload!UrlTtl] /\ metaAge' \in [Objects -> 0 .. Upload!MetaTtl]
      /\ \A p \in Objects \ {o} : urlAge'[p] = urlAge[p] /\ metaAge'[p] = metaAge[p]
      /\ metaAge'[o] < Upload!MetaTtl => Upload!SaveMeta(o) \/ metaAge'[o] = metaAge[o]
      /\ Upload!SaveMeta(o) => metaAge'[o] = 0 /\ urlAge'[o] = urlAge[o] /\ step = "answered"
  <2>1. CASE Upload!Sign(o)
    BY <2>1, <1>2 DEF Upload!Sign, Upload!TypeOK, Upload!SaveMeta
  <2>2. CASE Upload!SaveMeta(o)
    BY <2>2, <1>2 DEF Upload!SaveMeta, Upload!TypeOK, Upload!Goto
  <2>3. CASE Upload!FailPut(o)
    BY <2>3, <1>2 DEF Upload!FailPut, Upload!TypeOK, Upload!SaveMeta, Upload!Goto
  <2> QED
    BY <2>1, <2>2, <2>3
<1>5. metaAge'[o] < Upload!MetaTtl => step = "answered"
  <2>1. put[o].pc # "answered"
    BY DEF Upload!Sign, Upload!SaveMeta, Upload!FailPut
  <2> QED
    BY <1>4, <2>1 DEF Upload!TypeOK
<1>6. put' \in [Objects -> [pc : Upload!Steps, hour : Upload!Hours]]
  BY <1>1 DEF Upload!TypeOK
<1>7. Upload!TypeOK'
  BY <1>2, <1>3, <1>4, <1>5, <1>6 DEF Upload!TypeOK
<1>8. MetaYounger'
  <2>1. step = "answered" => metaAge'[o] = 0 /\ urlAge'[o] = urlAge[o]
    BY <1>1, <1>4
  <2>2. urlAge[o] \in Nat
    BY DEF Upload!TypeOK
  <2> QED
    BY <1>2, <1>3, <1>4, <2>1, <2>2 DEF MetaYounger
<1>9. FittedSeen' /\ Upload!SpentOnUpload'
  BY <1>3 DEF FittedSeen, Upload!SpentOnUpload
<1>10. Upload!QuotaAccounting'
  <2>1. \A t \in Upload!Hours : urlCounter[t] \in Int
    BY DEF Upload!TypeOK
  <2> QED
    BY <1>1, <1>2, <1>3, <2>1, CounterFollows
<1> QED
  BY <1>7, <1>8, <1>9, <1>10

-----------------------------------------------------------------------------
(* The bucket, the confirmations and time.                                 *)

LEMMA UploadStored ==
    ASSUME UploadInv, NEW o \in Objects, Upload!Upload(o)
    PROVE  UploadInv'
<1> USE DEF UploadInv
<1>1. PICK size \in {"declared", "other"} :
         /\ stored' = [stored EXCEPT ![o] = size]
         /\ fitted' = IF size = "declared" THEN fitted \cup {o} ELSE fitted
  BY DEF Upload!Upload
<1>2. UNCHANGED <<hour, urlCounter, put, urlAge, metaAge, confirm, spent>>
  BY DEF Upload!Upload
<1>3. Upload!TypeOK'
  BY <1>1, <1>2 DEF Upload!TypeOK
<1>4. MetaYounger' /\ FittedSeen' /\ Upload!SpentOnUpload'
  BY <1>1, <1>2 DEF MetaYounger, FittedSeen, Upload!SpentOnUpload, Upload!TypeOK
<1> QED
  BY <1>2, <1>3, <1>4, UnitsStay

LEMMA UploadConfirm ==
    ASSUME UploadInv, NEW c \in Confirms,
           Upload!ReadMeta(c) \/ Upload!Head(c) \/ Upload!Confirm(c) \/ Upload!FailConfirm(c)
    PROVE  UploadInv'
<1> USE DEF UploadInv
<1>1. UNCHANGED <<hour, urlCounter, put, urlAge, stored, fitted>>
  BY DEF Upload!ReadMeta, Upload!Head, Upload!Confirm, Upload!FailConfirm
<1>2. Upload!NoConfirm \in [pc : {"idle", "head", "delete"}, key : Objects]
      /\ Upload!NoConfirm.pc = "idle"
  BY UploadAssumption DEF Upload!UploadsAssumption, Upload!NoConfirm
<1> HIDE DEF Upload!NoConfirm
<1>3. PICK x \in [pc : {"idle", "head", "delete"}, key : Objects] :
         /\ confirm' = [confirm EXCEPT ![c] = x]
         /\ x.pc = "delete" => x.key \in fitted
  <2>1. CASE Upload!ReadMeta(c)
    BY <2>1 DEF Upload!ReadMeta
  <2>2. CASE Upload!Head(c) /\ stored[confirm[c].key] = "declared"
    <3>1. confirm' = [confirm EXCEPT ![c] = [confirm[c] EXCEPT !.pc = "delete"]]
      BY <2>2 DEF Upload!Head, Upload!TypeOK
    <3>2. /\ [confirm[c] EXCEPT !.pc = "delete"] \in [pc : {"idle", "head", "delete"}, key : Objects]
          /\ [confirm[c] EXCEPT !.pc = "delete"].key \in fitted
      BY <2>2 DEF Upload!TypeOK, FittedSeen
    <3> QED
      BY <3>1, <3>2
  <2>3. CASE Upload!End(c)
    BY <1>2, <2>3 DEF Upload!End
  <2> QED
    BY <2>1, <2>2, <2>3 DEF Upload!Head, Upload!Confirm, Upload!FailConfirm
<1>4. \/ UNCHANGED <<metaAge, spent>>
      \/ /\ confirm[c].pc = "delete"
         /\ metaAge' = [metaAge EXCEPT ![confirm[c].key] = Upload!MetaTtl]
         /\ spent' = spent \cup {confirm[c].key}
  BY DEF Upload!ReadMeta, Upload!Head, Upload!Confirm, Upload!FailConfirm
<1>5. confirm[c].key \in Objects
  BY DEF Upload!TypeOK
<1>6. Upload!TypeOK'
  BY <1>1, <1>3, <1>4, <1>5 DEF Upload!TypeOK, Upload!MetaTtl
<1>7. MetaYounger'
  BY <1>1, <1>4, <1>5 DEF MetaYounger, Upload!TypeOK
<1>8. FittedSeen'
  BY <1>1, <1>3 DEF FittedSeen, Upload!TypeOK
<1>9. Upload!SpentOnUpload'
  BY <1>1, <1>4 DEF Upload!SpentOnUpload, FittedSeen
<1> QED
  BY <1>1, <1>6, <1>7, <1>8, <1>9, UnitsStay

LEMMA UploadStep == UploadInv /\ [Upload!Next]_uploads => UploadInv'
<1> SUFFICES ASSUME UploadInv, [Upload!Next]_uploads PROVE UploadInv'
  OBVIOUS
<1> USE DEF UploadInv
<1>1. CASE Upload!Tick
  <2>1. \A o \in Objects :
           /\ urlAge'[o] = IF urlAge[o] < 2 THEN urlAge[o] + 1 ELSE 2
           /\ metaAge'[o] = IF metaAge[o] < 3 THEN metaAge[o] + 1 ELSE 3
           /\ urlAge[o] \in 0 .. 2 /\ metaAge[o] \in 0 .. 3
    BY <1>1 DEF Upload!Tick, Upload!Older, Upload!TypeOK, Upload!UrlTtl, Upload!MetaTtl
  <2>2. hour' \in Upload!Hours /\ UNCHANGED <<urlCounter, put, stored, confirm, spent, fitted>>
    BY <1>1 DEF Upload!Tick
  <2>3. urlAge' \in [Objects -> 0 .. 2] /\ metaAge' \in [Objects -> 0 .. 3]
    BY <1>1, <2>1 DEF Upload!Tick, Upload!Older
  <2>4. Upload!TypeOK'
    BY <2>1, <2>2, <2>3 DEF Upload!TypeOK, Upload!UrlTtl, Upload!MetaTtl
  <2>5. MetaYounger'
    BY <2>1, <2>2 DEF MetaYounger, Upload!UrlTtl
  <2>6. FittedSeen' /\ Upload!SpentOnUpload'
    BY <2>2 DEF FittedSeen, Upload!SpentOnUpload
  <2> QED
    BY <2>2, <2>4, <2>5, <2>6, UnitsStay
<1>2. CASE UNCHANGED uploads
  <2>1. UNCHANGED <<hour, urlCounter, put, urlAge, metaAge, stored, confirm, spent, fitted>>
    BY <1>2 DEF uploads
  <2> QED
    BY <2>1, UnitsStay DEF Upload!TypeOK, MetaYounger, FittedSeen, Upload!SpentOnUpload
<1> QED
  BY <1>1, <1>2, UploadReserve, UploadRefuse, UploadGoes, UploadStored, UploadConfirm
  DEF Upload!Next

LEMMA UploadInductive == Upload!Spec => []UploadInv
  BY UploadInit, UploadStep, PTL DEF Upload!Spec, Upload!vars, uploads

\* The counter of an hour is its URLs and the refusals on their way; a working
\* signature can be confirmed; and nothing is confirmed that was not uploaded as
\* declared, for any limit and any requests, confirmations and failures.
THEOREM UploadsAreConsistent == Upload!Spec => []UploadsConsistent
<1>1. UploadInv => Upload!LiveUrlHasMeta
  <2> SUFFICES ASSUME UploadInv, NEW o \in Objects, o \notin spent,
                      put[o].pc = "answered", urlAge[o] < 2
               PROVE  metaAge[o] # 3
    BY DEF Upload!LiveUrlHasMeta, Upload!UrlTtl, Upload!MetaTtl
  <2>1. urlAge[o] \in Int /\ metaAge[o] <= urlAge[o]
    BY DEF UploadInv, MetaYounger, Upload!TypeOK, Upload!UrlTtl
  <2> QED
    BY <2>1
<1>2. UploadInv => UploadsConsistent
  BY <1>1 DEF UploadInv, UploadsConsistent
<1> QED
  BY <1>2, UploadInductive, PTL

-----------------------------------------------------------------------------
(* The requests for a URL implement the allowance.                         *)

\* The units of each hour for a URL.
HourlyHeld == [t \in Upload!Hours |-> Cardinality(Upload!Granted(t))]

\* A reservation that fits is a grant; every other step keeps the units of a URL.
LEMMA UploadRefines ==
    ASSUME UploadInv, [Upload!Next]_uploads
    PROVE  \/ UNCHANGED HourlyHeld
           \/ \E t \in Upload!Hours :
                 /\ HourlyHeld[t] < Limit
                 /\ HourlyHeld' = [HourlyHeld EXCEPT ![t] = @ + 1]
<1> USE DEF UploadInv
<1>0. \A t : /\ Upload!Granted(t) = Upload!InHour(t, ForUrl)
             /\ Upload!Granted(t)' = Upload!InHour(t, ForUrl)'
  BY DEF Upload!Granted, ForUrl
<1>1. ASSUME NEW o \in Objects, Upload!Reserve(o)
      PROVE  \/ UNCHANGED HourlyHeld
             \/ \E t \in Upload!Hours :
                   /\ HourlyHeld[t] < Limit
                   /\ HourlyHeld' = [HourlyHeld EXCEPT ![t] = @ + 1]
  <2>1. /\ put[o].pc = "idle" /\ \A p \in Objects \ {o} : put'[p] = put[p]
        /\ put'[o].hour = hour
        /\ put'[o].pc = IF urlCounter'[hour] > Limit THEN "refuse" ELSE "sign"
        /\ hour \in Upload!Hours /\ urlCounter'[hour] = urlCounter[hour] + 1
    BY <1>1 DEF Upload!Reserve, Upload!TypeOK
  <2>2. \A t \in Upload!Hours :
           /\ Cardinality(Upload!InHour(t, ForUrl)) \in Nat
           /\ Cardinality(Upload!InHour(t, ForUrl))' =
                Cardinality(Upload!InHour(t, ForUrl))
                  - (IF put[o].hour = t /\ put[o].pc \in ForUrl THEN 1 ELSE 0)
                  + (IF put'[o].hour = t /\ put'[o].pc \in ForUrl THEN 1 ELSE 0)
    BY <2>1, UnitsMove
  <2>3. CASE urlCounter'[hour] > Limit
    <3>1. \A t \in Upload!Hours :
             Cardinality(Upload!InHour(t, ForUrl))' = Cardinality(Upload!InHour(t, ForUrl))
      BY <2>1, <2>2, <2>3 DEF ForUrl
    <3> QED
      BY <1>0, <3>1 DEF HourlyHeld, Upload!Hours
  <2>4. CASE ~(urlCounter'[hour] > Limit)
    <3>1. \A t \in Upload!Hours :
             Cardinality(Upload!InHour(t, ForUrl))' =
                Cardinality(Upload!InHour(t, ForUrl)) + (IF t = hour THEN 1 ELSE 0)
      BY <2>1, <2>2, <2>4 DEF ForUrl
    <3>2. Cardinality(Upload!InHour(hour, {"refuse", "stuck"})) \in Nat
      BY <2>1, UnitsMove
    <3>3. HourlyHeld[hour] < Limit
      BY <1>0, <2>1, <2>2, <2>4, <3>2, UploadAssumption, UploadCardinality
      DEF HourlyHeld, Upload!QuotaAccounting, Upload!UploadsAssumption, Upload!TypeOK
    <3>4. HourlyHeld' = [HourlyHeld EXCEPT ![hour] = @ + 1]
      <4>1. HourlyHeld = [t \in Upload!Hours |-> Cardinality(Upload!InHour(t, ForUrl))]
        BY <1>0 DEF HourlyHeld
      <4>2. HourlyHeld' = [t \in Upload!Hours |-> Cardinality(Upload!InHour(t, ForUrl))']
        BY <1>0 DEF HourlyHeld, Upload!Hours
      <4> QED
        BY <2>1, <2>2, <3>1, <4>1, <4>2
    <3> QED
      BY <2>1, <3>3, <3>4
  <2> QED
    BY <2>3, <2>4
<1>2. ASSUME NEW o \in Objects,
             Upload!Refuse(o) \/ Upload!Sign(o) \/ Upload!SaveMeta(o) \/ Upload!FailPut(o)
      PROVE  UNCHANGED HourlyHeld
  <2>1. /\ put'[o].pc \in ForUrl <=> put[o].pc \in ForUrl
        /\ put'[o].hour = put[o].hour
        /\ \A p \in Objects \ {o} : put'[p] = put[p]
    BY <1>2 DEF Upload!Refuse, Upload!Sign, Upload!SaveMeta, Upload!FailPut, Upload!Goto,
                Upload!TypeOK, ForUrl
  <2>2. \A t : Upload!InHour(t, ForUrl)' = Upload!InHour(t, ForUrl)
    BY <2>1 DEF Upload!InHour
  <2> QED
    BY <1>0, <2>2 DEF HourlyHeld, Upload!Hours
<1>3. ASSUME UNCHANGED put PROVE UNCHANGED HourlyHeld
  BY <1>3 DEF HourlyHeld, Upload!Hours, Upload!Granted, Upload!InHour
<1>4. ASSUME NEW o \in Objects, Upload!Upload(o) PROVE UNCHANGED put
  BY <1>4 DEF Upload!Upload
<1>5. ASSUME NEW c \in Confirms,
             Upload!ReadMeta(c) \/ Upload!Head(c) \/ Upload!Confirm(c) \/ Upload!FailConfirm(c)
      PROVE  UNCHANGED put
  BY <1>5 DEF Upload!ReadMeta, Upload!Head, Upload!Confirm, Upload!FailConfirm
<1>6. Upload!Tick \/ UNCHANGED uploads => UNCHANGED put
  BY DEF Upload!Tick, uploads
<1> QED
  BY <1>1, <1>2, <1>3, <1>4, <1>5, <1>6 DEF Upload!Next

\* The requests for a URL together are an allowance of Limit units per hour, of which
\* none is given back (uploads.service.ts).
THEOREM UploadsImplementAllowance == Upload!Spec => UploadsKeepAllowance
<1>1. Upload!Init => Upload!Hourly!Init
  <2>1. Upload!Init => \A t : Upload!Granted(t) = {}
    BY DEF Upload!Init, Upload!Granted, Upload!InHour
  <2>2. Upload!Init => \A t : Upload!Cardinality(Upload!Granted(t)) = 0
    BY <2>1, FS_EmptySet, UploadCardinality
  <2> QED
    BY <2>2 DEF Upload!Hourly!Init
<1>2. UploadInv /\ [Upload!Next]_uploads =>
         [Upload!Hourly!ExactNext]_(Upload!Hourly!allowanceVars)
  <2> SUFFICES ASSUME UploadInv, [Upload!Next]_uploads
               PROVE  [Upload!Hourly!ExactNext]_(Upload!Hourly!allowanceVars)
    OBVIOUS
  <2> DEFINE held == [t \in Upload!Hours |-> Upload!Cardinality(Upload!Granted(t))]
             zero == [t \in Upload!Hours |-> 0]
  <2>1. held = HourlyHeld /\ held' = HourlyHeld'
    BY UploadCardinality DEF HourlyHeld, Upload!Hours
  <2>2. zero' = zero /\ \A t \in Upload!Hours : zero[t] = 0
    BY DEF Upload!Hours
  <2>3. \A t \in Upload!Hours : held[t] \in Int
    <3>1. \A t \in Upload!Hours : IsFiniteSet(Upload!Granted(t))
      BY ObjectsFinite, FS_Subset DEF Upload!Granted, Upload!InHour
    <3> QED
      BY <3>1, FS_CardinalityType, UploadCardinality
  <2>4. \/ UNCHANGED <<held, zero>>
        \/ \E t \in Upload!Hours :
              /\ held[t] < Limit + zero[t]
              /\ held' = [held EXCEPT ![t] = @ + 1]
              /\ UNCHANGED zero
    <3> HIDE DEF held, zero
    <3>1. Limit \in Int
      BY UploadAssumption DEF Upload!UploadsAssumption
    <3> QED
      BY <2>1, <2>2, <3>1, UploadRefines
  <2> QED
    BY <2>4 DEF Upload!Hourly!ExactNext, Upload!Hourly!Grant, Upload!Hourly!allowanceVars
<1> QED
  BY <1>1, <1>2, UploadInductive, PTL
  DEF Upload!Spec, Upload!vars, uploads, UploadsKeepAllowance, Upload!KeepsAllowance,
      Upload!Hourly!ExactSpec


-----------------------------------------------------------------------------
(* The run of MCAllowances.                                                *)

\* In a behaviour of the run every component keeps to its own specification: the part
\* that was chosen takes its steps, the others stutter.
THEOREM PartsKeepTheirSpecs == PartsSpec => Spec /\ Upload!Spec
<1>1. PartsInit => Init /\ Upload!Init
  BY DEF PartsInit
<1>2. [PartsNext]_<<part, vars, uploads>> =>
         [Next]_vars /\ [Upload!Next]_uploads
  <2> SUFFICES ASSUME [PartsNext]_<<part, vars, uploads>>
               PROVE  [Next]_vars /\ [Upload!Next]_uploads
    OBVIOUS
  <2> QED
    BY DEF PartsNext
<1> QED
  BY <1>1, <1>2, PTL
  DEF PartsSpec, Spec, Upload!Spec, Upload!vars, uploads

=============================================================================
