---------------------------- MODULE MapsBudget ----------------------------
(***************************************************************************)
(* GET /maps/commute (maps.service.ts): a cached answer of Google, or one  *)
(* unit of the daily budget, up to two calls of the Distance Matrix API,   *)
(* and an estimate when they fail.  The budget is a Redis counter per UTC  *)
(* day.  Any number of requests run at once, days pass between their steps *)
(* and requests die.  The reads of the listing and of the viewer's office  *)
(* before the cache lookup change nothing and only end a request early.    *)
(***************************************************************************)
EXTENDS Integers, FiniteSets

CONSTANTS
    Handlers,   \* requests that may be in flight
    Routes,     \* pairs of a listing and an office, to ~11 m
    Budget,     \* MAPS_DAILY_BUDGET
    LastDay     \* the days are 1 .. LastDay; time stops there

ASSUME MapsAssumption ==
    /\ IsFiniteSet(Handlers)
    /\ Budget \in Nat \ {0}
    /\ LastDay \in Nat \ {0}

Days == 1 .. LastDay

VARIABLES
    apiKey,     \* whether GOOGLE_MAPS_API_KEY is set
    today,      \* the current UTC day
    counter,    \* per day: maps:dist-matrix:daily-count:<day>
    cache,      \* the routes with an entry commute:<origin>:<destination>
    req,        \* per handler: step, route, day of its unit
    kept,       \* history, per day: units granted and never given back
    stuck,      \* history, per day: refused counts never given back
    surplus     \* history, per day: units of an earlier day given back to it

vars == <<apiKey, today, counter, cache, req, kept, stuck, surplus>>

PerDay == [d \in Days |-> 0]

Init ==
    /\ apiKey \in BOOLEAN
    /\ today = 1
    /\ counter = PerDay
    /\ cache = {}
    /\ req \in [Handlers -> {[pc |-> "idle", route |-> r, day |-> 1] : r \in Routes}]
    /\ kept = PerDay
    /\ stuck = PerDay
    /\ surplus = PerDay

Goto(h, step) == req' = [req EXCEPT ![h].pc = step]

\* The request is answered or gone.
Done(h) == req' = [req EXCEPT ![h] = [pc |-> "idle", route |-> @.route, day |-> 1]]

Bump(f, d) == [f EXCEPT ![d] = @ + 1]

\* Handlers that counted themselves on day d and did not give the unit back.
Taking(d) == {h \in Handlers : req[h].pc # "idle" /\ req[h].pc # "count" /\ req[h].day = d}

\* Those of them that were let in.
Granted(d) == {h \in Taking(d) : req[h].pc # "refuse"}

-----------------------------------------------------------------------------

\* getCachedCommute: an entry is the whole answer, otherwise the budget is next.
Lookup(h) ==
    /\ req[h].pc = "idle"
    /\ \E r \in Routes \ cache :
          req' = [req EXCEPT ![h] = [pc |-> "count", route |-> r, day |-> @.day]]
    /\ UNCHANGED <<apiKey, today, counter, cache, kept, stuck, surplus>>

\* incrementDailyCount: INCR and the comparison; without an API key the unit is
\* given back at once.
Count(h) ==
    /\ req[h].pc = "count"
    /\ counter' = Bump(counter, today)
    /\ req' = [req EXCEPT ![h] = [day |-> today, route |-> @.route,
                  pc |-> IF counter'[today] > Budget THEN "refuse"
                         ELSE IF apiKey THEN "traffic" ELSE "refund"]]
    /\ UNCHANGED <<apiKey, today, cache, kept, stuck, surplus>>

\* dailyCountKey() is computed again for the DECR.
RefundDay(h) == today

\* The request ends and its count stays for ever on the day it was made.
Keep(h) ==
    LET d == req[h].day IN
    IF req[h].pc = "refuse"
      THEN stuck' = Bump(stuck, d) /\ UNCHANGED kept
      ELSE kept' = Bump(kept, d) /\ UNCHANGED stuck

\* DECR: a count that is taken from another day stays on its own.
GiveBack(h) ==
    LET r == RefundDay(h) IN
    /\ counter' = [counter EXCEPT ![r] = @ - 1]
    /\ IF r = req[h].day
         THEN UNCHANGED <<kept, stuck, surplus>>
         ELSE surplus' = Bump(surplus, r) /\ Keep(h)

\* Over the budget: DECR, BUDGET_EXCEEDED.
Refuse(h) ==
    /\ req[h].pc = "refuse"
    /\ GiveBack(h)
    /\ Done(h)
    /\ UNCHANGED <<apiKey, today, cache>>

\* The call with traffic.  An answer that does not parse is asked again without
\* traffic; no answer, or an HTTP error, is not.
CallWithTraffic(h) ==
    /\ req[h].pc = "traffic"
    /\ \E step \in {"store", "plain", "refund"} : Goto(h, step)
    /\ UNCHANGED <<apiKey, today, counter, cache, kept, stuck, surplus>>

\* The call without traffic, for the same unit.
CallWithoutTraffic(h) ==
    /\ req[h].pc = "plain"
    /\ \E step \in {"store", "refund"} : Goto(h, step)
    /\ UNCHANGED <<apiKey, today, counter, cache, kept, stuck, surplus>>

\* setCachedCommute, and the answer.
Store(h) ==
    /\ req[h].pc = "store"
    /\ cache' = cache \cup {req[h].route}
    /\ Keep(h)
    /\ Done(h)
    /\ UNCHANGED <<apiKey, today, counter, surplus>>

\* Redis fails on the SET: inside the try, so the catch block answers.
StoreFails(h) ==
    /\ req[h].pc = "store"
    /\ Goto(h, "refund")
    /\ UNCHANGED <<apiKey, today, counter, cache, kept, stuck, surplus>>

\* Mutant of Refund: the unit is given back once for each call.
RefundTwice(h) ==
    /\ req[h].pc = "refund"
    /\ counter' = [counter EXCEPT ![RefundDay(h)] = @ - 2]
    /\ Done(h)
    /\ UNCHANGED <<apiKey, today, cache, kept, stuck, surplus>>

\* No API key, or the catch block: DECR, then API_ERROR or the estimate.
Refund(h) ==
    /\ req[h].pc = "refund"
    /\ GiveBack(h)
    /\ Done(h)
    /\ UNCHANGED <<apiKey, today, cache>>

\* The process dies, or Redis fails on the DECR: what was counted stays so.
Die(h) ==
    /\ req[h].pc \notin {"idle", "count"}
    /\ Keep(h)
    /\ Done(h)
    /\ UNCHANGED <<apiKey, today, counter, cache, surplus>>

\* The seven days of an entry are over.
ExpireEntry ==
    /\ \E r \in cache : cache' = cache \ {r}
    /\ UNCHANGED <<apiKey, today, counter, req, kept, stuck, surplus>>

Midnight ==
    /\ today < LastDay
    /\ today' = today + 1
    /\ UNCHANGED <<apiKey, counter, cache, req, kept, stuck, surplus>>

Next ==
    \/ \E h \in Handlers :
          \/ Lookup(h) \/ Count(h) \/ Refuse(h)
          \/ CallWithTraffic(h) \/ CallWithoutTraffic(h)
          \/ Store(h) \/ StoreFails(h) \/ Refund(h) \/ Die(h)
    \/ ExpireEntry
    \/ Midnight

Spec == Init /\ [][Next]_vars

-----------------------------------------------------------------------------
(* Properties.                                                             *)

Steps == {"idle", "count", "refuse", "traffic", "plain", "store", "refund"}

\* Every variable has its type.
TypeOK ==
    /\ apiKey \in BOOLEAN
    /\ today \in Days
    /\ counter \in [Days -> Int]
    /\ cache \subseteq Routes
    /\ req \in [Handlers -> [pc : Steps, route : Routes, day : Days]]
    /\ kept \in [Days -> Nat] /\ stuck \in [Days -> Nat]
    /\ surplus \in [Days -> Nat]

\* The counter of a day is the units that were kept and those in flight, less
\* those of another day given back to it: no other drift, whatever fails.
BudgetAccounting ==
    \A d \in Days :
        counter[d] = kept[d] + stuck[d] + Cardinality(Taking(d)) - surplus[d]

\* A day lets in at most Budget requests that keep their unit, one more for each
\* unit of another day given back to it, however many race for the last unit.
GrantedWithinBudget ==
    \A d \in Days :
        Cardinality(Granted(d)) + kept[d] <= Budget + surplus[d]

\* The budget read as an allowance: what is granted and not given back.
Budgeted == INSTANCE Allowance WITH
    Periods <- Days,
    Cap <- Budget,
    held <- [d \in Days |-> kept[d] + Cardinality(Granted(d))]

\* The handlers together implement the allowance, step by step.
KeepsAllowance == Budgeted!Spec

=============================================================================
