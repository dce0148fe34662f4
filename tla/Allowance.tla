----------------------------- MODULE Allowance -----------------------------
(***************************************************************************)
(* What the counters kept in Redis per day or per hour promise: a period   *)
(* has Cap units; a unit is granted while some are left and given back at  *)
(* most once.  A unit given back to a period that did not grant it raises  *)
(* the cap of that period.  Abstract specification, refined by             *)
(* NewConversationQuota.tla, MapsBudget.tla and Uploads.tla.               *)
(***************************************************************************)
EXTENDS Integers

CONSTANTS
    Periods,    \* days, or hours
    Cap         \* units of a period

VARIABLES
    held,       \* per period: units granted and not given back
    surplus     \* per period: units of others given back to it

allowanceVars == <<held, surplus>>

Init ==
    /\ held = [d \in Periods |-> 0]
    /\ surplus = [d \in Periods |-> 0]

\* A unit of d is granted while one is left.
Grant(d) ==
    /\ held[d] < Cap + surplus[d]
    /\ held' = [held EXCEPT ![d] = @ + 1]
    /\ UNCHANGED surplus

\* A unit of d that is held returns to d.
GiveBack(d) ==
    /\ held[d] > 0
    /\ held' = [held EXCEPT ![d] = @ - 1]
    /\ UNCHANGED surplus

\* A unit that d never granted is given back to it.
GiveBackForeign(d) ==
    /\ surplus' = [surplus EXCEPT ![d] = @ + 1]
    /\ UNCHANGED held

Next ==
    \E d \in Periods : Grant(d) \/ GiveBack(d) \/ GiveBackForeign(d)

Spec == Init /\ [][Next]_allowanceVars

\* A counter that never misses the period of a unit.
ExactNext == \E d \in Periods : Grant(d) \/ GiveBack(d)

ExactSpec == Init /\ [][ExactNext]_allowanceVars

=============================================================================
