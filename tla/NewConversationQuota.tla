----------------------- MODULE NewConversationQuota -----------------------
(***************************************************************************)
(* The daily cap on new conversations of one user: a Redis counter per UTC *)
(* day, taken with INCR before the row is created and given back with DECR *)
(* when the handler fails (messaging-rate-limit.service.ts, and its use in *)
(* createConversation).  Any number of the user's requests run at once,    *)
(* days pass between their steps and handlers die; there is always another *)
(* user to write to.                                                       *)
(***************************************************************************)
EXTENDS Integers, FiniteSets

CONSTANTS
    Handlers,   \* requests the user may have in flight
    Max,        \* MESSAGING_NEW_CONV_MAX
    LastDay     \* the days are 1 .. LastDay; time stops there

ASSUME QuotaAssumption ==
    /\ IsFiniteSet(Handlers)
    /\ Max \in Nat \ {0}
    /\ LastDay \in Nat \ {0}

Days == 1 .. LastDay

VARIABLES
    today,      \* the current UTC day
    counter,    \* per day: messaging:newconv:<user>:<day>
    req,        \* per handler: step, day of its slot, whether its row is saved
    used,       \* history, per day: rows created with a slot of that day
    lost,       \* history, per day: slots neither used nor given back
    wrong       \* history, per day: slots given back that were in use or not taken

vars == <<today, counter, req, used, lost, wrong>>

PerDay == [d \in Days |-> 0]

Init ==
    /\ today = 1
    /\ counter = PerDay
    /\ req = [h \in Handlers |-> [pc |-> "idle", day |-> 1, saved |-> FALSE]]
    /\ used = PerDay
    /\ lost = PerDay
    /\ wrong = PerDay

Goto(h, step) == req' = [req EXCEPT ![h].pc = step]

Bump(f, d) == [f EXCEPT ![d] = @ + 1]

\* Handler h counts in the day's counter for a row that is not saved.
Holding(d) ==
    {h \in Handlers : req[h].pc # "idle" /\ req[h].day = d /\ ~req[h].saved}

-----------------------------------------------------------------------------

\* Mutant of Reserve: the value read before the INCR is compared.
ReserveComparingOldValue(h) ==
    /\ req[h].pc = "idle"
    /\ counter' = Bump(counter, today)
    /\ req' = [req EXCEPT ![h] = [day |-> today, saved |-> FALSE,
                  pc |-> IF counter[today] > Max THEN "refuse" ELSE "insert"]]
    /\ UNCHANGED <<today, used, lost, wrong>>

\* reserveNewConversationSlot up to the comparison: INCR returns the new value.
Reserve(h) ==
    /\ req[h].pc = "idle"
    /\ counter' = Bump(counter, today)
    /\ req' = [req EXCEPT ![h] = [day |-> today, saved |-> FALSE,
                  pc |-> IF counter'[today] > Max THEN "refuse" ELSE "insert"]]
    /\ UNCHANGED <<today, used, lost, wrong>>

\* Mutant of Refuse: a refusal keeps its slot.
RefuseKeepingSlot(h) ==
    /\ req[h].pc = "refuse"
    /\ Goto(h, "idle")
    /\ UNCHANGED <<today, counter, used, lost, wrong>>

\* Over the cap: DECR on the same key, 429.
Refuse(h) ==
    /\ req[h].pc = "refuse"
    /\ counter' = [counter EXCEPT ![req[h].day] = @ - 1]
    /\ Goto(h, "idle")
    /\ UNCHANGED <<today, used, lost, wrong>>

\* The transaction that creates the row.
Insert(h) ==
    /\ req[h].pc = "insert"
    /\ used' = Bump(used, req[h].day)
    /\ req' = [req EXCEPT ![h].pc = "load", ![h].saved = TRUE]
    /\ UNCHANGED <<today, counter, lost, wrong>>

\* The peer's row exists by now (409), or the transaction fails.
InsertFails(h) ==
    /\ req[h].pc = "insert"
    /\ Goto(h, "release")
    /\ UNCHANGED <<today, counter, used, lost, wrong>>

\* The saved row is read back and answered.
Answer(h) ==
    /\ req[h].pc = "load"
    /\ Goto(h, "idle")
    /\ UNCHANGED <<today, counter, used, lost, wrong>>

\* The summary is null (a block, a deleted profile) or a query fails: the catch
\* block cannot tell that the row is saved.
LoadFails(h) ==
    /\ req[h].pc = "load"
    /\ Goto(h, "release")
    /\ UNCHANGED <<today, counter, used, lost, wrong>>

\* The key of the day of the release.
ReleaseDay(h) == today

\* releaseNewConversationSlot: DECR.
Release(h) ==
    LET d == req[h].day
        r == ReleaseDay(h)
        own == ~req[h].saved /\ r = d
    IN
    /\ req[h].pc = "release"
    /\ counter' = [counter EXCEPT ![r] = @ - 1]
    /\ wrong' = IF own THEN wrong ELSE Bump(wrong, r)
    /\ lost' = IF own \/ req[h].saved THEN lost ELSE Bump(lost, d)
    /\ Goto(h, "idle")
    /\ UNCHANGED <<today, used>>

\* The process dies, or Redis cannot be reached for the release.
Die(h) ==
    /\ req[h].pc # "idle"
    /\ lost' = IF req[h].saved THEN lost ELSE Bump(lost, req[h].day)
    /\ Goto(h, "idle")
    /\ UNCHANGED <<today, counter, used, wrong>>

Midnight ==
    /\ today < LastDay
    /\ today' = today + 1
    /\ UNCHANGED <<counter, req, used, lost, wrong>>

Next ==
    \/ \E h \in Handlers :
          \/ Reserve(h) \/ Refuse(h) \/ Insert(h) \/ InsertFails(h)
          \/ Answer(h) \/ LoadFails(h) \/ Release(h) \/ Die(h)
    \/ Midnight

Spec == Init /\ [][Next]_vars

-----------------------------------------------------------------------------
(* Properties.                                                             *)

Steps == {"idle", "refuse", "insert", "load", "release"}

\* Every variable has its type; a saved row is never on its way to be inserted.
TypeOK ==
    /\ today \in Days
    /\ counter \in [Days -> Int]
    /\ req \in [Handlers -> [pc : Steps, day : Days, saved : BOOLEAN]]
    /\ used \in [Days -> Nat]
    /\ lost \in [Days -> Nat] /\ wrong \in [Days -> Nat]
    /\ \A h \in Handlers :
          /\ req[h].pc \in {"refuse", "insert"} => ~req[h].saved
          /\ req[h].pc = "load" => req[h].saved

\* The counter of a day is the rows its slots made, the slots in flight and the
\* slots lost, less those given back wrongly: refusals leave no trace.
SlotAccounting ==
    \A d \in Days :
        counter[d] = used[d] + Cardinality(Holding(d)) + lost[d] - wrong[d]

\* Handlers about to create a row with a slot of day d.
Inserting(d) == {h \in Handlers : req[h].pc = "insert" /\ req[h].day = d}

\* A day's slots make at most Max rows, one more for each slot given back
\* wrongly, however many requests race for the last slot.
CapUpToWrongReleases ==
    \A d \in Days :
        used[d] + Cardinality(Inserting(d)) <= Max + wrong[d]

\* The cap read as an allowance: what a day's slots have made, and what they are
\* about to make.
Slots == INSTANCE Allowance WITH
    Periods <- Days,
    Cap <- Max,
    held <- [d \in Days |-> used[d] + Cardinality(Inserting(d))],
    surplus <- wrong

\* The handlers together implement the allowance, step by step.
KeepsAllowance == Slots!Spec

=============================================================================
