----------------------------- MODULE PinLockout -----------------------------
(***************************************************************************)
(* The lockout of one account: pin.service.ts under login, the deletion of *)
(* the account and the reset of the PIN.  Each Redis command is a step.    *)
(* An entry leaves a sliding window when it is too old, which is when the  *)
(* next ZREMRANGEBYSCORE would remove it.                                  *)
(***************************************************************************)
EXTENDS Naturals, FiniteSets

CONSTANTS
    Handlers,     \* requests in flight for this account
    MaxFails,     \* MAX_FAILS in 15 minutes
    MaxLockouts,  \* MAX_LOCKOUTS_24H
    MaxEvents,    \* bound on the lockouts of a day
    MaxDeaths     \* bound on the handlers that die after a wrong PIN

ASSUME PinAssumption ==
    /\ IsFiniteSet(Handlers)
    /\ {MaxFails, MaxLockouts} \subseteq Nat \ {0}
    /\ {MaxEvents, MaxDeaths} \subseteq Nat

VARIABLES
    fails,        \* entries of pin:fail:<email>
    lock,         \* pin:lockout:<userId> is there
    events,       \* entries of pin:lockoutEvents:<userId>
    recover,      \* pin:recoverRequired:<userId> is there
    alive,        \* the account is not deleted
    req,          \* per handler: operation, next command, what it has read
    guesses,      \* history: wrong PINs of logins since the lock was last lifted, less
                  \* the failures that have left the window without one
    lost,         \* history: handlers that died before they recorded a wrong PIN
    stalled,      \* history: handlers that died after that and before they were done
    left,         \* history: what a death left undone, of "lock" and "recover"
    calm,         \* history: no lockout since the last reset began to clear
    opened,       \* history: the last reset was calm to its end
    since         \* history: failures since that reset

keys == <<fails, lock, events, recover>>
counts == <<guesses, lost, stalled, left>>
resets == <<calm, opened, since>>
vars == <<fails, lock, events, recover, alive, req, guesses, lost, stalled, left, calm, opened, since>>

Idle == [op |-> "none", pc |-> "idle", locked |-> FALSE]

\* From a wrong PIN to the decision; from there to the end of a lockout.
Counting == {"addFail", "countFails"}
Locking == {"setLock", "addEvent", "countEvents", "setRecover", "dropFails"}

\* Has added a lockout that may demand the recovery.
Recovering(h) == req[h].pc \in {"countEvents", "setRecover"}

\* Has recorded a failure and is not done with it.
Armed == {h \in Handlers : req[h].pc \in Locking \cup {"countFails"}}

Init ==
    /\ fails = 0 /\ lock = FALSE /\ events = 0 /\ recover = FALSE
    /\ alive = TRUE
    /\ req = [h \in Handlers |-> Idle]
    /\ guesses = 0 /\ lost = 0 /\ stalled = 0 /\ left = {}
    /\ calm = FALSE /\ opened = FALSE /\ since = 0

At(h, step) == req[h].pc = step

Become(h, r) == req' = [req EXCEPT ![h] = r]

Goto(h, step) == Become(h, [req[h] EXCEPT !.pc = step])

Finish(h) == Become(h, Idle)

NobodyLocks == \A g \in Handlers : req[g].pc \notin Locking

Less(m, n) == IF m > n THEN m - n ELSE 0

\* The lock or the failures are lifted: the count of guesses starts again.
Lifted == guesses' = 0 /\ UNCHANGED <<lost, stalled>>

-----------------------------------------------------------------------------
(* Getting to the PIN.                                                     *)

\* The query that finds the user.
BeginLogin(h) ==
    /\ At(h, "idle") /\ alive
    /\ Become(h, [Idle EXCEPT !.op = "login", !.pc = "readLock"])
    /\ UNCHANGED <<keys, alive, counts, resets>>

\* Deleting the account asks for the PIN and for no lock.
BeginDelete(h) ==
    /\ At(h, "idle") /\ alive
    /\ Become(h, [Idle EXCEPT !.op = "delete", !.pc = "compare"])
    /\ UNCHANGED <<keys, alive, counts, resets>>

\* The code was accepted, the user found and the new PIN written.
BeginReset(h) ==
    /\ At(h, "idle") /\ alive
    /\ Become(h, [Idle EXCEPT !.op = "reset", !.pc = "clearRecovery"])
    /\ UNCHANGED <<keys, alive, counts, resets>>

ReadLock(h) ==
    /\ At(h, "readLock")
    /\ Become(h, [req[h] EXCEPT !.pc = "readRecover", !.locked = lock])
    /\ UNCHANGED <<keys, alive, counts, resets>>

\* Mutant of ReadRecover: only the recovery flag refuses.
ReadRecoverOnly(h) ==
    /\ At(h, "readRecover")
    /\ IF recover THEN Finish(h) ELSE Goto(h, "compare")
    /\ UNCHANGED <<keys, alive, counts, resets>>

ReadRecover(h) ==
    /\ At(h, "readRecover")
    /\ IF recover \/ req[h].locked THEN Finish(h) ELSE Goto(h, "compare")
    /\ UNCHANGED <<keys, alive, counts, resets>>

CompareRight(h) ==
    /\ At(h, "compare")
    /\ Goto(h, "clear")
    /\ UNCHANGED <<keys, alive, counts, resets>>

CompareWrong(h) ==
    /\ At(h, "compare")
    /\ guesses' = IF req[h].op = "login" THEN guesses + 1 ELSE guesses
    /\ Goto(h, "addFail")
    /\ UNCHANGED <<keys, alive, lost, stalled, left, resets>>

-----------------------------------------------------------------------------
(* recordFailedPinAttempt and applyLockout.                                *)

AddFail(h) ==
    /\ At(h, "addFail")
    /\ fails' = fails + 1
    /\ since' = IF since < MaxFails THEN since + 1 ELSE since
    /\ Goto(h, "countFails")
    /\ UNCHANGED <<lock, events, recover, alive, counts, calm, opened>>

CountFails(h) ==
    /\ At(h, "countFails")
    /\ IF fails >= MaxFails THEN Goto(h, "setLock") ELSE Finish(h)
    /\ UNCHANGED <<keys, alive, counts, resets>>

SetLock(h) ==
    /\ At(h, "setLock")
    /\ lock' = TRUE
    /\ calm' = FALSE
    /\ Goto(h, "addEvent")
    /\ UNCHANGED <<fails, events, recover, alive, counts, opened, since>>

AddEvent(h) ==
    /\ At(h, "addEvent")
    /\ events < MaxEvents
    /\ events' = events + 1
    /\ Goto(h, "countEvents")
    /\ UNCHANGED <<fails, lock, recover, alive, counts, resets>>

\* Mutant of CountEvents: one lockout too late.
CountEventsOffByOne(h) ==
    /\ At(h, "countEvents")
    /\ IF events > MaxLockouts THEN Goto(h, "setRecover") ELSE Goto(h, "dropFails")
    /\ UNCHANGED <<keys, alive, counts, resets>>

CountEvents(h) ==
    /\ At(h, "countEvents")
    /\ IF events >= MaxLockouts THEN Goto(h, "setRecover") ELSE Goto(h, "dropFails")
    /\ UNCHANGED <<keys, alive, counts, resets>>

SetRecover(h) ==
    /\ At(h, "setRecover")
    /\ recover' = TRUE
    /\ left' = left \ {"recover"}
    /\ Goto(h, "dropFails")
    /\ UNCHANGED <<fails, lock, events, alive, guesses, lost, stalled, resets>>

\* Also the entries of those who came after a success had lifted the lock.
DropFails(h) ==
    /\ At(h, "dropFails")
    /\ fails' = 0
    /\ guesses' = IF lock THEN guesses ELSE Less(guesses, fails)
    /\ left' = left \ {"lock"}
    /\ Finish(h)
    /\ UNCHANGED <<lock, events, recover, alive, lost, stalled, resets>>

-----------------------------------------------------------------------------
(* After the right PIN, and the reset.                                     *)

\* clearPinFailureState: one DEL of both keys.
Clear(h) ==
    /\ At(h, "clear")
    /\ fails' = 0 /\ lock' = FALSE
    /\ Lifted /\ left' = left \ {"lock"}
    /\ IF req[h].op = "delete" THEN Goto(h, "erase") ELSE Finish(h)
    /\ UNCHANGED <<events, recover, alive, resets>>

Erase(h) ==
    /\ At(h, "erase")
    /\ alive' = FALSE
    /\ Goto(h, "clearAll")
    /\ UNCHANGED <<keys, counts, resets>>

\* clearAllForUser: one DEL of the four keys.
ClearAll(h) ==
    /\ At(h, "clearAll")
    /\ fails' = 0 /\ lock' = FALSE /\ events' = 0 /\ recover' = FALSE
    /\ Lifted /\ left' = {}
    /\ Finish(h)
    /\ UNCHANGED <<alive, resets>>

\* Mutant of ClearRecovery: the flag stays for its day.
ClearRecoveryKeepingFlag(h) ==
    /\ At(h, "clearRecovery")
    /\ lock' = FALSE /\ events' = 0
    /\ Lifted /\ left' = left \ {"recover"}
    /\ calm' = NobodyLocks
    /\ Goto(h, "clearFails")
    /\ UNCHANGED <<fails, recover, alive, opened, since>>

\* clearRecoveryRequirement: one DEL of three keys.
ClearRecovery(h) ==
    /\ At(h, "clearRecovery")
    /\ lock' = FALSE /\ events' = 0 /\ recover' = FALSE
    /\ Lifted /\ left' = left \ {"recover"}
    /\ calm' = NobodyLocks
    /\ Goto(h, "clearFails")
    /\ UNCHANGED <<fails, alive, opened, since>>

\* clearPinFailureState once more.
ClearFails(h) ==
    /\ At(h, "clearFails")
    /\ fails' = 0 /\ lock' = FALSE
    /\ Lifted /\ left' = left \ {"lock"}
    /\ opened' = (calm /\ NobodyLocks)
    /\ since' = 0
    /\ Finish(h)
    /\ UNCHANGED <<events, recover, alive, calm>>

-----------------------------------------------------------------------------
(* Deaths and time.                                                        *)

\* A failed query or a crash where nothing is lost.
Abandon(h) ==
    /\ ~At(h, "idle") /\ req[h].pc \notin Counting \cup Locking
    /\ Finish(h)
    /\ UNCHANGED <<keys, alive, counts, resets>>

\* After a wrong PIN: the failure, the lock or the lockout may stay uncounted.
Die(h) ==
    /\ req[h].pc \in Counting \cup Locking
    /\ lost + stalled < MaxDeaths
    /\ IF At(h, "addFail")
       THEN lost' = lost + 1 /\ UNCHANGED <<stalled, left>>
       ELSE /\ stalled' = stalled + 1
            /\ left' = left \cup {"lock"}
                            \cup (IF Recovering(h) THEN {"recover"} ELSE {})
            /\ UNCHANGED lost
    /\ Finish(h)
    /\ UNCHANGED <<keys, alive, guesses, resets>>

\* A failure is 15 minutes old; the guess it stands for is, too.
FailAges ==
    /\ fails > 0
    /\ fails' = fails - 1
    /\ guesses' = Less(guesses, 1)
    /\ UNCHANGED <<lock, events, recover, alive, req, lost, stalled, left, resets>>

\* 15 minutes after the last SET: nobody who has set it is still locking.
LockExpires ==
    /\ lock
    /\ \A h \in Handlers : req[h].pc \notin Locking \ {"setLock"}
    /\ lock' = FALSE
    /\ Lifted
    /\ UNCHANGED <<fails, events, recover, alive, req, left, resets>>

EventAges ==
    /\ events > 0
    /\ events' = events - 1
    /\ UNCHANGED <<fails, lock, recover, alive, req, counts, resets>>

\* A day after the last SET; what was counted then is a day old, too.
RecoverExpires ==
    /\ recover /\ events < MaxLockouts
    /\ \A h \in Handlers : req[h].pc \notin {"countEvents", "setRecover", "dropFails"}
    /\ recover' = FALSE
    /\ UNCHANGED <<fails, lock, events, alive, req, counts, resets>>

-----------------------------------------------------------------------------
(* The specification.                                                      *)

Next ==
    \/ \E h \in Handlers :
          \/ BeginLogin(h) \/ BeginDelete(h) \/ BeginReset(h)
          \/ ReadLock(h) \/ ReadRecover(h) \/ CompareRight(h) \/ CompareWrong(h)
          \/ AddFail(h) \/ CountFails(h) \/ SetLock(h) \/ AddEvent(h) \/ CountEvents(h)
          \/ SetRecover(h) \/ DropFails(h)
          \/ Clear(h) \/ Erase(h) \/ ClearAll(h) \/ ClearRecovery(h) \/ ClearFails(h)
          \/ Abandon(h) \/ Die(h)
    \/ FailAges \/ LockExpires \/ EventAges \/ RecoverExpires

Spec == Init /\ [][Next]_vars

-----------------------------------------------------------------------------
(* Properties.                                                             *)

Steps == {"readLock", "readRecover", "compare", "clear", "erase", "clearAll",
          "clearRecovery", "clearFails"} \cup Counting \cup Locking

Request == [op : {"none", "login", "delete", "reset"}, pc : Steps \cup {"idle"}, locked : BOOLEAN]

KeysOK ==
    /\ fails \in Nat /\ events \in Nat
    /\ lock \in BOOLEAN /\ recover \in BOOLEAN /\ alive \in BOOLEAN

HistoryOK ==
    /\ guesses \in Nat /\ lost \in Nat /\ stalled \in Nat /\ since \in Nat
    /\ calm \in BOOLEAN /\ opened \in BOOLEAN
    /\ left \subseteq {"lock", "recover"}

\* Which operation takes which step.
OpsOK(h) ==
    /\ req[h].pc \in {"readLock", "readRecover"} => req[h].op = "login"
    /\ req[h].pc \in {"erase", "clearAll"} => req[h].op = "delete"
    /\ req[h].pc \in {"clearRecovery", "clearFails"} => req[h].op = "reset"

\* Types of the keys and of what handlers hold; only a login looks at the lock, only a
\* deletion erases, only a reset clears the recovery.
TypeOK ==
    /\ KeysOK /\ HistoryOK
    /\ req \in [Handlers -> Request]
    /\ \A h \in Handlers : OpsOK(h)

\* MaxFails failures in the window lock the account: a handler is about to see them or to
\* lock, whoever else counts or drops them meanwhile, unless one died before it could.
FullWindowLocks ==
    fails >= MaxFails =>
        "lock" \in left \/ Armed # {}

\* The window holds no more than the failures that do not lock, one for each handler that
\* is counting or locking, and one for each that died there.
WindowBounded == fails < MaxFails + Cardinality(Armed) + stalled

\* Logins compare at most MaxFails wrong PINs between two lifts of the lock, and one more
\* for each other request in flight, each death, each failure that aged, and each that the
\* DEL of a lockout already lifted takes away.
GuessesBounded == guesses < MaxFails + Cardinality(Handlers) + lost + stalled

\* MaxLockouts lockouts in a day demand a recovery: the flag is there or about to be set,
\* unless a handler died before it could.
LockoutsRecover ==
    events >= MaxLockouts =>
        \/ recover
        \/ "recover" \in left
        \/ \E h \in Handlers : Recovering(h)

\* A reset that met no lockout under way opens the account: neither the lock nor the
\* recovery flag is there again before MaxFails further failures.
ResetOpens == opened /\ (lock \/ recover) => since >= MaxFails

=============================================================================
