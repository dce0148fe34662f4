----------------------------- MODULE PinProofs -----------------------------
(***************************************************************************)
(* Proofs about PinLockout.tla, for any limits and any finite set of       *)
(* handlers.                                                               *)
(***************************************************************************)
EXTENDS PinLockout, FiniteSetTheorems, TLAPS

-----------------------------------------------------------------------------
(* Types.                                                                  *)

\* The next step of a request that goes on.
Onward(h) ==
    {"compare", "clear"} \cup Counting \cup Locking
        \cup (IF req[h].op = "delete" THEN {"erase", "clearAll"} ELSE {})
        \cup (IF req[h].op = "reset" THEN {"clearFails"} ELSE {})

\* The limits are naturals, and the positive ones positive.
LEMMA Limits ==
    /\ MaxFails \in Nat /\ MaxFails > 0 /\ MaxLockouts \in Nat /\ MaxLockouts > 0
    /\ MaxEvents \in Nat /\ MaxDeaths \in Nat
BY PinAssumption

\* How the request of a handler changes in its steps.
LEMMA RequestMoves ==
    ASSUME TypeOK, NEW h \in Handlers,
           \/ BeginLogin(h) \/ BeginDelete(h) \/ BeginReset(h)
           \/ ReadLock(h) \/ ReadRecover(h) \/ CompareRight(h) \/ CompareWrong(h)
           \/ AddFail(h) \/ CountFails(h) \/ SetLock(h) \/ AddEvent(h) \/ CountEvents(h)
           \/ SetRecover(h) \/ DropFails(h)
           \/ Clear(h) \/ Erase(h) \/ ClearAll(h) \/ ClearRecovery(h) \/ ClearFails(h)
           \/ Abandon(h) \/ Die(h)
    PROVE  \/ Finish(h)
           \/ BeginLogin(h) \/ BeginDelete(h) \/ BeginReset(h) \/ ReadLock(h)
           \/ \E s \in Onward(h) : Goto(h, s)
<1>1. OpsOK(h)
  BY DEF TypeOK, OpsOK
<1>2. CASE Clear(h)
  BY <1>2 DEF Clear, Onward
<1>3. CASE ClearRecovery(h) \/ Erase(h)
  BY <1>1, <1>3 DEF ClearRecovery, Erase, Onward, OpsOK, At
<1> QED
  BY <1>2, <1>3 DEF ReadRecover, CompareRight, CompareWrong, AddFail, CountFails, SetLock,
                    AddEvent, CountEvents, SetRecover, DropFails, ClearAll, ClearFails,
                    Abandon, Die, Onward, Counting, Locking

\* Requests keep their types.
LEMMA RequestType ==
    ASSUME TypeOK, NEW h \in Handlers,
           \/ Finish(h)
           \/ BeginLogin(h) \/ BeginDelete(h) \/ BeginReset(h) \/ ReadLock(h)
           \/ \E s \in Onward(h) : Goto(h, s)
    PROVE  req' \in [Handlers -> Request] /\ \A g \in Handlers : OpsOK(g)'
<1>1. ASSUME NEW r \in Request, Become(h, r),
             r.pc \in {"readLock", "readRecover"} => r.op = "login",
             r.pc \in {"erase", "clearAll"} => r.op = "delete",
             r.pc \in {"clearRecovery", "clearFails"} => r.op = "reset"
      PROVE  req' \in [Handlers -> Request] /\ \A g \in Handlers : OpsOK(g)'
  BY <1>1 DEF TypeOK, Become, OpsOK
<1>2. CASE Finish(h)
  <2>1. Idle \in Request /\ Idle.pc = "idle"
    BY DEF Idle, Request
  <2> QED
    BY <1>1, <1>2, <2>1 DEF Finish
<1>3. CASE BeginLogin(h) \/ BeginDelete(h) \/ BeginReset(h)
  <2>1. ASSUME NEW o \in {"login", "delete", "reset"}, NEW s \in Steps
        PROVE  /\ [Idle EXCEPT !.op = o, !.pc = s] \in Request
               /\ [Idle EXCEPT !.op = o, !.pc = s].op = o
               /\ [Idle EXCEPT !.op = o, !.pc = s].pc = s
    BY DEF Idle, Request
  <2>2. {"readLock", "compare", "clearRecovery"} \subseteq Steps
    BY DEF Steps
  <2>3. CASE BeginLogin(h)
    <3>1. Become(h, [Idle EXCEPT !.op = "login", !.pc = "readLock"])
      BY <2>3 DEF BeginLogin
    <3>2. [Idle EXCEPT !.op = "login", !.pc = "readLock"] \in Request
      BY <2>1, <2>2
    <3>3. /\ [Idle EXCEPT !.op = "login", !.pc = "readLock"].op = "login"
          /\ [Idle EXCEPT !.op = "login", !.pc = "readLock"].pc = "readLock"
      BY <2>1, <2>2
    <3> QED
      BY <1>1, <3>1, <3>2, <3>3
  <2>4. CASE BeginDelete(h)
    <3>1. Become(h, [Idle EXCEPT !.op = "delete", !.pc = "compare"])
      BY <2>4 DEF BeginDelete
    <3>2. [Idle EXCEPT !.op = "delete", !.pc = "compare"] \in Request
      BY <2>1, <2>2
    <3>3. [Idle EXCEPT !.op = "delete", !.pc = "compare"].pc = "compare"
      BY <2>1, <2>2
    <3> QED
      BY <1>1, <3>1, <3>2, <3>3
  <2>5. CASE BeginReset(h)
    <3>1. Become(h, [Idle EXCEPT !.op = "reset", !.pc = "clearRecovery"])
      BY <2>5 DEF BeginReset
    <3>2. [Idle EXCEPT !.op = "reset", !.pc = "clearRecovery"] \in Request
      BY <2>1, <2>2
    <3>3. /\ [Idle EXCEPT !.op = "reset", !.pc = "clearRecovery"].op = "reset"
          /\ [Idle EXCEPT !.op = "reset", !.pc = "clearRecovery"].pc = "clearRecovery"
      BY <2>1, <2>2
    <3> QED
      BY <1>1, <3>1, <3>2, <3>3
  <2> QED
    BY <1>3, <2>3, <2>4, <2>5
<1>4. CASE ReadLock(h)
  <2>1. req[h] \in Request /\ req[h].op = "login" /\ lock \in BOOLEAN
    BY <1>4 DEF TypeOK, KeysOK, OpsOK, ReadLock, At
  <2>2. /\ [req[h] EXCEPT !.pc = "readRecover", !.locked = lock] \in Request
        /\ [req[h] EXCEPT !.pc = "readRecover", !.locked = lock].op = "login"
        /\ [req[h] EXCEPT !.pc = "readRecover", !.locked = lock].pc = "readRecover"
    BY <2>1 DEF Request, Steps
  <2> QED
    BY <1>1, <1>4, <2>2 DEF ReadLock
<1>5. CASE \E s \in Onward(h) : Goto(h, s)
  <2>1. PICK s \in Onward(h) : Goto(h, s)
    BY <1>5
  <2>2. req[h] \in Request /\ s \in Steps
    BY DEF TypeOK, Onward, Steps, Counting, Locking
  <2>3. /\ [req[h] EXCEPT !.pc = s] \in Request
        /\ [req[h] EXCEPT !.pc = s].pc = s
        /\ [req[h] EXCEPT !.pc = s].op = req[h].op
    BY <2>2 DEF Request
  <2>4. /\ s \notin {"readLock", "readRecover", "clearRecovery"}
        /\ s \in {"erase", "clearAll"} => req[h].op = "delete"
        /\ s = "clearFails" => req[h].op = "reset"
    BY DEF Onward, Counting, Locking
  <2> QED
    BY <1>1, <2>1, <2>3, <2>4 DEF Goto
<1> QED
  BY <1>2, <1>3, <1>4, <1>5

\* Every step keeps the types of the keys.
LEMMA KeysType == TypeOK /\ Next => KeysOK'
<1> SUFFICES ASSUME TypeOK, Next PROVE KeysOK'
  OBVIOUS
<1> USE DEF TypeOK, KeysOK
<1>1. ASSUME NEW h \in Handlers,
             \/ BeginLogin(h) \/ BeginDelete(h) \/ BeginReset(h)
             \/ ReadLock(h) \/ ReadRecover(h) \/ CompareRight(h) \/ CompareWrong(h)
             \/ CountFails(h) \/ CountEvents(h) \/ Abandon(h) \/ Erase(h) \/ Die(h)
      PROVE  KeysOK'
  BY <1>1 DEF BeginLogin, BeginDelete, BeginReset, ReadLock, ReadRecover, CompareRight,
              CompareWrong, CountFails, CountEvents, Abandon, Erase, Die, keys
<1>2. ASSUME NEW h \in Handlers, AddFail(h) PROVE KeysOK'
  BY <1>2 DEF AddFail
<1>3. ASSUME NEW h \in Handlers, SetLock(h) PROVE KeysOK'
  BY <1>3 DEF SetLock
<1>4. ASSUME NEW h \in Handlers, AddEvent(h) PROVE KeysOK'
  BY <1>4 DEF AddEvent
<1>5. ASSUME NEW h \in Handlers, SetRecover(h) PROVE KeysOK'
  BY <1>5 DEF SetRecover
<1>6. ASSUME NEW h \in Handlers, DropFails(h) PROVE KeysOK'
  BY <1>6 DEF DropFails
<1>7. ASSUME NEW h \in Handlers, Clear(h) PROVE KeysOK'
  BY <1>7 DEF Clear
<1>8. ASSUME NEW h \in Handlers, ClearAll(h) PROVE KeysOK'
  BY <1>8 DEF ClearAll
<1>9. ASSUME NEW h \in Handlers, ClearRecovery(h) PROVE KeysOK'
  BY <1>9 DEF ClearRecovery
<1>10. ASSUME NEW h \in Handlers, ClearFails(h) PROVE KeysOK'
  BY <1>10 DEF ClearFails
<1>11. CASE FailAges
  BY <1>11 DEF FailAges
<1>12. CASE LockExpires
  BY <1>12 DEF LockExpires
<1>13. CASE EventAges
  BY <1>13 DEF EventAges
<1>14. CASE RecoverExpires
  BY <1>14 DEF RecoverExpires
<1> QED
  BY <1>1, <1>2, <1>3, <1>4, <1>5, <1>6, <1>7, <1>8, <1>9, <1>10, <1>11,
     <1>12, <1>13, <1>14 DEF Next

\* Every step keeps the types of the histories.
LEMMA HistoryType == TypeOK /\ Next => HistoryOK'
<1> SUFFICES ASSUME TypeOK, Next PROVE HistoryOK'
  OBVIOUS
<1> USE DEF TypeOK, HistoryOK
<1>1. ASSUME NEW h \in Handlers,
             \/ BeginLogin(h) \/ BeginDelete(h) \/ BeginReset(h)
             \/ ReadLock(h) \/ ReadRecover(h) \/ CompareRight(h)
             \/ CountFails(h) \/ CountEvents(h) \/ Abandon(h) \/ Erase(h) \/ AddEvent(h)
      PROVE  HistoryOK'
  BY <1>1 DEF BeginLogin, BeginDelete, BeginReset, ReadLock, ReadRecover, CompareRight,
              CountFails, CountEvents, Abandon, Erase, AddEvent, counts, resets
<1>2. ASSUME NEW h \in Handlers, CompareWrong(h) PROVE HistoryOK'
  BY <1>2 DEF CompareWrong, resets
<1>3. ASSUME NEW h \in Handlers, AddFail(h) PROVE HistoryOK'
  BY <1>3, Limits DEF AddFail, counts
<1>4. ASSUME NEW h \in Handlers, SetLock(h) PROVE HistoryOK'
  BY <1>4 DEF SetLock, counts
<1>5. ASSUME NEW h \in Handlers, SetRecover(h) PROVE HistoryOK'
  BY <1>5 DEF SetRecover, resets
<1>6. ASSUME NEW h \in Handlers, DropFails(h) PROVE HistoryOK'
  BY <1>6 DEF DropFails, Less, resets, KeysOK
<1>7. ASSUME NEW h \in Handlers, Clear(h) PROVE HistoryOK'
  BY <1>7 DEF Clear, Lifted, resets
<1>8. ASSUME NEW h \in Handlers, ClearAll(h) PROVE HistoryOK'
  BY <1>8 DEF ClearAll, Lifted, resets
<1>9. ASSUME NEW h \in Handlers, ClearRecovery(h) PROVE HistoryOK'
  BY <1>9 DEF ClearRecovery, Lifted, NobodyLocks
<1>10. ASSUME NEW h \in Handlers, ClearFails(h) PROVE HistoryOK'
  BY <1>10 DEF ClearFails, Lifted, NobodyLocks
<1>11. ASSUME NEW h \in Handlers, Die(h) PROVE HistoryOK'
  <2>1. UNCHANGED <<guesses, calm, opened, since>>
    BY <1>11 DEF Die, resets
  <2>2. lost' \in Nat /\ stalled' \in Nat
    BY <1>11 DEF Die
  <2>3. left' \subseteq {"lock", "recover"}
    BY <1>11 DEF Die
  <2> QED
    BY <2>1, <2>2, <2>3
<1>12. CASE FailAges
  BY <1>12 DEF FailAges, Less, resets
<1>13. CASE LockExpires
  BY <1>13 DEF LockExpires, Lifted, resets
<1>14. CASE EventAges
  BY <1>14 DEF EventAges, counts, resets
<1>15. CASE RecoverExpires
  BY <1>15 DEF RecoverExpires, counts, resets
<1> QED
  BY <1>1, <1>2, <1>3, <1>4, <1>5, <1>6, <1>7, <1>8, <1>9, <1>10, <1>11,
     <1>12, <1>13, <1>14, <1>15 DEF Next

\* Every step keeps the types.
LEMMA NextType == TypeOK /\ [Next]_vars => TypeOK'
<1> SUFFICES ASSUME TypeOK, [Next]_vars PROVE TypeOK'
  OBVIOUS
<1>1. CASE Next
  <2>1. KeysOK' /\ HistoryOK'
    BY <1>1, KeysType, HistoryType
  <2>2. req' \in [Handlers -> Request] /\ \A h \in Handlers : OpsOK(h)'
    <3>1. CASE FailAges \/ LockExpires \/ EventAges \/ RecoverExpires
      BY <3>1 DEF TypeOK, OpsOK, FailAges, LockExpires, EventAges, RecoverExpires
    <3> QED
      BY <1>1, <3>1, RequestMoves, RequestType DEF Next
  <2> QED
    BY <2>1, <2>2 DEF TypeOK
<1>2. CASE UNCHANGED vars
  BY <1>2 DEF vars, TypeOK, KeysOK, HistoryOK, OpsOK
<1> QED
  BY <1>1, <1>2

\* The types hold throughout.
THEOREM TypeCorrect == Spec => []TypeOK
<1>1. Init => TypeOK
  <2> SUFFICES ASSUME Init PROVE TypeOK
    OBVIOUS
  <2>1. Idle \in Request /\ Idle.pc = "idle"
    BY DEF Idle, Request
  <2>2. req \in [Handlers -> Request] /\ \A h \in Handlers : OpsOK(h)
    BY <2>1 DEF Init, OpsOK
  <2>3. KeysOK /\ HistoryOK
    BY DEF Init, KeysOK, HistoryOK
  <2> QED
    BY <2>2, <2>3 DEF TypeOK
<1> QED
  BY <1>1, NextType, PTL DEF Spec

-----------------------------------------------------------------------------
(* The window, the lock, the recovery and the reset.                       *)

\* Where a handler is after it went on or ended; the others stay.
LEMMA Moves ==
    ASSUME TypeOK, NEW h \in Handlers
    PROVE  /\ \A s : Goto(h, s) => /\ req'[h].pc = s
                                  /\ req'[h].op = req[h].op
                                  /\ req'[h].locked = req[h].locked
           /\ Finish(h) => req'[h].pc = "idle"
           /\ BeginLogin(h) => req'[h].pc = "readLock"
           /\ BeginDelete(h) => req'[h].pc = "compare" /\ req'[h].op = "delete"
           /\ BeginReset(h) => req'[h].pc = "clearRecovery"
           /\ ReadLock(h) => req'[h].pc = "readRecover" /\ req'[h].locked = lock
           /\ \A r : Become(h, r) => \A g \in Handlers \ {h} : req'[g] = req[g]
<1>1. \A r : Become(h, r) => req'[h] = r /\ \A g \in Handlers \ {h} : req'[g] = req[g]
  BY DEF TypeOK, Become
<1>2. req[h] \in Request
  BY DEF TypeOK
<1>3. ASSUME NEW s
      PROVE  /\ [req[h] EXCEPT !.pc = s].pc = s
             /\ [req[h] EXCEPT !.pc = s].op = req[h].op
             /\ [req[h] EXCEPT !.pc = s].locked = req[h].locked
             /\ [req[h] EXCEPT !.pc = s, !.locked = lock].pc = s
             /\ [req[h] EXCEPT !.pc = s, !.locked = lock].locked = lock
  BY <1>2 DEF Request
<1>4. ASSUME NEW s, Goto(h, s)
      PROVE  req'[h].pc = s /\ req'[h].op = req[h].op /\ req'[h].locked = req[h].locked
  <2>1. req'[h] = [req[h] EXCEPT !.pc = s]
    BY <1>1, <1>4 DEF Goto
  <2> QED
    BY <1>3, <2>1
<1>5. (Finish(h) => req'[h].pc = "idle") /\ (BeginLogin(h) => req'[h].pc = "readLock")
  <2>1. Finish(h) => req'[h] = Idle
    BY <1>1 DEF Finish
  <2>2. Finish(h) => req'[h].pc = "idle"
    BY <2>1 DEF Idle
  <2>3. BeginLogin(h) => req'[h] = [Idle EXCEPT !.op = "login", !.pc = "readLock"]
    BY <1>1 DEF BeginLogin
  <2>4. BeginLogin(h) => req'[h].pc = "readLock"
    BY <2>3 DEF Idle
  <2> QED
    BY <2>2, <2>4
<1>6. /\ BeginDelete(h) => req'[h].pc = "compare" /\ req'[h].op = "delete"
      /\ BeginReset(h) => req'[h].pc = "clearRecovery"
  <2>1. BeginDelete(h) => req'[h] = [Idle EXCEPT !.op = "delete", !.pc = "compare"]
    BY <1>1 DEF BeginDelete
  <2>2. BeginReset(h) => req'[h] = [Idle EXCEPT !.op = "reset", !.pc = "clearRecovery"]
    BY <1>1 DEF BeginReset
  <2> QED
    BY <2>1, <2>2 DEF Idle
<1>7. ReadLock(h) => req'[h].pc = "readRecover" /\ req'[h].locked = lock
  <2>1. ReadLock(h) => req'[h] = [req[h] EXCEPT !.pc = "readRecover", !.locked = lock]
    BY <1>1 DEF ReadLock
  <2> QED
    BY <1>3, <2>1
<1> QED
  BY <1>1, <1>4, <1>5, <1>6, <1>7

\* The steps that neither record a failure nor belong to a lockout, a reset or a death.
Quiet(h) ==
    \/ BeginLogin(h) \/ BeginDelete(h) \/ BeginReset(h) \/ ReadLock(h) \/ ReadRecover(h)
    \/ CompareRight(h) \/ CompareWrong(h) \/ Erase(h) \/ Abandon(h)

\* A quiet step touches no key and starts and ends outside the lockout.
LEMMA QuietStep ==
    ASSUME TypeOK, NEW h \in Handlers, Quiet(h)
    PROVE  /\ UNCHANGED <<fails, lock, events, recover, lost, stalled, left, calm, opened, since>>
           /\ req[h].pc \notin Locking \cup {"countFails"}
           /\ req'[h].pc \notin Locking \cup {"countFails"}
           /\ \A g \in Handlers \ {h} : req'[g] = req[g]
<1>1. UNCHANGED <<fails, lock, events, recover, lost, stalled, left, calm, opened, since>>
  BY DEF Quiet, BeginLogin, BeginDelete, BeginReset, ReadLock, ReadRecover, CompareRight,
         CompareWrong, Erase, Abandon, keys, counts, resets
<1>2. req[h].pc \notin Locking \cup {"countFails"}
  BY DEF Quiet, BeginLogin, BeginDelete, BeginReset, ReadLock, ReadRecover, CompareRight,
         CompareWrong, Erase, Abandon, At, Locking, Counting
<1>3. \/ BeginLogin(h) \/ BeginDelete(h) \/ BeginReset(h) \/ ReadLock(h) \/ Finish(h)
      \/ \E s \in {"compare", "clear", "addFail", "clearAll"} : Goto(h, s)
  BY DEF Quiet, ReadRecover, CompareRight, CompareWrong, Erase, Abandon
<1>4. req'[h].pc \notin Locking \cup {"countFails"}
  BY <1>3, Moves DEF Locking
<1>5. \A g \in Handlers \ {h} : req'[g] = req[g]
  BY <1>3, Moves DEF Finish, BeginLogin, BeginDelete, BeginReset, ReadLock, Goto
<1> QED
  BY <1>1, <1>2, <1>4, <1>5

\* Every step keeps a full window on its way to a lock.
LEMMA FullWindowStep == TypeOK /\ FullWindowLocks /\ [Next]_vars => FullWindowLocks'
<1> SUFFICES ASSUME TypeOK, FullWindowLocks, [Next]_vars PROVE FullWindowLocks'
  OBVIOUS
<1> USE Limits DEF FullWindowLocks, Armed
<1>1. ASSUME NEW h \in Handlers, Quiet(h) PROVE FullWindowLocks'
  BY <1>1, QuietStep
<1>2. ASSUME NEW h \in Handlers, AddFail(h) PROVE FullWindowLocks'
  BY <1>2, Moves DEF AddFail
<1>3. ASSUME NEW h \in Handlers, CountFails(h) PROVE FullWindowLocks'
  BY <1>3, Moves DEF CountFails, Locking, keys, TypeOK, KeysOK
<1>4. ASSUME NEW h \in Handlers, SetLock(h) \/ AddEvent(h) \/ CountEvents(h) \/ SetRecover(h)
      PROVE  FullWindowLocks'
  <2>1. req'[h].pc \in Locking
    BY <1>4, Moves DEF SetLock, AddEvent, CountEvents, SetRecover, Locking
  <2> QED
    BY <2>1
<1>5. ASSUME NEW h \in Handlers, DropFails(h) \/ Clear(h) \/ ClearAll(h) \/ ClearFails(h)
      PROVE  FullWindowLocks'
  <2>1. fails' = 0
    BY <1>5 DEF DropFails, Clear, ClearAll, ClearFails
  <2> QED
    BY <2>1
<1>6. ASSUME NEW h \in Handlers, ClearRecovery(h) PROVE FullWindowLocks'
  <2>1. /\ fails' = fails /\ left' = left \ {"recover"}
        /\ req[h].pc = "clearRecovery" /\ \A g \in Handlers \ {h} : req'[g] = req[g]
    BY <1>6, Moves DEF ClearRecovery, Goto, At
  <2> QED
    BY <2>1 DEF Locking
<1>7. ASSUME NEW h \in Handlers, Die(h) PROVE FullWindowLocks'
  <2>1. CASE At(h, "addFail")
    <3>1. /\ UNCHANGED <<fails, left>> /\ req[h].pc = "addFail"
          /\ \A g \in Handlers \ {h} : req'[g] = req[g]
      BY <1>7, <2>1, Moves DEF Die, Finish, At, keys
    <3> QED
      BY <3>1 DEF Locking
  <2>2. CASE ~At(h, "addFail")
    BY <1>7, <2>2 DEF Die
  <2> QED
    BY <2>1, <2>2
<1>8. CASE FailAges
  BY <1>8 DEF FailAges, TypeOK, KeysOK
<1>9. CASE LockExpires \/ EventAges \/ RecoverExpires
  BY <1>9 DEF LockExpires, EventAges, RecoverExpires, counts
<1>10. CASE UNCHANGED vars
  BY <1>10 DEF vars
<1> QED
  BY <1>1, <1>2, <1>3, <1>4, <1>5, <1>6, <1>7, <1>8, <1>9, <1>10
  DEF Next, Quiet

\* Enough failures in the window lock the account, unless a death comes in between.
THEOREM EnoughFailuresLock == Spec => []FullWindowLocks
<1>1. Init => FullWindowLocks
  BY Limits DEF Init, FullWindowLocks
<1> QED
  BY <1>1, FullWindowStep, TypeCorrect, PTL DEF Spec

\* Every step keeps the recovery demanded once there are enough lockouts.
LEMMA LockoutsStep == TypeOK /\ LockoutsRecover /\ [Next]_vars => LockoutsRecover'
<1> SUFFICES ASSUME TypeOK, LockoutsRecover, [Next]_vars PROVE LockoutsRecover'
  OBVIOUS
<1> USE Limits DEF LockoutsRecover, Recovering
<1>1. ASSUME NEW h \in Handlers, Quiet(h) PROVE LockoutsRecover'
  BY <1>1, QuietStep DEF Locking
<1>2. ASSUME NEW h \in Handlers,
             AddFail(h) \/ CountFails(h) \/ SetLock(h) \/ DropFails(h) \/ Clear(h) \/ ClearFails(h)
      PROVE  LockoutsRecover'
  <2>1. /\ UNCHANGED <<events, recover>> /\ ("recover" \in left => "recover" \in left')
        /\ req[h].pc \notin {"countEvents", "setRecover"}
        /\ \A g \in Handlers \ {h} : req'[g] = req[g]
    BY <1>2, Moves DEF AddFail, CountFails, SetLock, DropFails, Clear, ClearFails, Goto, Finish,
                       At, keys, counts
  <2> QED
    BY <2>1
<1>3. ASSUME NEW h \in Handlers, AddEvent(h) PROVE LockoutsRecover'
  BY <1>3, Moves DEF AddEvent
<1>4. ASSUME NEW h \in Handlers, CountEvents(h) PROVE LockoutsRecover'
  <2>1. CASE events >= MaxLockouts
    BY <1>4, <2>1, Moves DEF CountEvents
  <2>2. CASE ~(events >= MaxLockouts)
    BY <1>4, <2>2 DEF CountEvents, keys, TypeOK, KeysOK
  <2> QED
    BY <2>1, <2>2
<1>5. ASSUME NEW h \in Handlers, SetRecover(h) PROVE LockoutsRecover'
  BY <1>5 DEF SetRecover
<1>6. ASSUME NEW h \in Handlers, ClearAll(h) \/ ClearRecovery(h) PROVE LockoutsRecover'
  <2>1. events' = 0
    BY <1>6 DEF ClearAll, ClearRecovery
  <2> QED
    BY <2>1
<1>7. ASSUME NEW h \in Handlers, Die(h) PROVE LockoutsRecover'
  <2>1. UNCHANGED <<events, recover>> /\ \A g \in Handlers \ {h} : req'[g] = req[g]
    BY <1>7, Moves DEF Die, Finish, keys
  <2>2. ("recover" \in left => "recover" \in left') /\ (Recovering(h) => "recover" \in left')
    BY <1>7 DEF Die, At
  <2> QED
    BY <2>1, <2>2
<1>8. CASE FailAges \/ LockExpires
  BY <1>8 DEF FailAges, LockExpires
<1>9. CASE EventAges
  BY <1>9 DEF EventAges, TypeOK, KeysOK, counts
<1>10. CASE RecoverExpires
  BY <1>10 DEF RecoverExpires, TypeOK, KeysOK
<1>11. CASE UNCHANGED vars
  BY <1>11 DEF vars
<1> QED
  BY <1>1, <1>2, <1>3, <1>4, <1>5, <1>6, <1>7, <1>8, <1>9, <1>10, <1>11 DEF Next, Quiet

\* Enough lockouts in a day demand a recovery, unless a death comes in between.
THEOREM EnoughLockoutsRecover == Spec => []LockoutsRecover
<1>1. Init => LockoutsRecover
  BY Limits DEF Init, LockoutsRecover
<1> QED
  BY <1>1, LockoutsStep, TypeCorrect, PTL DEF Spec

\* Since a calm reset began nobody has locked; since it was done, failures explain it.
ResetInv ==
    /\ calm => /\ ~recover /\ ~lock
               /\ \A g \in Handlers : req[g].pc \notin Locking \ {"setLock"}
    /\ opened => \/ since >= MaxFails
                 \/ /\ fails <= since
                    /\ ~lock /\ ~recover
                    /\ \A g \in Handlers : req[g].pc \notin Locking

\* Every step keeps the account as the reset has opened it.
LEMMA ResetStep == TypeOK /\ ResetInv /\ [Next]_vars => ResetInv'
<1> SUFFICES ASSUME TypeOK, ResetInv, [Next]_vars PROVE ResetInv'
  OBVIOUS
<1>0. /\ MaxFails \in Nat /\ fails \in Nat /\ since \in Nat
      /\ calm \in BOOLEAN /\ opened \in BOOLEAN
  BY Limits DEF TypeOK, KeysOK, HistoryOK
<1>1. ASSUME NEW h \in Handlers, Quiet(h) PROVE ResetInv'
  BY <1>1, QuietStep DEF ResetInv, Locking
<1>2. ASSUME NEW h \in Handlers, AddFail(h) PROVE ResetInv'
  <2>1. /\ UNCHANGED <<lock, recover, calm, opened>> /\ fails' = fails + 1
        /\ since' = IF since < MaxFails THEN since + 1 ELSE since
    BY <1>2 DEF AddFail
  <2>2. req'[h].pc = "countFails" /\ \A g \in Handlers \ {h} : req'[g] = req[g]
    BY <1>2, Moves DEF AddFail, Goto
  <2> QED
    BY <1>0, <2>1, <2>2 DEF ResetInv, Locking
<1>3. ASSUME NEW h \in Handlers, CountFails(h) PROVE ResetInv'
  <2>1. UNCHANGED <<fails, lock, recover, calm, opened, since>>
    BY <1>3 DEF CountFails, keys, resets
  <2>2. \/ req'[h].pc = "setLock" /\ fails >= MaxFails
        \/ req'[h].pc = "idle"
    BY <1>3, Moves DEF CountFails
  <2>3. \A g \in Handlers \ {h} : req'[g] = req[g]
    BY <1>3, Moves DEF CountFails, Goto, Finish
  <2> QED
    BY <1>0, <2>1, <2>2, <2>3 DEF ResetInv, Locking
<1>4. ASSUME NEW h \in Handlers,
             SetLock(h) \/ AddEvent(h) \/ CountEvents(h) \/ SetRecover(h) \/ DropFails(h)
      PROVE  ResetInv'
  <2>1. /\ req[h].pc \in Locking /\ UNCHANGED <<opened, since>>
        /\ calm' => calm /\ req[h].pc \in Locking \ {"setLock"}
    BY <1>4 DEF SetLock, AddEvent, CountEvents, SetRecover, DropFails, At, Locking, resets
  <2> QED
    BY <2>1 DEF ResetInv
<1>5. ASSUME NEW h \in Handlers, Clear(h) \/ ClearAll(h) PROVE ResetInv'
  <2>1. /\ UNCHANGED <<calm, opened, since>> /\ fails' = 0 /\ ~lock'
        /\ recover' => recover
    BY <1>5 DEF Clear, ClearAll, resets
  <2>2. req'[h].pc \in {"erase", "idle"} /\ \A g \in Handlers \ {h} : req'[g] = req[g]
    BY <1>5, Moves DEF Clear, ClearAll, Goto, Finish
  <2> QED
    BY <1>0, <2>1, <2>2 DEF ResetInv, Locking
<1>6. ASSUME NEW h \in Handlers, ClearRecovery(h) PROVE ResetInv'
  <2>1. /\ UNCHANGED <<fails, opened, since>> /\ ~lock' /\ ~recover'
        /\ calm' => NobodyLocks
    BY <1>6 DEF ClearRecovery
  <2>2. req'[h].pc = "clearFails" /\ \A g \in Handlers \ {h} : req'[g] = req[g]
    BY <1>6, Moves DEF ClearRecovery, Goto
  <2> QED
    BY <1>0, <2>1, <2>2 DEF ResetInv, NobodyLocks, Locking
<1>7. ASSUME NEW h \in Handlers, ClearFails(h) PROVE ResetInv'
  <2>1. /\ UNCHANGED <<recover, calm>> /\ ~lock' /\ fails' = 0 /\ since' = 0
        /\ opened' => calm /\ NobodyLocks
    BY <1>7 DEF ClearFails
  <2>2. req'[h].pc = "idle" /\ \A g \in Handlers \ {h} : req'[g] = req[g]
    BY <1>7, Moves DEF ClearFails, Finish
  <2> QED
    BY <1>0, <2>1, <2>2 DEF ResetInv, NobodyLocks, Locking
<1>8. ASSUME NEW h \in Handlers, Die(h) PROVE ResetInv'
  <2>1. UNCHANGED <<fails, lock, recover, calm, opened, since>>
    BY <1>8 DEF Die, keys, resets
  <2>2. req'[h].pc = "idle" /\ \A g \in Handlers \ {h} : req'[g] = req[g]
    BY <1>8, Moves DEF Die, Finish
  <2> QED
    BY <1>0, <2>1, <2>2 DEF ResetInv, Locking
<1>9. CASE FailAges \/ LockExpires \/ EventAges \/ RecoverExpires
  <2>1. /\ UNCHANGED <<req, calm, opened, since>> /\ fails' <= fails
        /\ (lock' => lock) /\ (recover' => recover) /\ fails' \in Int
    BY <1>0, <1>9 DEF FailAges, LockExpires, EventAges, RecoverExpires, resets
  <2> QED
    BY <1>0, <2>1 DEF ResetInv
<1>10. CASE UNCHANGED vars
  BY <1>10 DEF vars, ResetInv
<1> QED
  BY <1>1, <1>2, <1>3, <1>4, <1>5, <1>6, <1>7, <1>8, <1>9, <1>10 DEF Next, Quiet

\* A reset that met no lockout opens the account until there are enough new failures.
THEOREM ResetOpensAccount == Spec => []ResetOpens
<1>1. Init => ResetInv
  BY DEF Init, ResetInv
<1>2. ResetInv => ResetOpens
  BY DEF ResetInv, ResetOpens
<1> QED
  BY <1>1, <1>2, ResetStep, TypeCorrect, PTL DEF Spec

-----------------------------------------------------------------------------
(* The guesses.                                                            *)

\* Logins that have compared a wrong PIN and not recorded it.
Unrecorded == {h \in Handlers : req[h].pc = "addFail" /\ req[h].op = "login"}

\* Logins that may still compare a PIN although the account is locked.
Admitted ==
    {h \in Handlers : \/ req[h].pc = "readRecover" /\ ~req[h].locked
                      \/ req[h].pc = "compare" /\ req[h].op = "login"}

\* The window holds the guesses while there is no lock; from the lock on only the admitted
\* add to them.
GuessInv ==
    /\ WindowBounded
    /\ ~lock => guesses <= fails + Cardinality(Unrecorded) + lost
    /\ lock => guesses + Cardinality(Admitted) < MaxFails + Cardinality(Handlers) + lost + stalled

\* The three sets can be counted.
LEMMA Countable ==
    /\ Cardinality(Armed) \in Nat /\ Cardinality(Unrecorded) \in Nat
    /\ Cardinality(Admitted) \in Nat /\ Cardinality(Handlers) \in Nat
    /\ IsFiniteSet(Armed) /\ IsFiniteSet(Unrecorded) /\ IsFiniteSet(Admitted)
<1>1. /\ Armed \in SUBSET Handlers /\ Unrecorded \in SUBSET Handlers
      /\ Admitted \in SUBSET Handlers
  BY DEF Armed, Unrecorded, Admitted
<1>2. /\ IsFiniteSet(Armed) /\ IsFiniteSet(Unrecorded) /\ IsFiniteSet(Admitted)
      /\ IsFiniteSet(Handlers)
  BY <1>1, PinAssumption, FS_Subset
<1> QED
  BY <1>2, FS_CardinalityType

\* So they can in the next state.
LEMMA CountableNext ==
    /\ Cardinality(Armed)' \in Nat /\ Cardinality(Unrecorded)' \in Nat
    /\ Cardinality(Admitted)' \in Nat
<1>1. /\ Armed' \in SUBSET Handlers /\ Unrecorded' \in SUBSET Handlers
      /\ Admitted' \in SUBSET Handlers
  BY DEF Armed, Unrecorded, Admitted
<1>2. IsFiniteSet(Armed') /\ IsFiniteSet(Unrecorded') /\ IsFiniteSet(Admitted')
  BY <1>1, PinAssumption, FS_Subset
<1>3. Cardinality(Armed') \in Nat /\ Cardinality(Unrecorded') \in Nat
      /\ Cardinality(Admitted') \in Nat
  BY <1>2, FS_CardinalityType
<1> QED
  BY <1>3

\* No handler is in two of them.
LEMMA Apart ==
    Cardinality(Armed) + Cardinality(Unrecorded) + Cardinality(Admitted) <= Cardinality(Handlers)
<1>1. Armed \cap Unrecorded = {} /\ (Armed \cup Unrecorded) \cap Admitted = {}
  BY DEF Armed, Unrecorded, Admitted, Locking
<1>2. /\ IsFiniteSet(Armed \cup Unrecorded)
      /\ Cardinality(Armed \cup Unrecorded) = Cardinality(Armed) + Cardinality(Unrecorded)
  <2>1. Cardinality(Armed \cap Unrecorded) = 0
    BY <1>1, FS_EmptySet
  <2>2. /\ IsFiniteSet(Armed \cup Unrecorded)
        /\ Cardinality(Armed \cup Unrecorded)
             = Cardinality(Armed) + Cardinality(Unrecorded) - Cardinality(Armed \cap Unrecorded)
    BY Countable, FS_Union
  <2> QED
    BY <2>1, <2>2, Countable
<1>3. Cardinality(Armed \cup Unrecorded \cup Admitted)
        = Cardinality(Armed) + Cardinality(Unrecorded) + Cardinality(Admitted)
  <2>1. Cardinality((Armed \cup Unrecorded) \cap Admitted) = 0
    BY <1>1, FS_EmptySet
  <2>2. Cardinality((Armed \cup Unrecorded) \cup Admitted)
          = Cardinality(Armed \cup Unrecorded) + Cardinality(Admitted)
              - Cardinality((Armed \cup Unrecorded) \cap Admitted)
    BY <1>2, Countable, FS_Union
  <2> QED
    BY <1>2, <2>1, <2>2, Countable
<1>4. Armed \cup Unrecorded \cup Admitted \in SUBSET Handlers
  BY DEF Armed, Unrecorded, Admitted
<1> QED
  BY <1>3, <1>4, PinAssumption, FS_Subset

\* When one handler moves, the counts change by that handler alone.
LEMMA CountsMove ==
    ASSUME NEW h \in Handlers, \A g \in Handlers \ {h} : req'[g] = req[g]
    PROVE  /\ Cardinality(Armed)' = Cardinality(Armed) - (IF h \in Armed THEN 1 ELSE 0)
                                                     + (IF h \in Armed' THEN 1 ELSE 0)
           /\ Cardinality(Unrecorded)' =
                Cardinality(Unrecorded) - (IF h \in Unrecorded THEN 1 ELSE 0)
                                        + (IF h \in Unrecorded' THEN 1 ELSE 0)
           /\ Cardinality(Admitted)' = Cardinality(Admitted) - (IF h \in Admitted THEN 1 ELSE 0)
                                                           + (IF h \in Admitted' THEN 1 ELSE 0)
<1>1. ASSUME NEW S, NEW T, IsFiniteSet(S), IsFiniteSet(T), S \ {h} = T \ {h}
      PROVE  Cardinality(T) = Cardinality(S) - (IF h \in S THEN 1 ELSE 0)
                                             + (IF h \in T THEN 1 ELSE 0)
  <2>1. /\ Cardinality(S) \in Nat /\ Cardinality(T) \in Nat
        /\ Cardinality(S \ {h}) = IF h \in S THEN Cardinality(S) - 1 ELSE Cardinality(S)
        /\ Cardinality(T \ {h}) = IF h \in T THEN Cardinality(T) - 1 ELSE Cardinality(T)
    BY <1>1, FS_RemoveElement, FS_CardinalityType
  <2> QED
    BY <1>1, <2>1
<1>2. /\ Armed \ {h} = Armed' \ {h}
      /\ Unrecorded \ {h} = Unrecorded' \ {h}
      /\ Admitted \ {h} = Admitted' \ {h}
  BY DEF Armed, Unrecorded, Admitted
<1>3. /\ Armed' \in SUBSET Handlers /\ Unrecorded' \in SUBSET Handlers
      /\ Admitted' \in SUBSET Handlers
  BY DEF Armed, Unrecorded, Admitted
<1>4. IsFiniteSet(Armed') /\ IsFiniteSet(Unrecorded') /\ IsFiniteSet(Admitted')
  BY <1>3, PinAssumption, FS_Subset
<1>5. Cardinality(Armed') = Cardinality(Armed) - (IF h \in Armed THEN 1 ELSE 0)
                                               + (IF h \in Armed' THEN 1 ELSE 0)
  BY <1>1, <1>2, <1>4, Countable
<1>6. Cardinality(Unrecorded') = Cardinality(Unrecorded) - (IF h \in Unrecorded THEN 1 ELSE 0)
                                                         + (IF h \in Unrecorded' THEN 1 ELSE 0)
  BY <1>1, <1>2, <1>4, Countable
<1>7. Cardinality(Admitted') = Cardinality(Admitted) - (IF h \in Admitted THEN 1 ELSE 0)
                                                     + (IF h \in Admitted' THEN 1 ELSE 0)
  BY <1>1, <1>2, <1>4, Countable
<1> QED
  BY <1>5, <1>6, <1>7

\* The step of one handler keeps the account of the guesses.
LEMMA HandlerGuesses ==
    ASSUME TypeOK, GuessInv, NEW h \in Handlers,
           \/ Quiet(h) \/ AddFail(h) \/ CountFails(h) \/ SetLock(h) \/ AddEvent(h)
           \/ CountEvents(h) \/ SetRecover(h) \/ DropFails(h) \/ Clear(h) \/ ClearAll(h)
           \/ ClearRecovery(h) \/ ClearFails(h) \/ Die(h)
    PROVE  GuessInv'
<1> DEFINE A == Cardinality(Armed)
           U == Cardinality(Unrecorded)
           D == Cardinality(Admitted)
           N == Cardinality(Handlers)
<1>1. /\ A \in Nat /\ U \in Nat /\ D \in Nat /\ N \in Nat /\ A + U + D <= N
      /\ fails \in Nat /\ guesses \in Nat /\ lost \in Nat /\ stalled \in Nat
      /\ lock \in BOOLEAN /\ MaxFails \in Nat /\ MaxFails > 0
  BY Countable, Apart, Limits DEF TypeOK, KeysOK, HistoryOK
<1>2. \A g \in Handlers \ {h} : req'[g] = req[g]
  <2>1. CASE Quiet(h)
    BY <2>1, QuietStep
  <2>2. CASE ~Quiet(h)
    BY <2>2, Moves DEF AddFail, CountFails, SetLock, AddEvent, CountEvents, SetRecover,
                       DropFails, Clear, ClearAll, ClearRecovery, ClearFails, Die, Goto, Finish
  <2> QED
    BY <2>1, <2>2
<1>3. /\ A' = A - (IF h \in Armed THEN 1 ELSE 0) + (IF h \in Armed' THEN 1 ELSE 0)
      /\ U' = U - (IF h \in Unrecorded THEN 1 ELSE 0) + (IF h \in Unrecorded' THEN 1 ELSE 0)
      /\ D' = D - (IF h \in Admitted THEN 1 ELSE 0) + (IF h \in Admitted' THEN 1 ELSE 0)
  BY <1>2, CountsMove
<1>4. /\ h \in Armed <=> req[h].pc \in Locking \cup {"countFails"}
      /\ h \in Armed' <=> req'[h].pc \in Locking \cup {"countFails"}
      /\ h \in Unrecorded <=> (req[h].pc = "addFail" /\ req[h].op = "login")
      /\ h \in Unrecorded' <=> (req'[h].pc = "addFail" /\ req'[h].op = "login")
      /\ h \in Admitted <=> \/ req[h].pc = "readRecover" /\ ~req[h].locked
                            \/ req[h].pc = "compare" /\ req[h].op = "login"
      /\ h \in Admitted' <=> \/ req'[h].pc = "readRecover" /\ ~req'[h].locked
                             \/ req'[h].pc = "compare" /\ req'[h].op = "login"
  BY DEF Armed, Unrecorded, Admitted
<1>5. /\ fails < MaxFails + A + stalled
      /\ ~lock => guesses <= fails + U + lost
      /\ lock => guesses + D < MaxFails + N + lost + stalled
  BY DEF GuessInv, WindowBounded
<1>6. SUFFICES /\ fails' < MaxFails + A' + stalled'
               /\ ~lock' => guesses' <= fails' + U' + lost'
               /\ lock' => guesses' + D' < MaxFails + N + lost' + stalled'
  BY DEF GuessInv, WindowBounded
<1> HIDE DEF A, U, D, N
<1>7. CASE Quiet(h) /\ ~CompareWrong(h)
  <2>1. UNCHANGED <<fails, lock, guesses, lost, stalled>> /\ A' = A
    <3>1. guesses' = guesses
      BY <1>7 DEF Quiet, BeginLogin, BeginDelete, BeginReset, ReadLock, ReadRecover,
                  CompareRight, Erase, Abandon, counts
    <3> QED
      BY <1>1, <1>3, <1>4, <1>7, <3>1, QuietStep
  <2>2. U' = U
    <3>1. req[h].pc # "addFail" /\ req'[h].pc # "addFail"
      <4>1. \/ BeginLogin(h) \/ BeginDelete(h) \/ BeginReset(h) \/ ReadLock(h) \/ Finish(h)
            \/ \E s \in {"compare", "clear", "clearAll"} : Goto(h, s)
        BY <1>7 DEF Quiet, ReadRecover, CompareRight, Erase, Abandon
      <4>2. req'[h].pc # "addFail"
        BY <4>1, Moves
      <4>3. req[h].pc # "addFail"
        BY <1>7 DEF Quiet, BeginLogin, BeginDelete, BeginReset, ReadLock, ReadRecover,
                    CompareRight, Erase, Abandon, At, Counting
      <4> QED
        BY <4>2, <4>3
    <3> QED
      BY <1>1, <1>3, <1>4, <3>1
  <2>3. lock => D' <= D
    <3>1. CASE ReadRecover(h)
      <4>1. /\ req[h].pc = "readRecover"
            /\ req'[h].pc = "idle" \/ ~req[h].locked
        BY <3>1, Moves DEF ReadRecover, At
      <4>2. h \in Admitted' => h \in Admitted
        BY <1>4, <4>1
      <4> QED
        BY <1>1, <1>3, <4>2
    <3>2. CASE ReadLock(h)
      <4>1. req'[h].pc = "readRecover" /\ req'[h].locked = lock
        BY <3>2, Moves
      <4>2. lock => h \notin Admitted'
        BY <1>4, <4>1
      <4> QED
        BY <1>1, <1>3, <4>2
    <3>3. CASE ~ReadRecover(h) /\ ~ReadLock(h)
      <4>1. \/ BeginLogin(h) \/ BeginDelete(h) \/ BeginReset(h) \/ Finish(h)
            \/ Goto(h, "clear") \/ Goto(h, "clearAll")
        BY <1>7, <3>3 DEF Quiet, CompareRight, Erase, Abandon
      <4>2. \/ req'[h].pc \in {"readLock", "clearRecovery", "idle", "clear", "clearAll"}
            \/ req'[h].pc = "compare" /\ req'[h].op = "delete"
        BY <4>1, Moves
      <4>3. h \notin Admitted'
        BY <1>4, <4>2
      <4> QED
        BY <1>1, <1>3, <4>3
    <3> QED
      BY <3>1, <3>2, <3>3
  <2>4. PICK d \in Nat : D' = d
    BY CountableNext DEF D
  <2> QED
    BY <1>1, <1>5, <2>1, <2>2, <2>3, <2>4
<1>8. CASE CompareWrong(h)
  <2>1. /\ UNCHANGED <<fails, lock, lost, stalled>> /\ req[h].pc = "compare"
        /\ guesses' = IF req[h].op = "login" THEN guesses + 1 ELSE guesses
        /\ req'[h].pc = "addFail" /\ req'[h].op = req[h].op
    BY <1>8, Moves DEF CompareWrong, At, keys
  <2> QED
    BY <1>1, <1>3, <1>4, <1>5, <2>1 DEF Locking
<1>9. CASE AddFail(h)
  <2>1. /\ UNCHANGED <<guesses, lock, lost, stalled>> /\ fails' = fails + 1
        /\ req[h].pc = "addFail" /\ req'[h].pc = "countFails"
    BY <1>9, Moves DEF AddFail, At, counts
  <2>2. A' = A + 1 /\ D' = D /\ (U' = U \/ U' = U - 1)
    BY <1>1, <1>3, <1>4, <2>1 DEF Locking
  <2>3. PICK u \in Nat : U' = u
    BY CountableNext DEF U
  <2> QED
    BY <1>1, <1>5, <2>1, <2>2, <2>3
<1>10. CASE CountFails(h)
  <2>1. /\ UNCHANGED <<fails, guesses, lock, lost, stalled>> /\ req[h].pc = "countFails"
        /\ \/ req'[h].pc = "setLock"
           \/ req'[h].pc = "idle" /\ fails < MaxFails
    BY <1>1, <1>10, Moves DEF CountFails, At, keys, counts
  <2>2. U' = U /\ D' = D /\ (A' = A \/ (A' = A - 1 /\ fails < MaxFails))
    BY <1>1, <1>3, <1>4, <2>1 DEF Locking
  <2>3. PICK a \in Nat : A' = a
    BY CountableNext DEF A
  <2> QED
    BY <1>1, <1>5, <2>1, <2>2, <2>3
<1>11. CASE SetLock(h) \/ AddEvent(h) \/ CountEvents(h) \/ SetRecover(h)
  <2>1. /\ UNCHANGED <<fails, guesses, lost, stalled>> /\ (lock' = lock \/ lock' = TRUE)
        /\ req[h].pc \in Locking /\ req'[h].pc \in Locking
    BY <1>11, Moves DEF SetLock, AddEvent, CountEvents, SetRecover, At, keys, counts, Locking
  <2>2. A' = A /\ U' = U /\ D' = D
    BY <1>1, <1>3, <1>4, <2>1 DEF Locking
  <2>3. ~lock => guesses + D < MaxFails + N + lost + stalled
    BY <1>1, <1>5
  <2> QED
    BY <1>1, <1>5, <2>1, <2>2, <2>3
<1>12. CASE DropFails(h)
  <2>1. /\ UNCHANGED <<lock, lost, stalled>> /\ fails' = 0
        /\ req[h].pc = "dropFails" /\ req'[h].pc = "idle"
    BY <1>12, Moves DEF DropFails, At
  <2>2. U' = U /\ D' = D /\ A' = A - 1 /\ A >= 1
    <3>1. h \in Armed /\ A >= 1
      <4>1. h \in Armed
        BY <1>4, <2>1 DEF Locking
      <4> QED
        BY <4>1, Countable, FS_EmptySet DEF A
    <3> QED
      BY <1>1, <1>3, <1>4, <2>1, <3>1 DEF Locking
  <2>3. PICK a \in Nat : A' = a
    BY CountableNext DEF A
  <2>4. PICK g \in Nat : /\ guesses' = g
                         /\ ~lock => g <= U + lost
                         /\ lock => g = guesses
    BY <1>1, <1>5, <1>12 DEF DropFails, Less
  <2> QED
    BY <1>1, <1>5, <2>1, <2>2, <2>3, <2>4
<1>13. CASE Clear(h) \/ ClearAll(h) \/ ClearFails(h)
  <2>1. UNCHANGED <<lost, stalled>> /\ fails' = 0 /\ guesses' = 0 /\ ~lock'
    BY <1>13 DEF Clear, ClearAll, ClearFails, Lifted
  <2>2. PICK a \in Nat, u \in Nat : A' = a /\ U' = u
    BY CountableNext DEF A, U
  <2> QED
    BY <1>1, <2>1, <2>2
<1>14. CASE ClearRecovery(h)
  <2>1. /\ UNCHANGED <<fails, lost, stalled>> /\ guesses' = 0 /\ ~lock'
        /\ req[h].pc = "clearRecovery" /\ req'[h].pc = "clearFails"
    BY <1>14, Moves DEF ClearRecovery, Lifted, At
  <2> QED
    BY <1>1, <1>3, <1>4, <1>5, <2>1 DEF Locking
<1>15. CASE Die(h)
  <2>1. /\ UNCHANGED <<fails, lock, guesses>> /\ req'[h].pc = "idle"
        /\ \/ req[h].pc = "addFail" /\ lost' = lost + 1 /\ stalled' = stalled
           \/ req[h].pc \in Locking \cup {"countFails"} /\ lost' = lost /\ stalled' = stalled + 1
    BY <1>15, Moves DEF Die, At, keys, Counting
  <2> QED
    BY <1>1, <1>3, <1>4, <1>5, <2>1 DEF Locking
<1> QED
  BY <1>7, <1>8, <1>9, <1>10, <1>11, <1>12, <1>13, <1>14, <1>15

\* Every step keeps the account of the guesses.
LEMMA GuessStep == TypeOK /\ GuessInv /\ [Next]_vars => GuessInv'
<1> SUFFICES ASSUME TypeOK, GuessInv, [Next]_vars PROVE GuessInv'
  OBVIOUS
<1>1. CASE FailAges \/ LockExpires \/ EventAges \/ RecoverExpires
  <2>1. Armed' = Armed /\ Unrecorded' = Unrecorded /\ Admitted' = Admitted
    BY <1>1 DEF FailAges, LockExpires, EventAges, RecoverExpires, Armed, Unrecorded, Admitted
  <2>2. /\ fails \in Nat /\ guesses \in Nat /\ lost \in Nat /\ stalled \in Nat
        /\ MaxFails \in Nat
    BY Limits DEF TypeOK, KeysOK, HistoryOK
  <2>3. UNCHANGED <<lost, stalled>>
    BY <1>1 DEF FailAges, LockExpires, EventAges, RecoverExpires, Lifted, counts
  <2>4. \/ lock' = lock /\ fails' = fails /\ guesses' = guesses
        \/ ~lock' /\ fails' = fails /\ guesses' = 0
        \/ lock' = lock /\ fails > 0 /\ fails' = fails - 1 /\ guesses' = Less(guesses, 1)
    BY <1>1 DEF FailAges, LockExpires, EventAges, RecoverExpires, Lifted, counts
  <2> QED
    BY <2>1, <2>2, <2>3, <2>4, Countable DEF GuessInv, WindowBounded, Less
<1>2. CASE UNCHANGED vars
  BY <1>2 DEF vars, GuessInv, WindowBounded, Armed, Unrecorded, Admitted
<1> QED
  BY <1>1, <1>2, HandlerGuesses DEF Next, Quiet

\* The account of the guesses holds throughout.
THEOREM GuessesAccounted == Spec => []GuessInv
<1>1. Init => GuessInv
  <2> SUFFICES ASSUME Init PROVE GuessInv
    OBVIOUS
  <2>1. Cardinality(Armed) \in Nat /\ Cardinality(Unrecorded) \in Nat
    BY Countable
  <2> QED
    BY <2>1, Limits DEF Init, GuessInv, WindowBounded
<1> QED
  BY <1>1, GuessStep, TypeCorrect, PTL DEF Spec

\* The window never outgrows what does not lock and what is in flight.
THEOREM WindowIsBounded == Spec => []WindowBounded
BY GuessesAccounted, PTL DEF GuessInv

\* The wrong PINs that logins compare between two lifts of the lock are bounded.
THEOREM GuessesAreBounded == Spec => []GuessesBounded
<1>1. TypeOK /\ GuessInv => GuessesBounded
  <2> SUFFICES ASSUME TypeOK, GuessInv PROVE GuessesBounded
    OBVIOUS
  <2>1. /\ fails \in Nat /\ guesses \in Nat /\ lost \in Nat /\ stalled \in Nat
        /\ lock \in BOOLEAN /\ MaxFails \in Nat
    BY Limits DEF TypeOK, KeysOK, HistoryOK
  <2> QED
    BY <2>1, Countable, Apart DEF GuessInv, WindowBounded, GuessesBounded
<1> QED
  BY <1>1, GuessesAccounted, TypeCorrect, PTL

=============================================================================
