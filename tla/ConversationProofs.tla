------------------------ MODULE ConversationProofs ------------------------
(***************************************************************************)
(* Proofs about Conversation, Inbox and AdminLogin, for any number of      *)
(* handlers, messages, failures and logins.                                *)
(***************************************************************************)
EXTENDS MCConvInboxLogin, FiniteSetTheorems, TLAPS

-----------------------------------------------------------------------------
(* Facts about the operators.                                              *)

\* Other is the swap of the two participants.
LEMMA OtherSwaps ==
    ASSUME NEW u \in Users
    PROVE  Other(u) \in Users /\ Other(u) # u /\ Other(Other(u)) = u
BY UsersAssumption DEF Users, Other

\* Counting an early message keeps the counts in range.
LEMMA EarlyType ==
    ASSUME NEW u \in Users, early \in [Users -> 0 .. MaxEarly]
    PROVE  Early(u) \in [Users -> 0 .. MaxEarly] /\ Intro(u) \in [Users -> 0 .. MaxEarly]
BY MaxEarlyAssumption DEF Early, Intro

-----------------------------------------------------------------------------
(* Type correctness.                                                       *)

\* Init establishes the types.
LEMMA InitType == Init => TypeOK
<1> SUFFICES ASSUME Init PROVE TypeOK
  OBVIOUS
<1>1. conv \in Row
  BY DEF Init, NoRow, Row, Statuses
<1>2. /\ req \in [Handlers -> [user : Users \cup {Nobody}, pc : Steps, then : AfterCheck]]
      /\ \A h \in Handlers : req[h].pc # "idle" => req[h].user \in Users
  BY DEF Init, Idle, Steps, AfterCheck
<1>3. early \in [Users -> 0 .. MaxEarly]
  BY MaxEarlyAssumption DEF Init
<1> QED
  BY <1>1, <1>2, <1>3 DEF Init, TypeOK

\* No step of the system breaks them.
LEMMA NextType == TypeOK /\ [Next]_vars => TypeOK'
<1> SUFFICES ASSUME TypeOK, [Next]_vars PROVE TypeOK'
  OBVIOUS
<1> USE DEF TypeOK
<1>1. ASSUME NEW h \in Handlers, NEW u \in Users, Begin(h, u) PROVE TypeOK'
  BY <1>1 DEF Begin, Steps, AfterCheck
<1>2. ASSUME NEW h \in Handlers, Fail(h) PROVE TypeOK'
  BY <1>2 DEF Fail, Finish, Idle, Steps, AfterCheck
<1>3. ASSUME NEW h \in Handlers, Handle(h) PROVE TypeOK'
  <2> USE DEF Finish, Goto, CheckThen, Idle, Steps, AfterCheck, Commits
  <2>1. CASE CheckBlockedByTarget(h)
    BY <2>1 DEF CheckBlockedByTarget
  <2>2. CASE CheckViewerBlocked(h)
    BY <2>2 DEF CheckViewerBlocked
  <2>3. CASE FindForCreate(h)
    BY <2>3 DEF FindForCreate
  <2>4. CASE FindForAccept(h)
    BY <2>4 DEF FindForAccept, FindForDecision
  <2>5. CASE FindForReject(h)
    BY <2>5 DEF FindForReject, FindForDecision
  <2>6. CASE FindForSend(h)
    BY <2>6 DEF FindForSend
  <2>7. CASE FindBlock(h)
    BY <2>7 DEF FindBlock
  <2>8. CASE InsertConversation(h)
    <3> DEFINE u == req[h].user
    <3>1. u \in Users
      BY <2>8 DEF InsertConversation
    <3>2. conv' \in Row
      BY <2>8, <3>1 DEF InsertConversation, NoRow, Row, Statuses
    <3>3. early' \in [Users -> 0 .. MaxEarly]
      BY <2>8, <3>1, EarlyType DEF InsertConversation
    <3> QED
      BY <2>8, <3>2, <3>3 DEF InsertConversation
  <2>9. CASE ReopenConversation(h)
    BY <2>9, EarlyType DEF ReopenConversation, ReopenedRow, Row, Statuses
  <2>10. CASE CommitAccept(h)
    BY <2>10 DEF CommitAccept, AcceptedRow, Row, Statuses
  <2>11. CASE CommitReject(h)
    BY <2>11 DEF CommitReject, RejectedRow, Row, Statuses
  <2>12. CASE CommitPost(h)
    BY <2>12, EarlyType DEF CommitPost
  <2>13. CASE InsertBlock(h)
    BY <2>13, OtherSwaps DEF InsertBlock
  <2>14. CASE SweepPending(h)
    BY <2>14 DEF SweepPending, SweptRow, RejectedRow, Row, Statuses
  <2>15. CASE FileReport(h)
    <3> DEFINE u == req[h].user
    <3>1. u \in Users /\ Other(u) \in Users
      BY <2>15, OtherSwaps DEF FileReport
    <3>2. conv' \in Row
      BY <2>15, <3>1 DEF FileReport, SweptRow, RejectedRow, Row, Statuses
    <3> QED
      BY <2>15, <3>1, <3>2 DEF FileReport
  <2> QED
    BY <1>3, <2>1, <2>2, <2>3, <2>4, <2>5, <2>6, <2>7, <2>8, <2>9, <2>10, <2>11,
       <2>12, <2>13, <2>14, <2>15 DEF Handle
<1>4. ASSUME NEW u \in Users, Unblock(u) PROVE TypeOK'
  BY <1>4 DEF Unblock
<1>5. CASE ThirtyDaysPass
  BY <1>5 DEF ThirtyDaysPass, Row, Idle, Steps, AfterCheck
<1>6. CASE ArchiveStalePending
  BY <1>6 DEF ArchiveStalePending, Row, Statuses
<1>7. CASE UNCHANGED vars
  BY <1>7 DEF vars
<1> QED
  BY <1>1, <1>2, <1>3, <1>4, <1>5, <1>6, <1>7 DEF Next

\* TypeOK holds in every state.
THEOREM TypeCorrect == Spec => []TypeOK
BY InitType, NextType, PTL DEF Spec

-----------------------------------------------------------------------------
(* The row.                                                                *)

Writes(h) ==
    \/ InsertConversation(h)
    \/ ReopenConversation(h)
    \/ CommitAccept(h)
    \/ CommitReject(h)
    \/ SweepPending(h)
    \/ FileReport(h)

\* Only the last step of a handler, the passing of time and the archive job
\* change the row.
LEMMA RowWriters ==
    ASSUME [Next]_vars
    PROVE  \/ conv' = conv
           \/ \E h \in Handlers : Writes(h)
           \/ ThirtyDaysPass
           \/ ArchiveStalePending
BY DEF Next, Handle, Writes, vars, Begin, Fail, Unblock, CheckBlockedByTarget,
       CheckViewerBlocked, FindForCreate, FindForAccept, FindForReject, FindForDecision,
       FindForSend, FindBlock, CommitPost, InsertBlock

\* What a handler's write makes of the row, u being the handler's user.
LEMMA RowAfterWrite ==
    ASSUME TypeOK, NEW h \in Handlers, Writes(h)
    PROVE  /\ req[h].user \in Users
           /\ \/ conv' = conv
              \/ /\ req[h].pc = "insert" /\ conv.status = "NONE"
                 /\ conv' = [NoRow EXCEPT !.status = "PENDING", !.initiator = req[h].user]
              \/ /\ req[h].pc = "reopen"
                 /\ conv' = ReopenedRow(req[h].user)
              \/ /\ req[h].pc \in {"accept", "reply"} /\ conv.status = "PENDING"
                 /\ conv' = [conv EXCEPT !.status = "ACTIVE", !.accepted = TRUE]
              \/ /\ \/ req[h].pc = "reject"
                    \/ req[h].pc \in {"sweep", "report"} /\ conv.initiator = Other(req[h].user)
                 /\ conv.status = "PENDING"
                 /\ conv' = [conv EXCEPT !.status = "REJECTED", !.rejectedBy = req[h].user]
BY DEF TypeOK, Writes, InsertConversation, ReopenConversation, CommitAccept, AcceptedRow,
       CommitReject, RejectedRow, SweepPending, FileReport, SweptRow

\* The marks are consistent at the start and after every step.
LEMMA NextConsistent == TypeOK /\ RowConsistent /\ [Next]_vars => RowConsistent'
<1> SUFFICES ASSUME TypeOK, RowConsistent, [Next]_vars PROVE RowConsistent'
  OBVIOUS
<1>1. CASE conv' = conv
  BY <1>1 DEF RowConsistent
<1>2. ASSUME NEW h \in Handlers, Writes(h) PROVE RowConsistent'
  <2> DEFINE u == req[h].user
  <2>1. u \in Users /\ u # Nobody
    BY <1>2, RowAfterWrite, UsersAssumption
  <2>2. CASE conv' = [NoRow EXCEPT !.status = "PENDING", !.initiator = u]
    BY <2>1, <2>2 DEF NoRow, RowConsistent
  <2>3. CASE conv' = ReopenedRow(u)
    BY <2>1, <2>3 DEF ReopenedRow, RowConsistent, TypeOK, Row
  <2>4. CASE /\ conv.status = "PENDING"
             /\ conv' = [conv EXCEPT !.status = "ACTIVE", !.accepted = TRUE]
    BY <2>4 DEF RowConsistent, TypeOK, Row
  <2>5. CASE /\ conv.status = "PENDING"
             /\ conv' = [conv EXCEPT !.status = "REJECTED", !.rejectedBy = u]
    BY <2>1, <2>5 DEF RowConsistent, TypeOK, Row
  <2> QED
    BY <1>1, <1>2, <2>2, <2>3, <2>4, <2>5, RowAfterWrite
<1>3. CASE ThirtyDaysPass
  BY <1>3 DEF ThirtyDaysPass, RowConsistent, TypeOK, Row
<1>4. CASE ArchiveStalePending
  BY <1>4 DEF ArchiveStalePending, Stale, RowConsistent, TypeOK, Row
<1> QED
  BY <1>1, <1>2, <1>3, <1>4, RowWriters

\* However many requests race, the marks of the row agree with its status.
THEOREM MarksConsistent == Spec => []RowConsistent
<1>1. Init => RowConsistent
  BY DEF Init, NoRow, RowConsistent
<1> QED
  BY <1>1, TypeCorrect, NextConsistent, PTL DEF Spec

\* A step out of PENDING is the only way to a decision.
LEMMA StepDecidesOnce ==
    ASSUME TypeOK, [Next]_vars,
           conv'.status \in {"ACTIVE", "REJECTED", "ARCHIVED"}, conv'.status # conv.status
    PROVE  conv.status = "PENDING"
<1>1. ASSUME NEW h \in Handlers, Writes(h) PROVE conv.status = "PENDING"
  BY <1>1, RowAfterWrite DEF NoRow, ReopenedRow, TypeOK, Row
<1>2. CASE ThirtyDaysPass
  BY <1>2 DEF ThirtyDaysPass, TypeOK, Row
<1>3. CASE ArchiveStalePending
  BY <1>3 DEF ArchiveStalePending, Stale
<1> QED
  BY <1>1, <1>2, <1>3, RowWriters

\* However many requests race, each request is decided at most once.
THEOREM DecidedAtMostOnce == Spec => DecidedOnce
BY TypeCorrect, StepDecidesOnce, PTL DEF Spec, DecidedOnce

-----------------------------------------------------------------------------
(* Clients that wait for an answer before they send their next request.     *)

\* Nothing is disturbed before the first request.
LEMMA InitUndisturbed == Init => Undisturbed
BY DEF Init, Idle, Undisturbed, OneInFlight, Deciding

\* A step of one handler leaves the other handlers where they are.
LEMMA OthersStay ==
    ASSUME TypeOK, NEW h \in Handlers, Handle(h) \/ Fail(h)
    PROVE  /\ req[h].pc # "idle"
           /\ req' \in [Handlers -> [user : Users \cup {Nobody}, pc : Steps, then : AfterCheck]]
           /\ \A g \in Handlers \ {h} : req'[g] = req[g]
           /\ req'[h] = Idle \/ req'[h].user = req[h].user
<1>1. TypeOK'
  BY NextType DEF Next
<1> QED
  BY <1>1
     DEF TypeOK, Handle, Fail, Finish, Goto, CheckThen, CheckBlockedByTarget,
         CheckViewerBlocked, FindForCreate, FindForAccept, FindForReject,
         FindForDecision, FindForSend, FindBlock, InsertConversation,
         ReopenConversation, CommitAccept, CommitReject, CommitPost, InsertBlock,
         SweepPending, FileReport

\* A user never has two requests in flight.
LEMMA NextOneInFlight ==
    ASSUME Clients # "free", TypeOK, OneInFlight, [Next]_vars
    PROVE  OneInFlight'
<1>1. ASSUME NEW h \in Handlers, NEW u \in Users, Begin(h, u) PROVE OneInFlight'
  BY <1>1, ClientsAssumption DEF Begin, MayStart, OneInFlight, TypeOK
<1>2. ASSUME NEW h \in Handlers, Handle(h) \/ Fail(h) PROVE OneInFlight'
  BY <1>2, OthersStay DEF OneInFlight, Idle
<1>3. ASSUME NEW u \in Users, Unblock(u) PROVE OneInFlight'
  BY <1>3 DEF Unblock, OneInFlight
<1>4. CASE ThirtyDaysPass
  BY <1>4 DEF ThirtyDaysPass, OneInFlight, Idle
<1>5. CASE ArchiveStalePending
  BY <1>5 DEF ArchiveStalePending, OneInFlight
<1>6. CASE UNCHANGED vars
  BY <1>6 DEF vars, OneInFlight
<1> QED
  BY <1>1, <1>2, <1>3, <1>4, <1>5, <1>6 DEF Next

\* What handler h relies on about the row.
Relies(h) ==
    /\ Deciding(h) => conv.initiator = Other(req[h].user)
    /\ req[h].pc = "reopen" =>
          /\ conv.status \in {"PENDING", "REJECTED", "ARCHIVED"}
          /\ conv.status # "ARCHIVED" => conv.initiator = Other(req[h].user)

\* A row that u did not initiate was initiated by the other participant.
LEMMA TheOtherInitiated ==
    ASSUME TypeOK, RowConsistent, conv.status # "NONE", NEW u \in Users,
           conv.initiator # u
    PROVE  conv.initiator = Other(u)
BY DEF TypeOK, RowConsistent, Row, Users, Other

\* A handler relies only on what it has just read or relied on already.
LEMMA OwnStepRelies ==
    ASSUME TypeOK, RowConsistent, NEW h \in Handlers, Relies(h), Handle(h)
    PROVE  Relies(h)'
<1> USE DEF TypeOK, Relies, Deciding
<1> DEFINE u == req[h].user
<1>1. CASE req'[h] = Idle
  BY <1>1 DEF Idle
<1>2. CASE FindForAccept(h) \/ FindForReject(h)
  BY <1>1, <1>2, TheOtherInitiated
     DEF FindForAccept, FindForReject, FindForDecision, CheckThen, Finish
<1>3. CASE FindForSend(h)
  BY <1>1, <1>3, TheOtherInitiated DEF FindForSend, CheckThen, Finish
<1>4. CASE FindForCreate(h)
  <2>1. CASE conv.status = "NONE"
    BY <1>4, <2>1 DEF FindForCreate, Reopenable, Goto
  <2>2. CASE conv.status # "NONE" /\ Reopenable(u)
    <3>1. /\ conv' = conv /\ u \in Users
          /\ req'[h].pc = "reopen" /\ req'[h].user = u
      BY <1>4, <2>2 DEF FindForCreate, Goto
    <3>2. /\ conv.status \in {"REJECTED", "ARCHIVED"}
          /\ conv.status # "ARCHIVED" => conv.initiator = Other(u)
      BY <2>2, <3>1, TheOtherInitiated DEF Reopenable
    <3> QED
      BY <3>1, <3>2
  <2>3. CASE conv.status # "NONE" /\ ~Reopenable(u)
    BY <1>1, <1>4, <2>3 DEF FindForCreate, Finish
  <2> QED
    BY <2>1, <2>2, <2>3
<1>5. CASE CheckBlockedByTarget(h)
  BY <1>1, <1>5 DEF CheckBlockedByTarget, Goto, Finish
<1>6. CASE CheckViewerBlocked(h)
  BY <1>1, <1>6 DEF CheckViewerBlocked, AfterCheck, Goto, Finish
<1>7. CASE FindBlock(h) \/ InsertBlock(h)
  BY <1>1, <1>7 DEF FindBlock, InsertBlock, Goto, Finish
<1>8. CASE Writes(h) \/ CommitPost(h)
  <2>1. req' = [req EXCEPT ![h] = Idle]
    BY <1>8 DEF Writes, InsertConversation, ReopenConversation, CommitAccept,
                CommitReject, CommitPost, SweepPending, FileReport, Finish
  <2> QED
    BY <1>1, <2>1
<1> QED
  BY <1>2, <1>3, <1>4, <1>5, <1>6, <1>7, <1>8 DEF Handle, Writes

\* The other participant's handler does not undermine it: that one decides only
\* on this user's request, which there is none of while h relies on the row.
LEMMA OtherStepRelies ==
    ASSUME TypeOK, RowConsistent, Undisturbed,
           NEW h \in Handlers, Handle(h),
           NEW g \in Handlers \ {h}, req[g].pc # "idle"
    PROVE  Relies(g)'
<1> USE DEF Relies, Deciding
<1> DEFINE u == req[h].user
           w == req[g].user
<1>1. req'[g] = req[g]
  BY OthersStay
<1>2. u \in Users /\ w \in Users /\ u = Other(w) /\ w = Other(u) /\ u # w
  BY OthersStay DEF TypeOK, Undisturbed, OneInFlight, Users, Other
<1>3. Relies(g)
  BY DEF Undisturbed
<1>4. CASE conv' = conv
  BY <1>1, <1>3, <1>4
<1>5. CASE Writes(h)
  <2>1. CASE conv.status = "NONE" /\ conv' = [NoRow EXCEPT !.status = "PENDING", !.initiator = u]
    BY <1>1, <1>2, <2>1, <1>3 DEF NoRow
  <2>2. CASE conv' = ReopenedRow(u)
    BY <1>1, <1>2, <2>2 DEF ReopenedRow, TypeOK, Row
  <2>3. CASE /\ req[h].pc \in {"accept", "reply"} /\ conv.status = "PENDING"
             /\ conv' = [conv EXCEPT !.status = "ACTIVE", !.accepted = TRUE]
    <3>1. conv.initiator = w
      BY <1>2, <2>3 DEF Undisturbed
    <3> QED
      BY <1>1, <1>2, <1>3, <2>3, <3>1 DEF TypeOK, Row
  <2>4. CASE /\ \/ req[h].pc = "reject"
                \/ req[h].pc \in {"sweep", "report"} /\ conv.initiator = Other(u)
             /\ conv.status = "PENDING"
             /\ conv' = [conv EXCEPT !.status = "REJECTED", !.rejectedBy = u]
    <3>1. conv.initiator = w
      BY <1>2, <2>4 DEF Undisturbed
    <3> QED
      BY <1>1, <1>2, <1>3, <2>4, <3>1 DEF TypeOK, Row
  <2> QED
    BY <1>4, <1>5, <2>1, <2>2, <2>3, <2>4, RowAfterWrite
<1> QED
  BY <1>4, <1>5
     DEF Handle, Writes, CheckBlockedByTarget, CheckViewerBlocked, FindForCreate,
         FindForAccept, FindForReject, FindForDecision, FindForSend, FindBlock,
         InsertBlock, CommitPost

\* Undisturbed is preserved when clients wait for their answers.
LEMMA NextUndisturbed ==
    ASSUME Clients # "free", TypeOK, RowConsistent, Undisturbed, [Next]_vars
    PROVE  Undisturbed'
<1> USE DEF Relies, Deciding
<1>1. OneInFlight'
  BY NextOneInFlight DEF Undisturbed
<1>2. \A g \in Handlers : Relies(g)'
  <2> SUFFICES ASSUME NEW g \in Handlers PROVE Relies(g)'
    OBVIOUS
  <2>0. Relies(g)
    BY DEF Undisturbed
  <2>1. ASSUME NEW h \in Handlers, NEW u \in Users, Begin(h, u) PROVE Relies(g)'
    <3>1. /\ conv' = conv
          /\ g # h => req'[g] = req[g]
          /\ ~Deciding(h)' /\ req'[h].pc # "reopen"
      BY <2>1 DEF Begin, TypeOK
    <3> QED
      BY <2>0, <3>1
  <2>2. ASSUME NEW h \in Handlers, Handle(h) PROVE Relies(g)'
    <3>1. CASE g = h
      BY <2>0, <2>2, <3>1, OwnStepRelies
    <3>2. CASE g # h /\ req[g].pc = "idle"
      BY <2>2, <3>2, OthersStay
    <3>3. CASE g # h /\ req[g].pc # "idle"
      BY <2>2, <3>3, OtherStepRelies
    <3> QED
      BY <3>1, <3>2, <3>3
  <2>3. ASSUME NEW h \in Handlers, Fail(h) PROVE Relies(g)'
    BY <2>0, <2>3 DEF Fail, Finish, Idle, TypeOK
  <2>4. ASSUME NEW u \in Users, Unblock(u) PROVE Relies(g)'
    BY <2>0, <2>4 DEF Unblock
  <2>5. CASE ThirtyDaysPass
    BY <2>5 DEF ThirtyDaysPass, Idle
  <2>6. CASE ArchiveStalePending
    BY <2>0, <2>6 DEF ArchiveStalePending, TypeOK, Row
  <2>7. CASE UNCHANGED vars
    BY <2>0, <2>7 DEF vars
  <2> QED
    BY <2>1, <2>2, <2>3, <2>4, <2>5, <2>6, <2>7 DEF Next
<1> QED
  BY <1>1, <1>2 DEF Undisturbed

\* While clients wait for their answers no request is withdrawn under its handler.
THEOREM NothingDisturbed == ASSUME Clients # "free" PROVE Spec => []Undisturbed
BY InitUndisturbed, NextUndisturbed, TypeCorrect, MarksConsistent, PTL DEF Spec

-----------------------------------------------------------------------------
(* What follows for the users.                                             *)

\* Only the recipient's handler takes a request out of PENDING.
THEOREM RecipientAlwaysDecides ==
    ASSUME Clients # "free" PROVE Spec => RecipientDecides
<1>1. TypeOK /\ Undisturbed =>
        \A h \in Handlers : (CommitAccept(h) \/ CommitReject(h)) /\ conv' # conv
                              => conv.initiator # req[h].user
  BY OtherSwaps DEF CommitAccept, CommitReject, Undisturbed, Deciding, TypeOK
<1> QED
  BY <1>1, TypeCorrect, NothingDisturbed, PTL DEF Spec, RecipientDecides

\* Every step of the row is a step of the promised life cycle.
LEMMA StepKeepsPromise ==
    ASSUME TypeOK, RowConsistent, Undisturbed, [Next]_vars
    PROVE  [Promise!Advance]_Promise!lifecycle
<1> USE DEF Promise!Advance, Promise!lifecycle, Promise!Peer
<1>1. CASE conv' = conv
  BY <1>1
<1>2. ASSUME NEW h \in Handlers, Writes(h) PROVE [Promise!Advance]_Promise!lifecycle
  <2> DEFINE u == req[h].user
  <2>1. u \in {Alice, Bob} /\ Other(u) = Promise!Peer(u) /\ Promise!Peer(Other(u)) = u
    BY <1>2, RowAfterWrite, OtherSwaps DEF Users, Other
  <2>2. CASE conv.status = "NONE" /\ conv' = [NoRow EXCEPT !.status = "PENDING", !.initiator = u]
    BY <2>1, <2>2 DEF NoRow, Promise!Request
  <2>3. CASE req[h].pc = "reopen" /\ conv' = ReopenedRow(u)
    <3>1. /\ conv.status \in {"PENDING", "REJECTED", "ARCHIVED"}
          /\ conv.status # "ARCHIVED" => conv.initiator = Other(u)
      BY <2>3 DEF Undisturbed
    <3>2. Promise!Request(u)
      BY <2>1, <2>3, <3>1 DEF Promise!Request, ReopenedRow, TypeOK, Row
    <3> QED
      BY <2>1, <3>2
  <2>4. CASE /\ conv.status = "PENDING"
             /\ conv' = [conv EXCEPT !.status = "ACTIVE", !.accepted = TRUE]
    BY <2>4 DEF Promise!Accept, TypeOK, Row
  <2>5. CASE /\ \/ req[h].pc = "reject"
                \/ req[h].pc \in {"sweep", "report"} /\ conv.initiator = Other(u)
             /\ conv.status = "PENDING"
             /\ conv' = [conv EXCEPT !.status = "REJECTED", !.rejectedBy = u]
    <3>1. conv.initiator = Other(u)
      BY <2>5 DEF Undisturbed, Deciding
    <3> QED
      BY <2>1, <2>5, <3>1 DEF Promise!Decline, TypeOK, Row
  <2> QED
    BY <1>1, <1>2, <2>2, <2>3, <2>4, <2>5, RowAfterWrite
<1>3. CASE ThirtyDaysPass
  BY <1>3 DEF ThirtyDaysPass, TypeOK, Row
<1>4. CASE ArchiveStalePending
  BY <1>4 DEF ArchiveStalePending, Stale, Promise!Expire, TypeOK, Row
<1> QED
  BY <1>1, <1>2, <1>3, <1>4, RowWriters

\* The row implements RequestLifecycle when clients wait for their answers.
THEOREM PromiseKept == ASSUME Clients # "free" PROVE Spec => KeepsPromise
<1>1. Init => Promise!Start
  BY DEF Init, NoRow, Promise!Start
<1> QED
  BY <1>1, StepKeepsPromise, TypeCorrect, MarksConsistent, NothingDisturbed, PTL
     DEF Spec, KeepsPromise, Promise!LifecycleSpec

\* A rejected initiator cannot request again.
THEOREM RejectionLocks == ASSUME Clients # "free" PROVE Spec => RejectLock
<1>1. ASSUME TypeOK, RowConsistent, Undisturbed, [Next]_vars,
             conv.status = "REJECTED", conv'.status # "REJECTED"
      PROVE  conv'.status = "PENDING" /\ conv'.initiator # conv.initiator
  <2>1. [Promise!Advance]_Promise!lifecycle
    BY <1>1, StepKeepsPromise
  <2>2. PICK u \in {Alice, Bob} : Promise!Request(u)
    BY <1>1, <2>1 DEF Promise!Advance, Promise!lifecycle, Promise!Accept, Promise!Decline,
                      Promise!Expire
  <2> QED
    BY <1>1, <2>2, UsersAssumption DEF Promise!Request, Promise!Peer
<1> QED
  BY <1>1, TypeCorrect, MarksConsistent, NothingDisturbed, PTL DEF Spec, RejectLock

-----------------------------------------------------------------------------
(* One intro of each user.                                                 *)

\* A handler that found the thread ACTIVE and is about to add a message.
Posting(h) ==
    \/ req[h].pc = "post"
    \/ req[h].pc \in {"byTarget", "byViewer"} /\ req[h].then = "post"

PostsAreActive == \A h \in Handlers : Posting(h) => conv.status = "ACTIVE"

\* Who is about to reopen a row that was opened meanwhile has written nothing there.
NoneYet ==
    \A h \in Handlers :
        req[h].pc = "reopen" /\ conv.status = "PENDING" => early[req[h].user] = 0

\* The steps that open a request.
Opens(h) ==
    \/ InsertConversation(h) /\ conv.status = "NONE"
    \/ ReopenConversation(h)

\* A row is pending because it was or because a handler opened it; nothing else counts
\* a message, since a thread that is written to is ACTIVE.
LEMMA PendingStep ==
    ASSUME TypeOK, PostsAreActive, [Next]_vars, conv'.status = "PENDING"
    PROVE  \/ \E h \in Handlers : Opens(h)
           \/ conv.status = "PENDING" /\ conv'.initiator = conv.initiator /\ early' = early
<1> USE DEF TypeOK, Row
<1>1. ASSUME NEW h \in Handlers, Writes(h), ~Opens(h)
      PROVE  conv.status = "PENDING" /\ conv'.initiator = conv.initiator /\ early' = early
  <2>1. early' = early
    BY <1>1 DEF Writes, Opens, InsertConversation, CommitAccept, CommitReject, SweepPending,
                FileReport
  <2>2. conv.status = "PENDING" /\ conv'.initiator = conv.initiator
    BY <1>1 DEF Writes, Opens, InsertConversation, CommitAccept, AcceptedRow, CommitReject,
                RejectedRow, SweepPending, FileReport, SweptRow
  <2> QED
    BY <2>1, <2>2
<1>2. ASSUME NEW h \in Handlers, CommitPost(h) PROVE early' = early /\ conv' = conv
  BY <1>2 DEF CommitPost, PostsAreActive, Posting
<1>3. CASE ThirtyDaysPass
  BY <1>3 DEF ThirtyDaysPass
<1>4. CASE ArchiveStalePending
  BY <1>4 DEF ArchiveStalePending
<1>5. ASSUME ~ThirtyDaysPass, ~ArchiveStalePending,
             \A h \in Handlers : ~Writes(h) /\ ~CommitPost(h)
      PROVE  early' = early /\ conv' = conv
  BY <1>5 DEF Next, Handle, Writes, vars, Begin, Fail, Unblock, CheckBlockedByTarget,
       CheckViewerBlocked, FindForCreate, FindForAccept, FindForReject, FindForDecision,
       FindForSend, FindBlock, InsertBlock
<1> QED
  BY <1>1, <1>2, <1>3, <1>4, <1>5

\* Nobody reopens an ACTIVE row, and nothing else ends it.
LEMMA ActiveStays ==
    ASSUME TypeOK, Undisturbed, [Next]_vars, conv.status = "ACTIVE"
    PROVE  conv'.status = "ACTIVE"
<1>1. ASSUME NEW h \in Handlers, Writes(h) PROVE conv'.status = "ACTIVE"
  BY <1>1, RowAfterWrite DEF Undisturbed
<1>2. CASE ThirtyDaysPass
  BY <1>2 DEF ThirtyDaysPass, TypeOK, Row
<1>3. CASE ArchiveStalePending
  BY <1>3 DEF ArchiveStalePending, Stale
<1> QED
  BY <1>1, <1>2, <1>3, RowWriters

\* A handler posts because it did or because it found the row ACTIVE; it reopens
\* because it was about to or because it found the row closed.
LEMMA HowItCameThere ==
    ASSUME TypeOK, [Next]_vars, NEW g \in Handlers
    PROVE  /\ Posting(g)' => Posting(g) \/ conv.status = "ACTIVE"
           /\ req'[g].pc = "reopen" =>
                /\ req'[g].user = req[g].user
                /\ req[g].pc = "reopen" \/ (conv' = conv /\ conv.status # "PENDING")
<1> DEFINE Goal == /\ Posting(g)' => Posting(g) \/ conv.status = "ACTIVE"
                   /\ req'[g].pc = "reopen" =>
                        /\ req'[g].user = req[g].user
                        /\ req[g].pc = "reopen" \/ (conv' = conv /\ conv.status # "PENDING")
<1> USE DEF TypeOK, Posting
<1>1. CASE req'[g] = req[g]
  BY <1>1
<1>2. CASE req'[g].pc = "idle"
  BY <1>2
<1>3. ASSUME Handle(g), req'[g].pc # "idle" PROVE Goal
  <2>1. CASE FindForCreate(g)
    BY <1>3, <2>1 DEF FindForCreate, Reopenable, Goto, Finish, Idle
  <2>2. CASE FindForSend(g)
    BY <1>3, <2>2 DEF FindForSend, CheckThen, Finish, Idle
  <2>3. CASE FindForAccept(g) \/ FindForReject(g)
    BY <1>3, <2>3 DEF FindForAccept, FindForReject, FindForDecision, CheckThen, Finish, Idle
  <2>4. CASE CheckBlockedByTarget(g)
    BY <1>3, <2>4 DEF CheckBlockedByTarget, Goto, Finish, Idle
  <2>5. CASE CheckViewerBlocked(g)
    BY <1>3, <2>5 DEF CheckViewerBlocked, Goto, Finish, Idle, AfterCheck
  <2>6. CASE FindBlock(g) \/ InsertBlock(g)
    BY <1>3, <2>6 DEF FindBlock, InsertBlock, Goto, Finish, Idle
  <2>7. CASE Writes(g) \/ CommitPost(g)
    BY <1>3, <2>7 DEF Writes, InsertConversation, ReopenConversation, CommitAccept,
                CommitReject, CommitPost, SweepPending, FileReport, Finish, Idle
  <2> QED
    BY <1>3, <2>1, <2>2, <2>3, <2>4, <2>5, <2>6, <2>7 DEF Handle, Writes
<1>4. ASSUME NEW u \in Users, Begin(g, u) PROVE Goal
  BY <1>4 DEF Begin
<1>5. ASSUME NEW h \in Handlers, NEW u \in Users, h # g, Begin(h, u) PROVE req'[g] = req[g]
  BY <1>5 DEF Begin
<1>6. ASSUME NEW h \in Handlers, h # g, Handle(h) \/ Fail(h) PROVE req'[g] = req[g]
  BY <1>6, OthersStay
<1>7. ASSUME Fail(g) PROVE req'[g].pc = "idle"
  BY <1>7 DEF Fail, Finish, Idle
<1>8. CASE ThirtyDaysPass
  BY <1>2, <1>8 DEF ThirtyDaysPass, Idle
<1>9. ASSUME ArchiveStalePending \/ (\E u \in Users : Unblock(u)) \/ UNCHANGED vars
      PROVE  req'[g] = req[g]
  BY <1>9 DEF ArchiveStalePending, Unblock, vars
<1> QED
  BY <1>1, <1>2, <1>3, <1>4, <1>5, <1>6, <1>7, <1>8, <1>9 DEF Next

\* What a handler that opens a request makes of the counts.
LEMMA OpeningCounts ==
    ASSUME TypeOK, Undisturbed, OneIntroEach, NoneYet, NEW h \in Handlers, Opens(h)
    PROVE  LET u == req[h].user IN
           /\ req[h].pc \in {"insert", "reopen"} /\ req'[h].pc = "idle"
           /\ u \in Users
           /\ conv'.initiator = u
           /\ early'[u] = 1 /\ early'[Other(u)] <= 1
           /\ conv.status # "PENDING" => early'[Other(u)] = 0
           /\ conv.status = "PENDING" => conv.initiator = Other(u)
           /\ conv.status = "NONE" => req[h].pc = "insert"
           /\ req[h].pc = "insert" => conv.status = "NONE"
<1> DEFINE u == req[h].user
<1>1. /\ req[h].pc \in {"insert", "reopen"} /\ req'[h].pc = "idle"
      /\ u \in Users /\ Other(u) \in Users /\ Other(u) # u
  BY OtherSwaps DEF Opens, InsertConversation, ReopenConversation, Finish, Idle, TypeOK
<1>2. conv'.initiator = u
  BY DEF Opens, InsertConversation, ReopenConversation, ReopenedRow, NoRow, TypeOK, Row
<1>3. Intro(u)[u] = 1 /\ Intro(u)[Other(u)] = 0
  BY <1>1 DEF Intro
<1>4. CASE InsertConversation(h) /\ conv.status = "NONE"
  BY <1>1, <1>2, <1>3, <1>4 DEF InsertConversation
<1>5. CASE ReopenConversation(h) /\ conv.status # "PENDING"
  <2>1. conv.status # "NONE" /\ req[h].pc = "reopen"
    BY <1>5 DEF ReopenConversation, Undisturbed
  <2> QED
    BY <1>1, <1>2, <1>3, <1>5, <2>1 DEF ReopenConversation
<1>6. CASE ReopenConversation(h) /\ conv.status = "PENDING"
  <2>1. req[h].pc = "reopen" /\ early' = Early(u)
    BY <1>6 DEF ReopenConversation
  <2>2. conv.initiator = Other(u) /\ early[u] = 0 /\ early[Other(u)] = 1
    BY <1>6, <2>1 DEF Undisturbed, NoneYet, OneIntroEach
  <2>3. early'[u] = 1 /\ early'[Other(u)] = 1
    BY <1>1, <2>1, <2>2, MaxEarlyAssumption DEF Early, TypeOK
  <2> QED
    BY <1>1, <1>2, <1>6, <2>1, <2>2, <2>3
<1> QED
  BY <1>4, <1>5, <1>6 DEF Opens

\* Every step keeps the three.
LEMMA NextIntros ==
    ASSUME TypeOK, Undisturbed, PostsAreActive, NoneYet, OneIntroEach, [Next]_vars
    PROVE  PostsAreActive' /\ NoneYet' /\ OneIntroEach'
<1>1. PostsAreActive'
  BY HowItCameThere, ActiveStays DEF PostsAreActive
<1>2. ASSUME conv'.status = "PENDING", NEW h \in Handlers, Opens(h)
      PROVE  NoneYet' /\ OneIntroEach'
  <2> DEFINE u == req[h].user
  <2>1. OneIntroEach'
    BY <1>2, OpeningCounts DEF OneIntroEach
  <2>2. ASSUME NEW g \in Handlers, req'[g].pc = "reopen" PROVE early'[req'[g].user] = 0
    <3>1. h # g /\ u \in Users
      BY <1>2, <2>2, OpeningCounts
    <3>2. req[g].pc = "reopen" /\ req'[g].user = req[g].user
      <4>1. req'[g] = req[g]
        BY <1>2, <3>1 DEF Opens, InsertConversation, ReopenConversation, Finish, TypeOK
      <4> QED
        BY <2>2, <4>1
    <3>3. req[g].user \in Users /\ req[g].user # u
      BY <1>2, <3>1, <3>2, OpeningCounts DEF TypeOK, Undisturbed, OneInFlight
    <3>4. req[g].user = Other(u) /\ Other(req[g].user) = u /\ Other(u) # u
      BY <3>1, <3>3 DEF Users, Other
    <3>5. CASE conv.status = "PENDING"
      BY <1>2, <3>2, <3>4, <3>5, OpeningCounts DEF Undisturbed
    <3>6. CASE conv.status # "PENDING"
      BY <1>2, <3>2, <3>4, <3>6, OpeningCounts
    <3> QED
      BY <3>5, <3>6
  <2> QED
    BY <2>1, <2>2 DEF NoneYet
<1>3. ASSUME conv.status = "PENDING", conv'.initiator = conv.initiator, early' = early
      PROVE  NoneYet' /\ OneIntroEach'
  BY <1>3, HowItCameThere DEF NoneYet, OneIntroEach
<1>4. ASSUME conv'.status # "PENDING" PROVE NoneYet' /\ OneIntroEach'
  BY <1>4 DEF NoneYet, OneIntroEach
<1> QED
  BY <1>1, <1>2, <1>3, <1>4, PendingStep

\* While clients wait for their answers, a pending request shows one intro of its
\* initiator and at most one of the other user (messaging.service.ts:655).
THEOREM OneIntroOnly == ASSUME Clients # "free" PROVE Spec => []OneIntroEach
<1>1. Init => PostsAreActive /\ NoneYet /\ OneIntroEach
  BY DEF Init, PostsAreActive, Posting, NoneYet, OneIntroEach, NoRow, Idle
<1> QED
  BY <1>1, NextIntros, TypeCorrect, NothingDisturbed, PTL DEF Spec

-----------------------------------------------------------------------------
(* AdminLogin.                                                             *)

LEMMA LoginConstants ==
    LoginMax \in Nat /\ Most \in Nat /\ LoginMax < Most /\ Ttl \in Nat \ {0}
  BY PartsAssumption DEF Login!LoginAssumption

\* The one request that is to set the TTL has created the key, which lives on.
OneExpirer ==
    \A h \in Logins :
        pc[h] = "expire" =>
            /\ count > 0 /\ left = Login!Never
            /\ \A g \in Logins : pc[g] = "expire" => g = h

LoginInv == Login!TypeOK /\ OneExpirer /\ Login!LockedForEverExplained

LEMMA LoginInit == Login!Init => LoginInv
<1> SUFFICES ASSUME Login!Init PROVE LoginInv
  OBVIOUS
<1>1. /\ count = 0 /\ left = Ttl + 1 /\ ~orphaned /\ orphaned \in BOOLEAN
      /\ pc \in [Logins -> {"idle", "expire", "refuse", "compare"}]
      /\ \A h \in Logins : pc[h] = "idle"
  BY DEF Login!Init, Login!Never
<1>2. count \in 0 .. Most /\ left \in 1 .. Ttl + 1
  BY <1>1, LoginConstants
<1> QED
  BY <1>1, <1>2 DEF LoginInv, Login!TypeOK, Login!Never, OneExpirer, Login!LockedForEverExplained

LEMMA LoginAttempt ==
    ASSUME LoginInv, NEW h \in Logins, Login!Attempt(h)
    PROVE  LoginInv'
<1> USE DEF LoginInv
<1>1. /\ pc[h] = "idle" /\ count' = Login!More(count)
      /\ pc'[h] = IF count = 0 THEN "expire" ELSE Login!Decided(count + 1)
      /\ \A g \in Logins \ {h} : pc'[g] = pc[g]
      /\ pc' = [pc EXCEPT ![h] = IF count = 0 THEN "expire" ELSE Login!Decided(count + 1)]
      /\ UNCHANGED <<left, orphaned>>
  BY DEF Login!Attempt, Login!Goto, Login!TypeOK
<1>2. count' \in 0 .. Most /\ count' > 0 /\ count \in 0 .. Most
  BY <1>1, LoginConstants DEF Login!TypeOK, Login!More
<1>3. Login!Decided(count + 1) \in {"refuse", "compare"}
  BY DEF Login!Decided
<1>4. Login!TypeOK'
  BY <1>1, <1>2, <1>3 DEF Login!TypeOK, Login!Never
<1>5. OneExpirer'
  BY <1>1, <1>2, <1>3, LoginConstants DEF OneExpirer, Login!Never, Login!TypeOK
<1>6. Login!LockedForEverExplained'
  <2>1. CASE count = 0
    BY <1>1, <2>1 DEF Login!LockedForEverExplained
  <2>2. CASE count > 0
    BY <1>1, <2>2 DEF Login!LockedForEverExplained, Login!Never
  <2> QED
    BY <1>2, <2>1, <2>2
<1> QED
  BY <1>4, <1>5, <1>6

LEMMA LoginGoes ==
    ASSUME LoginInv, NEW h \in Logins,
           Login!SetTtl(h) \/ Login!Refuse(h) \/ Login!Compare(h) \/ Login!Die(h)
    PROVE  LoginInv'
<1> USE DEF LoginInv
<1>1. /\ count' = count /\ pc'[h] \in {"idle", "refuse", "compare"}
      /\ pc' \in [Logins -> {"idle", "expire", "refuse", "compare"}]
      /\ \A g \in Logins \ {h} : pc'[g] = pc[g]
  <2>1. CASE Login!SetTtl(h)
    BY <2>1 DEF Login!SetTtl, Login!Goto, Login!Decided, Login!TypeOK
  <2>2. CASE Login!Refuse(h) \/ Login!Compare(h) \/ Login!Die(h)
    BY <2>2 DEF Login!Refuse, Login!Compare, Login!Die, Login!Goto, Login!TypeOK
  <2> QED
    BY <2>1, <2>2
<1>2. \/ pc[h] = "expire" /\ left' = Ttl /\ orphaned' = orphaned
      \/ pc[h] = "expire" /\ left' = left /\ orphaned' = TRUE
      \/ pc[h] # "expire" /\ left' = left /\ orphaned' = orphaned
  BY DEF Login!SetTtl, Login!Refuse, Login!Compare, Login!Die, Login!TypeOK
<1>3. Login!TypeOK'
  <2>1. count \in 0 .. Most /\ left \in 1 .. Ttl + 1
    BY DEF Login!TypeOK, Login!Never
  <2>2. left' \in 1 .. Ttl + 1
    BY <1>2, <2>1, LoginConstants
  <2>3. orphaned' \in BOOLEAN
    BY <1>2 DEF Login!TypeOK
  <2>4. count = 0 => pc[h] # "expire"
    BY <2>1 DEF OneExpirer
  <2>5. count' = 0 => left' = left /\ orphaned' = orphaned
    BY <1>1, <1>2, <2>4
  <2>6. count' = 0 => left' = Login!Never /\ ~orphaned'
    BY <1>1, <2>5 DEF Login!TypeOK, Login!Never
  <2> QED
    BY <1>1, <2>1, <2>2, <2>3, <2>6 DEF Login!TypeOK, Login!Never
<1>4. OneExpirer'
  BY <1>1, <1>2 DEF OneExpirer, Login!Never
<1>5. Login!LockedForEverExplained'
  BY <1>1, <1>2, LoginConstants DEF Login!LockedForEverExplained, Login!Never
<1> QED
  BY <1>3, <1>4, <1>5

LEMMA LoginStep == LoginInv /\ [Login!Next]_login => LoginInv'
<1> SUFFICES ASSUME LoginInv, [Login!Next]_login PROVE LoginInv'
  OBVIOUS
<1>1. CASE Login!Tick
  <2> USE DEF LoginInv
  <2>1. left \in 1 .. Ttl + 1 /\ left # Ttl + 1 /\ UNCHANGED pc
    BY <1>1 DEF Login!Tick, Login!TypeOK, Login!Never
  <2>2. \A h \in Logins : pc[h] # "expire"
    BY <2>1 DEF OneExpirer, Login!Never
  <2>3. \/ left = 1 /\ left' = Ttl + 1 /\ count' = 0 /\ orphaned' = FALSE
        \/ left # 1 /\ left' = left - 1 /\ UNCHANGED <<count, orphaned>>
    BY <1>1 DEF Login!Tick, Login!Never
  <2>4. Login!TypeOK'
    <3>1. left' \in 1 .. Ttl + 1 /\ count' \in 0 .. Most
      BY <2>1, <2>3, LoginConstants DEF Login!TypeOK
    <3>2. orphaned' \in BOOLEAN /\ (count' = 0 => ~orphaned')
      <4>1. CASE left = 1
        BY <2>3, <4>1
      <4>2. CASE left # 1
        <5>1. orphaned \in BOOLEAN /\ (count = 0 => ~orphaned)
          BY DEF Login!TypeOK
        <5>2. orphaned' = orphaned /\ count' = count
          BY <2>3, <4>2
        <5> QED
          BY <5>1, <5>2
      <4> QED
        BY <4>1, <4>2
    <3>3. count = 0 => left = Ttl + 1
      BY DEF Login!TypeOK, Login!Never
    <3>4. count' = 0 => left' = Ttl + 1
      BY <2>1, <2>3, <3>3
    <3> QED
      BY <2>1, <3>1, <3>2, <3>4 DEF Login!TypeOK, Login!Never
  <2>5. OneExpirer' /\ Login!LockedForEverExplained'
    BY <2>1, <2>2, <2>3, LoginConstants DEF OneExpirer, Login!LockedForEverExplained, Login!Never
  <2> QED
    BY <2>4, <2>5
<1>2. CASE UNCHANGED login
  BY <1>2 DEF login, LoginInv, Login!TypeOK, OneExpirer, Login!LockedForEverExplained, Login!Never
<1> QED
  BY <1>1, <1>2, LoginAttempt, LoginGoes DEF Login!Next

\* An address is locked out for ever only by the death of the request that created the
\* key, for any limit, TTL and logins (login of admin.service.ts).
THEOREM LockoutsExplained == Login!Spec => []LockedForEverExplained
<1>1. LoginInv => LockedForEverExplained
  BY DEF LoginInv, LockedForEverExplained
<1> QED
  BY <1>1, LoginInit, LoginStep, PTL DEF Login!Spec, Login!vars, login

-----------------------------------------------------------------------------
(* Inbox.                                                                  *)

LEMMA BoxConstants ==
    IsFiniteSet(Handlers) /\ MaxMessages \in Nat \ {0} /\ MaxFailures \in Nat
<1>1. IsFiniteSet(Handlers) <=> Box!IsFiniteSet(Handlers)
  BY DEF IsFiniteSet, Box!IsFiniteSet
<1> QED
  BY <1>1, PartsAssumption DEF Box!InboxAssumption

\* The instance counts as the library does.
LEMMA BoxCardinality == \A S : Box!Cardinality(S) = Cardinality(S)
BY DEF Box!Cardinality, Cardinality, Box!IsFiniteSet, IsFiniteSet

\* Messages between their commit and the answer to their sender, and requests that
\* changed the thread and are still to delete the count.
Telling == {"dropViewers", "dropSenders", "publish"}
Deleting == {"dropViewers", "dropSendersOfReply", "drop"}

BoxRequests ==
    [pc : {"idle", "commit", "dropViewers", "dropSenders", "publish",
           "dropSendersOfReply", "mark", "drop", "count", "store"},
     msg : 0 .. MaxMessages, away : BOOLEAN, page : SUBSET (1 .. MaxMessages),
     count : 0 .. MaxMessages]

\* What a request has read is still true: it carries a message, the viewer was away
\* if they are now, its page was listed, and its count is the present one unless
\* that was overtaken.
RequestSound(h) ==
    /\ inboxReq[h].pc \in Telling \cup {"commit"} => inboxReq[h].msg \in 1 .. MaxMessages
    /\ inboxReq[h].pc \in Telling /\ ~connected => inboxReq[h].away
    /\ inboxReq[h].pc = "mark" => inboxReq[h].page \subseteq listed
    /\ inboxReq[h].pc = "store" /\ h \notin late => inboxReq[h].count = Box!Unread

BoxShape ==
    /\ active \in BOOLEAN /\ connected \in BOOLEAN /\ excused \in BOOLEAN
    /\ sent \subseteq 1 .. MaxMessages /\ read \subseteq 1 .. MaxMessages
    /\ listed \subseteq 1 .. MaxMessages
    /\ inboxReq \in [Handlers -> BoxRequests]
    /\ cache \in [count : 0 .. MaxMessages, ttl : BOOLEAN, there : BOOLEAN]
    /\ taken \in 1 .. MaxMessages
    /\ anchor \in 0 .. MaxMessages
    /\ late \subseteq Handlers
    /\ failures \in Nat

BoxInv ==
    /\ BoxShape
    /\ \A h \in Handlers : RequestSound(h)
    /\ Box!WrongCountExplained
    /\ Box!ReadMeansListed
    /\ missed = {}

LEMMA BoxShapeIsType == BoxShape /\ missed = {} => Box!TypeOK
BY DEF BoxShape, BoxRequests, Box!TypeOK, Box!Messages

LEMMA UnreadInRange ==
    ASSUME BoxShape PROVE Box!Unread \in 0 .. MaxMessages
<1>1. sent \ read \subseteq 1 .. MaxMessages
  BY DEF BoxShape
<1>2. IsFiniteSet(1 .. MaxMessages) /\ Cardinality(1 .. MaxMessages) = MaxMessages
  <2>1. 1 \in Int /\ MaxMessages \in Int /\ 1 <= MaxMessages
    BY BoxConstants
  <2> QED
    BY <2>1, FS_Interval, BoxConstants
<1>3. Cardinality(sent \ read) <= MaxMessages /\ IsFiniteSet(sent \ read)
  BY <1>1, <1>2, FS_Subset
<1>4. Cardinality(sent \ read) \in Nat
  BY <1>3, FS_CardinalityType
<1>5. Box!Unread = IF active THEN Cardinality(sent \ read) ELSE 0
  BY BoxCardinality DEF Box!Unread
<1> QED
  BY <1>3, <1>4, <1>5, BoxConstants

\* The count depends on the thread alone.
LEMMA UnreadStays ==
    ASSUME UNCHANGED <<active, sent, read>> PROVE Box!Unread' = Box!Unread
BY DEF Box!Unread

\* A count that a change of the thread does not mark as overtaken was not.
LEMMA BecomesMarksLate ==
    ASSUME BoxShape, NEW a, NEW s, NEW r, Box!Becomes(a, s, r)
    PROVE  /\ late' \subseteq Handlers
           /\ \A g \in Handlers : inboxReq[g].pc = "store" /\ g \notin late'
                                      => g \notin late /\ Box!Unread' = Box!Unread
<1>1. CASE <<a, s, r>> = <<active, sent, read>>
  <2>1. UNCHANGED <<active, sent, read, late>>
    BY <1>1 DEF Box!Becomes
  <2> QED
    BY <2>1, UnreadStays DEF BoxShape
<1>2. CASE <<a, s, r>> # <<active, sent, read>>
  <2>1. late' = late \cup {h \in Handlers : inboxReq[h].pc = "store"}
    BY <1>2 DEF Box!Becomes
  <2> QED
    BY <2>1 DEF BoxShape
<1> QED
  BY <1>1, <1>2

\* One request becomes x; the others stay sound.
LEMMA OneInboxRequestMoves ==
    ASSUME inboxReq \in [Handlers -> BoxRequests], \A g \in Handlers : RequestSound(g),
           NEW h \in Handlers, NEW x \in BoxRequests,
           inboxReq' = [inboxReq EXCEPT ![h] = x],
           connected' = connected, listed \subseteq listed',
           \A g \in Handlers \ {h} :
               inboxReq[g].pc = "store" /\ g \notin late'
                   => g \notin late /\ Box!Unread' = Box!Unread,
           x.pc \in Telling \cup {"commit"} => x.msg \in 1 .. MaxMessages,
           x.pc \in Telling /\ ~connected => x.away,
           x.pc = "mark" => x.page \subseteq listed',
           x.pc = "store" /\ h \notin late' => x.count = Box!Unread'
    PROVE  /\ inboxReq' \in [Handlers -> BoxRequests]
           /\ \A g \in Handlers : RequestSound(g)'
<1>1. inboxReq' \in [Handlers -> BoxRequests]
  BY DEF BoxRequests
<1>2. RequestSound(h)'
  <2>1. inboxReq'[h] = x
    OBVIOUS
  <2> QED
    BY <2>1 DEF RequestSound
<1>3. ASSUME NEW g \in Handlers \ {h} PROVE RequestSound(g)'
  <2>1. inboxReq'[g] = inboxReq[g] /\ RequestSound(g)
    OBVIOUS
  <2> QED
    BY <2>1 DEF RequestSound
<1> QED
  BY <1>1, <1>2, <1>3

LEMMA IdleFits == Box!Idle \in BoxRequests /\ Box!Idle.pc = "idle"
BY BoxConstants DEF BoxRequests, Box!Idle

\* The first state.
LEMMA BoxInit == Box!Init => BoxInv
<1> SUFFICES ASSUME Box!Init PROVE BoxInv
  OBVIOUS
<1>1. BoxShape
  <2>1. inboxReq \in [Handlers -> BoxRequests]
    BY BoxConstants DEF Box!Init, Box!Idle, BoxRequests
  <2>2. /\ active = FALSE /\ connected = FALSE /\ excused = FALSE
        /\ sent = {1} /\ read = {} /\ listed = {} /\ late = {}
        /\ taken = 1 /\ anchor = 0 /\ failures = 0
    BY DEF Box!Init, Box!Intro
  <2>3. cache \in [count : 0 .. MaxMessages, ttl : BOOLEAN, there : BOOLEAN]
    BY BoxConstants DEF Box!Init, Box!Nothing
  <2>4. 1 \in 1 .. MaxMessages /\ 0 \in 0 .. MaxMessages
    BY BoxConstants
  <2> QED
    BY <2>1, <2>2, <2>3, <2>4 DEF BoxShape
<1>2. \A h \in Handlers : inboxReq[h].pc = "idle"
  BY DEF Box!Init, Box!Idle
<1>3. \A h \in Handlers : RequestSound(h)
  BY <1>2 DEF RequestSound, Telling
<1>4. Box!WrongCountExplained /\ Box!ReadMeansListed /\ missed = {}
  BY DEF Box!Init, Box!WrongCountExplained, Box!Wrong, Box!Nothing, Box!ReadMeansListed
<1> QED
  BY <1>1, <1>3, <1>4 DEF BoxInv

\* A request goes on, the thread and the cached count rest.
LEMMA RequestGoesOn ==
    ASSUME BoxInv, NEW h \in Handlers, NEW x \in BoxRequests,
           inboxReq' = [inboxReq EXCEPT ![h] = x],
           UNCHANGED <<active, sent, read, late, connected, missed, cache, excused,
                       failures, anchor>>,
           taken' \in 1 .. MaxMessages,
           listed \subseteq listed', listed' \subseteq 1 .. MaxMessages,
           inboxReq[h].pc \in Deleting => x.pc \in Deleting,
           x.pc \in Telling \cup {"commit"} => x.msg \in 1 .. MaxMessages,
           x.pc \in Telling /\ ~connected => x.away,
           x.pc = "mark" => x.page \subseteq listed',
           x.pc = "store" => x.count = Box!Unread
    PROVE  BoxInv'
<1>1. Box!Unread' = Box!Unread
  BY UnreadStays
<1>2. inboxReq' \in [Handlers -> BoxRequests] /\ \A g \in Handlers : RequestSound(g)'
  <2>1. inboxReq \in [Handlers -> BoxRequests] /\ \A g \in Handlers : RequestSound(g)
    BY DEF BoxInv, BoxShape
  <2> QED
    BY <1>1, <2>1, OneInboxRequestMoves
<1>3. BoxShape'
  BY <1>2 DEF BoxInv, BoxShape
<1>4. Box!WrongCountExplained'
  <2>1. Box!Wrong' = Box!Wrong
    BY <1>1 DEF Box!Wrong
  <2>2. ASSUME NEW g \in Handlers, inboxReq[g].pc \in Deleting PROVE inboxReq'[g].pc \in Deleting
    BY <2>2 DEF BoxInv, BoxShape
  <2> QED
    BY <2>1, <2>2 DEF BoxInv, Box!WrongCountExplained, Deleting
<1>5. Box!ReadMeansListed' /\ missed' = {}
  BY DEF BoxInv, Box!ReadMeansListed
<1> QED
  BY <1>2, <1>3, <1>4, <1>5 DEF BoxInv

\* A request changes the thread, and is to delete the count.
LEMMA RequestChangesThread ==
    ASSUME BoxInv, NEW h \in Handlers, NEW x \in BoxRequests,
           inboxReq' = [inboxReq EXCEPT ![h] = x],
           NEW a \in BOOLEAN, NEW s \in SUBSET (1 .. MaxMessages),
           NEW r \in SUBSET (1 .. MaxMessages), Box!Becomes(a, s, r),
           UNCHANGED <<connected, missed, cache, excused, failures, taken, listed>>,
           anchor' \in 0 .. MaxMessages,
           r \subseteq listed \cup (1 .. anchor'),
           x.pc \in Deleting,
           x.pc \in Telling => x.msg \in 1 .. MaxMessages,
           x.pc \in Telling /\ ~connected => x.away
    PROVE  BoxInv'
<1>1. BoxShape /\ inboxReq \in [Handlers -> BoxRequests] /\ \A g \in Handlers : RequestSound(g)
  BY DEF BoxInv, BoxShape
<1>2. /\ late' \subseteq Handlers
      /\ \A g \in Handlers : inboxReq[g].pc = "store" /\ g \notin late'
                                 => g \notin late /\ Box!Unread' = Box!Unread
  BY <1>1, BecomesMarksLate
<1>3. x.pc # "commit" /\ x.pc # "mark" /\ x.pc # "store"
  BY DEF Deleting
<1>4. inboxReq' \in [Handlers -> BoxRequests] /\ \A g \in Handlers : RequestSound(g)'
  BY <1>1, <1>2, <1>3, OneInboxRequestMoves
<1>5. active' = a /\ sent' = s /\ read' = r
  BY DEF Box!Becomes
<1>6. BoxShape'
  BY <1>1, <1>2, <1>4, <1>5 DEF BoxShape
<1>7. Box!WrongCountExplained'
  <2>1. inboxReq'[h].pc \in Deleting
    BY <1>1
  <2> QED
    BY <2>1 DEF Box!WrongCountExplained, Deleting
<1>8. Box!ReadMeansListed' /\ missed' = {}
  BY <1>5 DEF BoxInv, Box!ReadMeansListed
<1> QED
  BY <1>4, <1>6, <1>7, <1>8 DEF BoxInv

LEMMA SendBegins ==
    ASSUME BoxInv, NEW h \in Handlers, Box!BeginSend(h) PROVE BoxInv'
<1> DEFINE y == [inboxReq[h] EXCEPT !.pc = "commit"]
<1> DEFINE x == [y EXCEPT !.msg = taken + 1]
<1>1. inboxReq[h] \in BoxRequests /\ taken + 1 \in 1 .. MaxMessages /\ inboxReq[h].pc = "idle"
  BY BoxConstants DEF BoxInv, BoxShape, Box!BeginSend
<1>2. y \in BoxRequests /\ y.pc = "commit"
  BY <1>1 DEF BoxRequests
<1>3. x \in BoxRequests /\ x.pc = "commit" /\ x.msg \in 1 .. MaxMessages
  <2> HIDE DEF y
  <2> QED
    BY <1>1, <1>2, BoxConstants DEF BoxRequests
<1>4. inboxReq' = [inboxReq EXCEPT ![h] = x]
  BY DEF Box!BeginSend, BoxInv, BoxShape
<1>5. /\ UNCHANGED <<active, sent, read, late, connected, missed, cache, excused,
                     failures, anchor, listed>>
      /\ taken' = taken + 1
  BY DEF Box!BeginSend, Box!thread, Box!stream, Box!counting
<1>6. listed' \subseteq 1 .. MaxMessages
  BY <1>5 DEF BoxInv, BoxShape
<1>7. inboxReq[h].pc \notin Deleting /\ x.pc \notin Telling /\ x.pc # "mark" /\ x.pc # "store"
  BY <1>1, <1>3 DEF Deleting, Telling
<1> HIDE DEF x
<1> QED
  BY <1>1, <1>3, <1>4, <1>5, <1>6, <1>7, RequestGoesOn

LEMMA SendCommits ==
    ASSUME BoxInv, NEW h \in Handlers, Box!CommitSend(h) PROVE BoxInv'
<1> DEFINE y == [inboxReq[h] EXCEPT !.pc = "dropViewers"]
<1> DEFINE x == [y EXCEPT !.away = ~connected]
<1>1. /\ inboxReq[h] \in BoxRequests /\ inboxReq[h].pc = "commit"
      /\ inboxReq[h].msg \in 1 .. MaxMessages
  BY DEF BoxInv, BoxShape, Box!CommitSend, RequestSound
<1>2. y \in BoxRequests /\ y.pc = "dropViewers" /\ y.msg = inboxReq[h].msg
  BY <1>1 DEF BoxRequests
<1>3. x \in BoxRequests /\ x.pc = "dropViewers" /\ x.msg = y.msg /\ x.away = ~connected
  <2> HIDE DEF y
  <2> QED
    BY <1>2 DEF BoxRequests
<1>4. inboxReq' = [inboxReq EXCEPT ![h] = x]
  BY DEF Box!CommitSend, BoxInv, BoxShape
<1>5. /\ Box!Becomes(active, sent \cup {inboxReq[h].msg}, read)
      /\ UNCHANGED <<connected, missed, cache, excused, failures, taken, listed, anchor>>
  BY DEF Box!CommitSend, Box!stream, Box!reading, Box!counting
<1>6. /\ active \in BOOLEAN /\ read \in SUBSET (1 .. MaxMessages)
      /\ sent \cup {inboxReq[h].msg} \in SUBSET (1 .. MaxMessages)
      /\ anchor' \in 0 .. MaxMessages /\ read \subseteq listed \cup (1 .. anchor')
  BY <1>1, <1>5 DEF BoxInv, BoxShape, Box!ReadMeansListed
<1>7. x.pc \in Deleting
  BY <1>3 DEF Deleting
<1> HIDE DEF x, y
<1> QED
  BY <1>1, <1>2, <1>3, <1>4, <1>5, <1>6, <1>7, RequestChangesThread

\* The deletion of the sender's own count, before that of the viewer's.
LEMMA OwnDropped ==
    ASSUME BoxInv, NEW h \in Handlers, Box!DropOwn(h) \/ Box!DropOthersOfReply(h) PROVE BoxInv'
<1>1. /\ inboxReq[h] \in BoxRequests /\ inboxReq \in [Handlers -> BoxRequests]
      /\ RequestSound(h) /\ taken \in 1 .. MaxMessages /\ listed \subseteq 1 .. MaxMessages
  BY DEF BoxInv, BoxShape
<1>2. UNCHANGED <<active, sent, read, late, connected, missed, cache, excused,
                  failures, taken, listed, anchor>>
  BY DEF Box!DropOwn, Box!DropOthersOfReply, Box!thread, Box!stream, Box!reading, Box!counting
<1>3. CASE Box!DropOwn(h)
  <2> DEFINE x == [inboxReq[h] EXCEPT !.pc = "publish"]
  <2>1. x \in BoxRequests /\ x.pc = "publish" /\ x.msg = inboxReq[h].msg /\ x.away = inboxReq[h].away
    BY <1>1 DEF BoxRequests
  <2>2. inboxReq[h].pc = "dropSenders" /\ inboxReq' = [inboxReq EXCEPT ![h] = x]
    BY <1>1, <1>3 DEF Box!DropOwn, Box!Goto
  <2>3. x.msg \in 1 .. MaxMessages /\ (~connected => x.away)
    BY <1>1, <2>1, <2>2 DEF RequestSound, Telling
  <2>4. inboxReq[h].pc \notin Deleting
    BY <2>2 DEF Deleting
  <2> HIDE DEF x
  <2> QED
    BY <1>1, <1>2, <2>1, <2>2, <2>3, <2>4, RequestGoesOn
<1>4. CASE Box!DropOthersOfReply(h)
  <2> DEFINE x == [inboxReq[h] EXCEPT !.pc = "drop"]
  <2>1. x \in BoxRequests /\ x.pc = "drop"
    BY <1>1 DEF BoxRequests
  <2>2. inboxReq' = [inboxReq EXCEPT ![h] = x]
    BY <1>1, <1>4 DEF Box!DropOthersOfReply, Box!Goto
  <2>3. x.pc \in Deleting /\ x.pc \notin Telling /\ x.pc \notin {"commit", "mark", "store"}
    BY <2>1 DEF Deleting, Telling
  <2> HIDE DEF x
  <2> QED
    BY <1>1, <1>2, <2>1, <2>2, <2>3, RequestGoesOn
<1> QED
  BY <1>3, <1>4

LEMMA RepliesOrMarks ==
    ASSUME BoxInv, NEW h \in Handlers,
           Box!Reply(h) \/ \E upTo \in Box!Messages : Box!MarkRead(h, upTo)
    PROVE  BoxInv'
<1>1. /\ inboxReq[h] \in BoxRequests /\ inboxReq \in [Handlers -> BoxRequests]
      /\ active \in BOOLEAN /\ sent \in SUBSET (1 .. MaxMessages)
      /\ read \in SUBSET (1 .. MaxMessages) /\ anchor \in 0 .. MaxMessages
      /\ read \subseteq listed \cup (1 .. anchor)
  BY DEF BoxInv, BoxShape, Box!ReadMeansListed
<1>2. CASE Box!Reply(h)
  <2> DEFINE x == [inboxReq[h] EXCEPT !.pc = "dropSendersOfReply"]
  <2>1. x \in BoxRequests /\ x.pc = "dropSendersOfReply"
    BY <1>1 DEF BoxRequests
  <2>2. inboxReq' = [inboxReq EXCEPT ![h] = x]
    BY <1>1, <1>2 DEF Box!Reply, Box!Goto
  <2>3. x.pc \in Deleting /\ x.pc \notin Telling
    BY <2>1 DEF Deleting, Telling
  <2>4. /\ Box!Becomes(TRUE, sent, read)
        /\ UNCHANGED <<connected, missed, cache, excused, failures, taken, listed, anchor>>
    BY <1>2 DEF Box!Reply, Box!stream, Box!reading, Box!counting
  <2> HIDE DEF x
  <2> QED
    BY <1>1, <2>1, <2>2, <2>3, <2>4, RequestChangesThread
<1>3. ASSUME NEW upTo \in Box!Messages, Box!MarkRead(h, upTo) PROVE BoxInv'
  <2> DEFINE x == [inboxReq[h] EXCEPT !.pc = "drop"]
  <2> DEFINE r == read \cup {m \in sent : m <= upTo}
  <2>1. x \in BoxRequests /\ x.pc = "drop"
    BY <1>1 DEF BoxRequests
  <2>2. inboxReq' = [inboxReq EXCEPT ![h] = x]
    BY <1>1, <1>3 DEF Box!MarkRead, Box!Goto
  <2>3. x.pc \in Deleting /\ x.pc \notin Telling
    BY <2>1 DEF Deleting, Telling
  <2>4. /\ Box!Becomes(active, sent, r)
        /\ UNCHANGED <<connected, missed, cache, excused, failures, taken, listed>>
    BY <1>3 DEF Box!MarkRead, Box!stream, Box!counting
  <2>5. anchor' \in 0 .. MaxMessages /\ anchor <= anchor' /\ upTo <= anchor'
    BY <1>1, <1>3, BoxConstants DEF Box!MarkRead, Box!Messages
  <2>6. r \in SUBSET (1 .. MaxMessages) /\ r \subseteq listed \cup (1 .. anchor')
    <3>1. upTo \in 1 .. MaxMessages
      BY DEF Box!Messages
    <3>2. ASSUME NEW m \in 1 .. anchor PROVE m \in 1 .. anchor'
      BY <1>1, <2>5, BoxConstants
    <3>3. ASSUME NEW m \in sent, m <= upTo PROVE m \in 1 .. anchor'
      <4>1. m \in Nat /\ 1 <= m /\ upTo \in Nat /\ anchor' \in Nat
        BY <1>1, <2>5, <3>1, BoxConstants
      <4> QED
        BY <2>5, <3>3, <4>1
    <3> QED
      BY <1>1, <3>2, <3>3
  <2> HIDE DEF x, r
  <2> QED
    BY <1>1, <2>1, <2>2, <2>3, <2>4, <2>5, <2>6, RequestChangesThread
<1> QED
  BY <1>2, <1>3

LEMMA Fetches ==
    ASSUME BoxInv, NEW h \in Handlers, Box!FetchMessages(h) PROVE BoxInv'
<1>1. /\ inboxReq[h] \in BoxRequests /\ inboxReq \in [Handlers -> BoxRequests]
      /\ sent \subseteq 1 .. MaxMessages /\ listed \subseteq 1 .. MaxMessages
      /\ taken \in 1 .. MaxMessages
  BY DEF BoxInv, BoxShape
<1>2. PICK lo \in Box!Messages, hi \in Box!Messages :
         LET page == sent \cap (lo .. hi) IN
         /\ page # {}
         /\ listed' = listed \cup page
         /\ IF page \subseteq read
            THEN UNCHANGED inboxReq
            ELSE inboxReq' = [inboxReq EXCEPT ![h].pc = "mark", ![h].page = page \ read]
  BY DEF Box!FetchMessages
<1> DEFINE page == sent \cap (lo .. hi)
<1>3. listed' = listed \cup page /\ page \subseteq 1 .. MaxMessages
  BY <1>1, <1>2
<1>4. /\ inboxReq[h].pc = "idle"
      /\ UNCHANGED <<active, sent, read, late, connected, missed, cache, excused,
                     failures, taken, anchor>>
  BY DEF Box!FetchMessages, Box!thread, Box!stream, Box!counting
<1>5. CASE page \subseteq read
  <2> DEFINE x == inboxReq[h]
  <2>1. inboxReq' = [inboxReq EXCEPT ![h] = x]
    BY <1>1, <1>2, <1>5
  <2>2. x.pc \notin Deleting /\ x.pc \notin Telling /\ x.pc \notin {"commit", "mark", "store"}
    BY <1>4 DEF Deleting, Telling
  <2> HIDE DEF x, page
  <2>3. x \in BoxRequests /\ inboxReq[h].pc \notin Deleting
    BY <1>1, <1>4 DEF x, Deleting
  <2> QED
    BY <1>1, <1>3, <1>4, <2>1, <2>2, <2>3, RequestGoesOn
<1>6. CASE ~ (page \subseteq read)
  <2> DEFINE y == [inboxReq[h] EXCEPT !.pc = "mark"]
  <2> DEFINE x == [y EXCEPT !.page = page \ read]
  <2>1. inboxReq' = [inboxReq EXCEPT ![h] = x]
    BY <1>1, <1>2, <1>6
  <2>2. y \in BoxRequests /\ y.pc = "mark"
    BY <1>1 DEF BoxRequests
  <2> HIDE DEF y, page
  <2>3. x \in BoxRequests /\ x.pc = "mark" /\ x.page = page \ read
    BY <1>3, <2>2 DEF BoxRequests
  <2>4. x.pc \notin Telling /\ x.pc \notin {"commit", "store"} /\ inboxReq[h].pc \notin Deleting
    BY <1>4, <2>3 DEF Deleting, Telling
  <2> HIDE DEF x
  <2> QED
    BY <1>1, <1>3, <1>4, <2>1, <2>3, <2>4, RequestGoesOn
<1> QED
  BY <1>5, <1>6

LEMMA MarksListed ==
    ASSUME BoxInv, NEW h \in Handlers, Box!MarkListed(h) PROVE BoxInv'
<1> DEFINE x == [Box!Idle EXCEPT !.pc = "drop"]
<1>1. /\ inboxReq[h] \in BoxRequests /\ inboxReq \in [Handlers -> BoxRequests]
      /\ active \in BOOLEAN /\ sent \in SUBSET (1 .. MaxMessages)
      /\ read \in SUBSET (1 .. MaxMessages) /\ anchor \in 0 .. MaxMessages
      /\ read \subseteq listed \cup (1 .. anchor) /\ RequestSound(h)
      /\ inboxReq[h].pc = "mark"
  BY DEF BoxInv, BoxShape, Box!ReadMeansListed, Box!MarkListed
<1>2. x \in BoxRequests /\ x.pc = "drop"
  BY IdleFits DEF BoxRequests
<1>3. x.pc \in Deleting /\ x.pc \notin Telling
  BY <1>2 DEF Deleting, Telling
<1>4. /\ inboxReq' = [inboxReq EXCEPT ![h] = x]
      /\ Box!Becomes(active, sent, read \cup inboxReq[h].page)
      /\ UNCHANGED <<connected, missed, cache, excused, failures, taken, listed, anchor>>
  BY DEF Box!MarkListed, Box!stream, Box!reading, Box!counting
<1>5. /\ read \cup inboxReq[h].page \in SUBSET (1 .. MaxMessages)
      /\ read \cup inboxReq[h].page \subseteq listed \cup (1 .. anchor')
  BY <1>1, <1>4 DEF RequestSound, BoxRequests
<1> HIDE DEF x
<1> QED
  BY <1>1, <1>2, <1>3, <1>4, <1>5, RequestChangesThread

LEMMA Counts ==
    ASSUME BoxInv, NEW h \in Handlers, Box!MissCount(h) \/ Box!Count(h) PROVE BoxInv'
<1>1. /\ inboxReq[h] \in BoxRequests /\ inboxReq \in [Handlers -> BoxRequests]
      /\ taken \in 1 .. MaxMessages /\ listed \subseteq 1 .. MaxMessages
  BY DEF BoxInv, BoxShape
<1>2. UNCHANGED <<active, sent, read, late, connected, missed, cache, excused,
                  failures, taken, listed, anchor>>
  BY DEF Box!MissCount, Box!Count, Box!thread, Box!stream, Box!reading, Box!counting
<1>3. CASE Box!MissCount(h)
  <2> DEFINE x == [inboxReq[h] EXCEPT !.pc = "count"]
  <2>1. x \in BoxRequests /\ x.pc = "count"
    BY <1>1 DEF BoxRequests
  <2>2. inboxReq[h].pc = "idle" /\ inboxReq' = [inboxReq EXCEPT ![h] = x]
    BY <1>1, <1>3 DEF Box!MissCount, Box!Goto
  <2>3. /\ x.pc \notin Telling /\ x.pc \notin {"commit", "mark", "store"}
        /\ inboxReq[h].pc \notin Deleting
    BY <2>1, <2>2 DEF Deleting, Telling
  <2> HIDE DEF x
  <2> QED
    BY <1>1, <1>2, <2>1, <2>2, <2>3, RequestGoesOn
<1>4. CASE Box!Count(h)
  <2> DEFINE y == [inboxReq[h] EXCEPT !.pc = "store"]
  <2> DEFINE x == [y EXCEPT !.count = Box!Unread]
  <2>1. y \in BoxRequests /\ y.pc = "store"
    BY <1>1 DEF BoxRequests
  <2>2. inboxReq[h].pc = "count" /\ inboxReq' = [inboxReq EXCEPT ![h] = x]
    BY <1>1, <1>4 DEF Box!Count
  <2>3. Box!Unread \in 0 .. MaxMessages
    BY UnreadInRange DEF BoxInv
  <2> HIDE DEF y
  <2>4. x \in BoxRequests /\ x.pc = "store" /\ x.count = Box!Unread
    BY <2>1, <2>3 DEF BoxRequests
  <2>5. /\ x.pc \notin Telling /\ x.pc \notin {"commit", "mark"}
        /\ inboxReq[h].pc \notin Deleting
    BY <2>2, <2>4 DEF Deleting, Telling
  <2> HIDE DEF x
  <2> QED
    BY <1>1, <1>2, <2>2, <2>4, <2>5, RequestGoesOn
<1> QED
  BY <1>3, <1>4

LEMMA CountDropped ==
    ASSUME BoxInv, NEW h \in Handlers, Box!DropCount(h) PROVE BoxInv'
<1>1. /\ BoxShape /\ inboxReq[h] \in BoxRequests /\ inboxReq \in [Handlers -> BoxRequests]
      /\ \A g \in Handlers : RequestSound(g)
  BY DEF BoxInv, BoxShape
<1>2. /\ UNCHANGED <<active, sent, read, late, connected, missed, failures, taken, listed, anchor>>
      /\ cache' = Box!Nothing /\ excused' = FALSE
      /\ inboxReq[h].pc \in {"dropViewers", "drop"}
  BY DEF Box!DropCount, Box!thread, Box!stream, Box!reading
<1>3. Box!Unread' = Box!Unread
  BY <1>2, UnreadStays
<1>4. PICK x \in BoxRequests :
         /\ inboxReq' = [inboxReq EXCEPT ![h] = x]
         /\ x.pc \notin {"commit", "mark", "store"}
         /\ x.pc \in Telling => x.msg \in 1 .. MaxMessages
         /\ x.pc \in Telling /\ ~connected => x.away
  <2>1. CASE inboxReq[h].pc = "drop"
    <3>1. inboxReq' = [inboxReq EXCEPT ![h] = Box!Idle]
      BY <2>1 DEF Box!DropCount, Box!Finish
    <3> QED
      BY <3>1, IdleFits DEF Telling
  <2>2. CASE inboxReq[h].pc = "dropViewers"
    <3> DEFINE x == [inboxReq[h] EXCEPT !.pc = "dropSenders"]
    <3>1. /\ x \in BoxRequests /\ x.pc = "dropSenders"
          /\ x.msg = inboxReq[h].msg /\ x.away = inboxReq[h].away
      BY <1>1 DEF BoxRequests
    <3>2. inboxReq' = [inboxReq EXCEPT ![h] = x]
      BY <1>1, <2>2 DEF Box!DropCount, Box!Goto
    <3>3. x.msg \in 1 .. MaxMessages /\ (~connected => x.away)
      BY <1>1, <2>2, <3>1 DEF RequestSound, Telling
    <3> HIDE DEF x
    <3> QED
      BY <3>1, <3>2, <3>3
  <2> QED
    BY <1>2, <2>1, <2>2
<1>5. inboxReq' \in [Handlers -> BoxRequests] /\ \A g \in Handlers : RequestSound(g)'
  BY <1>1, <1>2, <1>3, <1>4, OneInboxRequestMoves
<1>6. cache' \in [count : 0 .. MaxMessages, ttl : BOOLEAN, there : BOOLEAN] /\ ~cache'.there
  BY <1>2, BoxConstants DEF Box!Nothing
<1>7. BoxShape'
  BY <1>1, <1>2, <1>5, <1>6 DEF BoxShape
<1>8. Box!WrongCountExplained' /\ Box!ReadMeansListed' /\ missed' = {}
  BY <1>2, <1>6 DEF BoxInv, Box!WrongCountExplained, Box!Wrong, Box!ReadMeansListed
<1> QED
  BY <1>5, <1>7, <1>8 DEF BoxInv

\* Requests that end without changing the thread: their answer, a rejected DEL, and SET.
LEMMA RequestEnds ==
    ASSUME BoxInv, NEW h \in Handlers, Box!Publish(h) \/ Box!DropFails(h) \/ Box!StoreCount(h)
    PROVE  BoxInv'
<1>1. /\ BoxShape /\ inboxReq[h] \in BoxRequests /\ inboxReq \in [Handlers -> BoxRequests]
      /\ \A g \in Handlers : RequestSound(g)
  BY DEF BoxInv, BoxShape
<1>2. /\ UNCHANGED <<active, sent, read, connected, taken, listed, anchor>>
      /\ inboxReq' = [inboxReq EXCEPT ![h] = Box!Idle]
      /\ late' = late \/ late' = late \ {h}
  BY DEF Box!Publish, Box!Answered, Box!DropFails, Box!StoreCount, Box!Finish,
         Box!thread, Box!stream, Box!reading
<1>3. Box!Unread' = Box!Unread
  BY <1>2, UnreadStays
<1>4. inboxReq' \in [Handlers -> BoxRequests] /\ \A g \in Handlers : RequestSound(g)'
  <2>1. Box!Idle.pc \notin Telling \cup {"commit", "mark", "store"}
    BY IdleFits DEF Telling
  <2>2. listed \subseteq listed' /\ \A g \in Handlers \ {h} : g \notin late' => g \notin late
    BY <1>2
  <2> QED
    BY <1>1, <1>2, <1>3, <2>1, <2>2, IdleFits, OneInboxRequestMoves
<1>5. \A g \in Handlers \ {h} : inboxReq'[g] = inboxReq[g]
  BY <1>1, <1>2
<1>6. Box!ReadMeansListed'
  BY <1>2 DEF BoxInv, Box!ReadMeansListed
<1>7. missed' = {}
  <2>1. CASE Box!Publish(h)
    <3>1. connected \/ inboxReq[h].away
      BY <1>1, <2>1 DEF RequestSound, Telling, Box!Publish
    <3> QED
      BY <2>1, <3>1 DEF Box!Publish, Box!Answered, BoxInv
  <2>2. CASE Box!DropFails(h) \/ Box!StoreCount(h)
    BY <2>2 DEF Box!DropFails, Box!StoreCount, Box!stream, BoxInv
  <2> QED
    BY <2>1, <2>2
<1>8. /\ cache' \in [count : 0 .. MaxMessages, ttl : BOOLEAN, there : BOOLEAN]
      /\ excused' \in BOOLEAN /\ failures' \in Nat
      /\ Box!WrongCountExplained'
  <2>1. CASE Box!Publish(h)
    <3>1. UNCHANGED <<cache, excused, failures>> /\ inboxReq[h].pc \notin Deleting
      BY <2>1 DEF Box!Publish, Box!counting, Deleting
    <3>2. Box!Wrong' = Box!Wrong
      BY <1>3, <3>1 DEF Box!Wrong
    <3>3. Box!WrongCountExplained'
      BY <1>5, <3>1, <3>2 DEF BoxInv, Box!WrongCountExplained, Deleting
    <3> QED
      BY <1>1, <3>1, <3>3 DEF BoxShape
  <2>2. CASE Box!DropFails(h)
    <3>1. cache' = cache /\ failures' = failures + 1 /\ excused' = (excused \/ Box!Wrong)
      BY <2>2 DEF Box!DropFails
    <3>2. Box!Wrong' = Box!Wrong /\ excused' \in BOOLEAN
      BY <1>1, <1>3, <3>1 DEF Box!Wrong, BoxShape
    <3>3. Box!WrongCountExplained'
      BY <3>1, <3>2 DEF Box!WrongCountExplained
    <3> QED
      BY <1>1, <3>1, <3>2, <3>3 DEF BoxShape
  <2>3. CASE Box!StoreCount(h)
    <3>1. /\ cache' = [count |-> inboxReq[h].count, ttl |-> TRUE, there |-> TRUE]
          /\ excused' = (h \in late) /\ failures' = failures
          /\ inboxReq[h].pc = "store"
      BY <2>3 DEF Box!StoreCount
    <3>2. inboxReq[h].count \in 0 .. MaxMessages
      BY <1>1 DEF BoxRequests
    <3>3. Box!WrongCountExplained'
      <4>1. h \notin late => inboxReq[h].count = Box!Unread'
        BY <1>1, <1>3, <3>1 DEF RequestSound
      <4>2. cache'.count = inboxReq[h].count
        BY <3>1
      <4> QED
        BY <3>1, <4>1, <4>2 DEF Box!WrongCountExplained, Box!Wrong
    <3> QED
      BY <1>1, <3>1, <3>2, <3>3 DEF BoxShape
  <2> QED
    BY <2>1, <2>2, <2>3
<1>9. BoxShape'
  BY <1>1, <1>2, <1>4, <1>8 DEF BoxShape
<1> QED
  BY <1>4, <1>6, <1>7, <1>8, <1>9 DEF BoxInv

LEMMA Accepts == ASSUME BoxInv, Box!Accept PROVE BoxInv'
<1>1. /\ BoxShape /\ sent \in SUBSET (1 .. MaxMessages) /\ read \in SUBSET (1 .. MaxMessages)
      /\ \A g \in Handlers : RequestSound(g)
  BY DEF BoxInv, BoxShape
<1>2. /\ UNCHANGED <<cache, failures, inboxReq, connected, missed, taken, listed, anchor>>
      /\ Box!Becomes(TRUE, sent, read)
  BY DEF Box!Accept, Box!stream, Box!reading
<1>3. excused' = (excused \/ Box!Wrong')
  BY DEF Box!Accept
<1>4. active' = TRUE /\ sent' = sent /\ read' = read
  BY <1>2 DEF Box!Becomes
<1>5. /\ late' \subseteq Handlers
      /\ \A g \in Handlers : inboxReq[g].pc = "store" /\ g \notin late'
                                 => g \notin late /\ Box!Unread' = Box!Unread
  BY <1>1, <1>2, BecomesMarksLate
<1>6. BoxShape'
  <2>1. excused' \in BOOLEAN
    BY <1>1, <1>3 DEF BoxShape, Box!Wrong
  <2> QED
    BY <1>1, <1>2, <1>4, <1>5, <2>1 DEF BoxShape
<1>7. \A g \in Handlers : RequestSound(g)'
  BY <1>1, <1>2, <1>5 DEF RequestSound
<1>8. Box!WrongCountExplained'
  BY <1>3 DEF Box!WrongCountExplained
<1>9. Box!ReadMeansListed' /\ missed' = {}
  BY <1>2, <1>4 DEF BoxInv, Box!ReadMeansListed
<1> QED
  BY <1>6, <1>7, <1>8, <1>9 DEF BoxInv

LEMMA CountExpires == ASSUME BoxInv, Box!CountExpires PROVE BoxInv'
<1>1. /\ UNCHANGED <<active, sent, read, late, connected, missed, taken, listed, anchor,
                     failures, inboxReq>>
      /\ cache' = Box!Nothing /\ excused' = FALSE
  BY DEF Box!CountExpires, Box!thread, Box!stream, Box!reading
<1>2. Box!Unread' = Box!Unread
  BY <1>1, UnreadStays
<1>3. cache' \in [count : 0 .. MaxMessages, ttl : BOOLEAN, there : BOOLEAN] /\ ~cache'.there
  BY <1>1, BoxConstants DEF Box!Nothing
<1>4. BoxShape' /\ \A h \in Handlers : RequestSound(h)'
  BY <1>1, <1>2, <1>3 DEF BoxInv, BoxShape, RequestSound
<1>5. Box!WrongCountExplained' /\ Box!ReadMeansListed' /\ missed' = {}
  BY <1>1, <1>3 DEF BoxInv, Box!WrongCountExplained, Box!Wrong, Box!ReadMeansListed
<1> QED
  BY <1>4, <1>5 DEF BoxInv

\* The stream opens or closes.
LEMMA StreamChanges == ASSUME BoxInv, Box!Connect \/ Box!Disconnect PROVE BoxInv'
<1>1. /\ UNCHANGED <<active, sent, read, late, missed, taken, listed, anchor, cache, excused,
                     failures>>
      /\ connected' \in BOOLEAN
  BY DEF Box!Connect, Box!Disconnect, Box!thread, Box!reading, Box!counting
<1>2. Box!Unread' = Box!Unread
  BY <1>1, UnreadStays
<1>3. /\ inboxReq' \in [Handlers -> BoxRequests]
      /\ \A h \in Handlers :
            /\ inboxReq'[h].pc = inboxReq[h].pc /\ inboxReq'[h].msg = inboxReq[h].msg
            /\ inboxReq'[h].page = inboxReq[h].page /\ inboxReq'[h].count = inboxReq[h].count
            /\ inboxReq[h].pc \in Telling /\ ~connected' => inboxReq'[h].away
  <2>0. inboxReq \in [Handlers -> BoxRequests]
    BY DEF BoxInv, BoxShape
  <2>1. CASE Box!Connect
    BY <2>0, <2>1 DEF Box!Connect
  <2>2. CASE Box!Disconnect
    <3> DEFINE f(h) == IF inboxReq[h].pc \in Telling
                       THEN [inboxReq[h] EXCEPT !.away = TRUE] ELSE inboxReq[h]
    <3>1. inboxReq' = [h \in Handlers |-> f(h)]
      BY <2>2 DEF Box!Disconnect, Telling
    <3>2. ASSUME NEW h \in Handlers
          PROVE  /\ f(h) \in BoxRequests
                 /\ f(h).pc = inboxReq[h].pc /\ f(h).msg = inboxReq[h].msg
                 /\ f(h).page = inboxReq[h].page /\ f(h).count = inboxReq[h].count
                 /\ inboxReq[h].pc \in Telling => f(h).away
      <4>1. inboxReq[h] \in BoxRequests
        BY <2>0
      <4> QED
        BY <4>1 DEF BoxRequests
    <3> HIDE DEF f
    <3> QED
      BY <3>1, <3>2
  <2> QED
    BY <2>1, <2>2
<1>4. \A h \in Handlers : RequestSound(h)'
  BY <1>1, <1>2, <1>3 DEF BoxInv, RequestSound
<1>5. BoxShape'
  BY <1>1, <1>3 DEF BoxInv, BoxShape
<1>6. Box!WrongCountExplained'
  <2>1. Box!Wrong' = Box!Wrong
    BY <1>1, <1>2 DEF Box!Wrong
  <2> QED
    BY <1>1, <1>3, <2>1 DEF BoxInv, Box!WrongCountExplained
<1>7. Box!ReadMeansListed' /\ missed' = {}
  BY <1>1 DEF BoxInv, Box!ReadMeansListed
<1> QED
  BY <1>4, <1>5, <1>6, <1>7 DEF BoxInv

LEMMA BoxStep == BoxInv /\ [Box!Next]_inbox => BoxInv'
<1> SUFFICES ASSUME BoxInv, [Box!Next]_inbox PROVE BoxInv'
  OBVIOUS
<1>1. CASE UNCHANGED inbox
  <2>1. UNCHANGED <<active, sent, read, late, connected, missed, taken, listed, anchor, cache,
                    excused, failures, inboxReq>>
    BY <1>1 DEF inbox
  <2>2. Box!Unread' = Box!Unread
    BY <2>1, UnreadStays
  <2> QED
    BY <2>1, <2>2 DEF BoxInv, BoxShape, RequestSound, Box!WrongCountExplained, Box!Wrong,
                      Box!ReadMeansListed
<1>2. ASSUME NEW h \in Handlers, Box!Continue(h) PROVE BoxInv'
  BY <1>2, SendCommits, OwnDropped, RequestEnds, MarksListed, CountDropped, Counts
     DEF Box!Continue
<1> QED
  BY <1>1, <1>2, Accepts, CountExpires, StreamChanges, SendBegins, RepliesOrMarks, Fetches,
     Counts, RequestEnds DEF Box!Next

\* Every behaviour of Inbox keeps the invariant.
LEMMA BoxInductive == Box!Spec => []BoxInv
BY BoxInit, BoxStep, PTL DEF Box!Spec, Box!vars, inbox

\* A wrong cached count is about to be deleted or was to be deleted by nobody, however
\* many requests, messages and failures of Redis (getUnreadCount, invalidateUnreadCache).
THEOREM WrongCountsExplained == Box!Spec => []WrongCountExplained
<1>1. BoxInv => WrongCountExplained
  BY BoxShapeIsType DEF BoxInv, WrongCountExplained
<1> QED
  BY <1>1, BoxInductive, PTL

\* No message is marked as read that the viewer was not shown and did not mark up to
\* (listMessages, markMessagesRead).
THEOREM ReadsWereListed == Box!Spec => []ReadMeansListed
<1>1. BoxInv => ReadMeansListed
  BY DEF BoxInv, ReadMeansListed
<1> QED
  BY <1>1, BoxInductive, PTL

\* A message whose send was answered was announced to a stream that was open from its
\* commit on (sendMessage).
THEOREM AnswersWereAnnounced == Box!Spec => []AnsweredMeansAnnounced
<1>1. BoxInv => AnsweredMeansAnnounced
  BY DEF BoxInv, AnsweredMeansAnnounced, Box!AnsweredMeansAnnounced
<1> QED
  BY <1>1, BoxInductive, PTL


-----------------------------------------------------------------------------
(* The run of MCConvInboxLogin.                                            *)

\* In a behaviour of the run every component keeps to its own specification: the part
\* that was chosen takes its steps, the others stutter.
THEOREM PartsKeepTheirSpecs == PartsSpec => Spec /\ Box!Spec /\ Login!Spec
<1>1. PartsInit => Init /\ Box!Init /\ Login!Init
  BY DEF PartsInit
<1>2. [PartsNext]_<<part, vars, inbox, login>> =>
         [Next]_vars /\ [Box!Next]_inbox /\ [Login!Next]_login
  <2> SUFFICES ASSUME [PartsNext]_<<part, vars, inbox, login>>
               PROVE  [Next]_vars /\ [Box!Next]_inbox /\ [Login!Next]_login
    OBVIOUS
  <2> QED
    BY DEF PartsNext
<1> QED
  BY <1>1, <1>2, PTL
  DEF PartsSpec, Spec, Box!Spec, Login!Spec, Box!vars, Login!vars, inbox, login

=============================================================================
