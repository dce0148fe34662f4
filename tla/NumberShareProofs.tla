------------------------- MODULE NumberShareProofs -------------------------
(***************************************************************************)
(* Proofs about NumberShare.tla, for any number of handlers and requests.  *)
(***************************************************************************)
EXTENDS NumberShare, TLAPS

\* Other is the swap of the two participants.
LEMMA OtherSwaps ==
    ASSUME NEW u \in Users
    PROVE  Other(u) \in Users /\ Other(u) # u /\ Other(Other(u)) = u
BY UsersAssumption DEF Users, Other

-----------------------------------------------------------------------------
(* Type correctness.                                                       *)

\* A handler that does nothing has its type.
LEMMA IdleType == Idle \in Request
<1>1. 1 \in Ids
  BY MaxRequestsAssumption DEF Ids
<1> QED
  BY <1>1 DEF Idle, Request, Steps

\* Init establishes the types.
LEMMA InitType == Init => TypeOK
<1> SUFFICES ASSUME Init PROVE TypeOK
  OBVIOUS
<1>1. NoRow \in Row /\ Idle.pc = "idle" /\ NoRow.by = Nobody /\ NoRow.status = "NONE"
  BY DEF Row, NoRow, Idle
<1> QED
  BY <1>1, IdleType DEF Init, TypeOK

\* A request that exists keeps its requester.
LEMMA RequesterStays ==
    ASSUME TypeOK, [Next]_vars, NEW i \in Ids, requests[i] # NoRow
    PROVE  requests'[i].by = requests[i].by
<1> USE DEF TypeOK, Row
<1>1. ASSUME NEW h \in Handlers, CreateRequest(h) PROVE requests'[i].by = requests[i].by
  BY <1>1 DEF CreateRequest, Fresh
<1>2. ASSUME NEW h \in Handlers, Respond(h) PROVE requests'[i].by = requests[i].by
  BY <1>2 DEF Respond
<1> QED
  BY <1>1, <1>2 DEF Next, vars, FindForRequest, FindForRespond, CheckBlockedByTarget,
     CheckViewerBlocked, FindPending, FindRequest, Fail, Block, Unblock

\* The types of the variables, without what an answering handler relies on.
Typed ==
    /\ shared \in BOOLEAN
    /\ requests \in [Ids -> Row]
    /\ \A i \in Ids : requests[i].by = Nobody <=> requests[i].status = "NONE"
    /\ blocks \subseteq Users \X Users
    /\ req \in [Handlers -> Request]
    /\ \A h \in Handlers : req[h].pc # "idle" => req[h].user \in Users

\* Every step keeps the types.
LEMMA NextTyped == TypeOK /\ [Next]_vars => Typed'
<1> SUFFICES ASSUME TypeOK, [Next]_vars PROVE Typed'
  OBVIOUS
<1> USE DEF TypeOK, Typed, Goto, Finish
<1>0. Idle.pc = "idle"
  BY DEF Idle
<1>1. ASSUME NEW h \in Handlers, NEW u \in Users, FindForRequest(h, u) PROVE Typed'
  BY <1>0, <1>1, IdleType DEF FindForRequest, Request, Steps
<1>2. ASSUME NEW h \in Handlers, NEW u \in Users, FindForRespond(h, u) PROVE Typed'
  <2>1. PICK i \in Ids, a \in BOOLEAN :
          req' = [req EXCEPT ![h] = [Idle EXCEPT !.user = u, !.pc = "respondByTarget",
                                                 !.id = i, !.accept = a]]
    BY <1>2 DEF FindForRespond
  <2>2. [Idle EXCEPT !.user = u, !.pc = "respondByTarget", !.id = i, !.accept = a] \in Request
    BY IdleType DEF Request, Steps
  <2> QED
    BY <1>0, <1>2, <2>1, <2>2 DEF FindForRespond
<1>3. ASSUME NEW h \in Handlers, CheckBlockedByTarget(h) PROVE Typed'
  BY <1>0, <1>3, IdleType DEF CheckBlockedByTarget, Request, Steps
<1>4. ASSUME NEW h \in Handlers, CheckViewerBlocked(h) PROVE Typed'
  BY <1>0, <1>4, IdleType DEF CheckViewerBlocked, AfterBlockCheck, Request, Steps
<1>5. ASSUME NEW h \in Handlers, FindPending(h) PROVE Typed'
  BY <1>0, <1>5, IdleType DEF FindPending, Request, Steps
<1>6. ASSUME NEW h \in Handlers, CreateRequest(h) PROVE Typed'
  BY <1>0, <1>6, IdleType, UsersAssumption DEF CreateRequest, Row
<1>7. ASSUME NEW h \in Handlers, FindRequest(h) PROVE Typed'
  BY <1>0, <1>7, IdleType DEF FindRequest, Request, Steps
<1>8. ASSUME NEW h \in Handlers, Respond(h) PROVE Typed'
  <2>1. requests[req[h].id].by \in Users /\ req[h].id \in Ids
    BY <1>8 DEF Respond, Request
  <2> QED
    BY <1>0, <1>8, <2>1, IdleType, UsersAssumption DEF Respond, Row
<1>9. ASSUME NEW h \in Handlers, Fail(h) PROVE Typed'
  BY <1>0, <1>9, IdleType DEF Fail
<1>10. ASSUME NEW u \in Users, Block(u) \/ Unblock(u) PROVE Typed'
  BY <1>10, OtherSwaps DEF Block, Unblock
<1>11. CASE UNCHANGED vars
  BY <1>11 DEF vars
<1> QED
  BY <1>1, <1>2, <1>3, <1>4, <1>5, <1>6, <1>7, <1>8, <1>9, <1>10, <1>11 DEF Next

\* A handler reaches the answer by reading a request of the other participant.
LEMMA AnswererRead ==
    ASSUME TypeOK, [Next]_vars, NEW h \in Handlers, req'[h].pc = "respond"
    PROVE  /\ req'[h].id = req[h].id /\ req'[h].user = req[h].user
           /\ \/ req[h].pc = "respond"
              \/ /\ Pending(req[h].id) /\ requests[req[h].id].by # req[h].user
                 /\ requests' = requests
<1> USE DEF TypeOK, Request, Goto, Finish, Idle
<1>1. ASSUME NEW g \in Handlers, FindRequest(g)
      PROVE  /\ req'[h].id = req[h].id /\ req'[h].user = req[h].user
             /\ \/ req[h].pc = "respond"
                \/ /\ Pending(req[h].id) /\ requests[req[h].id].by # req[h].user
                   /\ requests' = requests
  BY <1>1 DEF FindRequest
<1>2. ASSUME req' = req \/ \E g \in Handlers : req'[g].pc # "respond" /\ req' = [req EXCEPT ![g] = req'[g]]
      PROVE  req[h].pc = "respond" /\ req'[h] = req[h]
  BY <1>2
<1>3. ASSUME NEW g \in Handlers, CheckBlockedByTarget(g) \/ CheckViewerBlocked(g) \/ FindPending(g)
                                 \/ CreateRequest(g) \/ Respond(g) \/ Fail(g)
      PROVE  req'[g].pc # "respond" /\ req' = [req EXCEPT ![g] = req'[g]]
  BY <1>3 DEF CheckBlockedByTarget, CheckViewerBlocked, AfterBlockCheck, FindPending,
              CreateRequest, Respond, Fail
<1>4. ASSUME NEW g \in Handlers, NEW u \in Users, FindForRequest(g, u) \/ FindForRespond(g, u)
      PROVE  req'[g].pc # "respond" /\ req' = [req EXCEPT ![g] = req'[g]]
  BY <1>4 DEF FindForRequest, FindForRespond
<1>5. ASSUME NEW u \in Users, Block(u) \/ Unblock(u) PROVE req' = req
  BY <1>5 DEF Block, Unblock
<1>6. ASSUME UNCHANGED vars PROVE req' = req
  BY <1>6 DEF vars
<1> QED
  BY <1>1, <1>2, <1>3, <1>4, <1>5, <1>6 DEF Next

\* Every step keeps TypeOK: a handler about to answer relies on a requester who
\* stays what it was.
LEMMA NextType == TypeOK /\ [Next]_vars => TypeOK'
<1> SUFFICES ASSUME TypeOK, [Next]_vars PROVE TypeOK'
  OBVIOUS
<1>1. Typed'
  BY NextTyped
<1>2. ASSUME NEW h \in Handlers, req'[h].pc = "respond"
      PROVE  requests'[req'[h].id].by \in Users \ {req'[h].user}
  <2> DEFINE i == req[h].id
  <2>1. i \in Ids /\ req'[h].id = i /\ req'[h].user = req[h].user
    BY <1>2, AnswererRead DEF TypeOK, Request
  <2>2. requests[i].by \in Users \ {req[h].user}
    <3>1. CASE req[h].pc = "respond"
      BY <3>1 DEF TypeOK
    <3>2. CASE Pending(i) /\ requests[i].by # req[h].user
      BY <3>2, <2>1 DEF TypeOK, Row, Pending
    <3> QED
      BY <1>2, <3>1, <3>2, AnswererRead
  <2> QED
    <3>1. requests[i] # NoRow
      BY <2>2, UsersAssumption DEF NoRow
    <3> QED
      BY <2>1, <2>2, <3>1, RequesterStays
<1> QED
  BY <1>1, <1>2 DEF TypeOK, Typed

\* TypeOK holds in every state.
THEOREM TypeCorrect == Spec => []TypeOK
BY InitType, NextType, PTL DEF Spec

-----------------------------------------------------------------------------
(* Consent.                                                                *)

\* Numbers become visible only when each of the two has asked or agreed
\* (messaging.service.ts:1209, :1216), whatever overlaps.
THEOREM BothConsent == Spec => ConsentOfBoth
<1>1. ASSUME TypeOK, [Next]_vars, shared', ~shared
      PROVE  \E i \in Ids, h \in Handlers :
                /\ requests'[i].status = "ACCEPTED"
                /\ requests[i].by # Nobody /\ Other(requests[i].by) = req[h].user
                /\ req[h].accept /\ req[h].id = i
  <2>1. PICK h \in Handlers : Respond(h)
    BY <1>1 DEF Next, vars, FindForRequest, FindForRespond, CheckBlockedByTarget,
       CheckViewerBlocked, FindPending, CreateRequest, FindRequest, Fail, Block, Unblock
  <2> DEFINE i == req[h].id
  <2>2. i \in Ids /\ requests[i].by \in Users \ {req[h].user} /\ req[h].user \in Users
    BY <1>1, <2>1 DEF TypeOK, Request, Respond
  <2>3. requests[i].by # Nobody /\ Other(requests[i].by) = req[h].user
    BY <2>2, UsersAssumption DEF Users, Other
  <2>4. req[h].accept /\ requests'[i].status = "ACCEPTED"
    BY <1>1, <2>1, <2>2 DEF Respond, TypeOK, Row
  <2> QED
    BY <2>2, <2>3, <2>4
<1> QED
  BY <1>1, TypeCorrect, PTL DEF Spec, ConsentOfBoth

-----------------------------------------------------------------------------
(* One answer per request, while clients wait for their answers.           *)

\* A user has one request in flight.
OneInFlight ==
    \A g, h \in Handlers :
        req[g].pc # "idle" /\ req[h].pc # "idle" /\ req[g].user = req[h].user => g = h

\* MayStart keeps it so.
LEMMA NextOneInFlight ==
    ASSUME Clients # "free", TypeOK, OneInFlight, [Next]_vars PROVE OneInFlight'
<1> USE DEF TypeOK, OneInFlight, Request
<1>1. ASSUME NEW h \in Handlers, NEW u \in Users,
             FindForRequest(h, u) \/ FindForRespond(h, u)
      PROVE  OneInFlight'
  <2>1. \A g \in Handlers : req[g].pc # "idle" => req[g].user # u
    BY <1>1, ClientsAssumption DEF FindForRequest, FindForRespond, MayStart
  <2>2. /\ req'[h].user = u
        /\ \A g \in Handlers \ {h} : req'[g] = req[g]
    <3>1. CASE FindForRequest(h, u)
      BY <3>1 DEF FindForRequest, Idle
    <3>2. CASE FindForRespond(h, u)
      <4>1. PICK i \in Ids, a \in BOOLEAN :
              req' = [req EXCEPT ![h] = [Idle EXCEPT !.user = u, !.pc = "respondByTarget",
                                                     !.id = i, !.accept = a]]
        BY <3>2 DEF FindForRespond
      <4> QED
        BY <4>1 DEF Idle
    <3> QED
      BY <1>1, <3>1, <3>2
  <2> QED
    BY <2>1, <2>2
<1>2. ASSUME NEW h \in Handlers,
             \/ CheckBlockedByTarget(h) \/ CheckViewerBlocked(h) \/ FindPending(h)
             \/ CreateRequest(h) \/ FindRequest(h) \/ Respond(h) \/ Fail(h)
      PROVE  OneInFlight'
  <2>1. /\ req[h].pc # "idle"
        /\ req'[h].pc = "idle" \/ req'[h].user = req[h].user
        /\ \A g \in Handlers \ {h} : req'[g] = req[g]
    BY <1>2 DEF CheckBlockedByTarget, CheckViewerBlocked, AfterBlockCheck, FindPending,
                CreateRequest, FindRequest, Respond, Fail, Goto, Finish, Idle
  <2> QED
    BY <2>1
<1>3. CASE req' = req
  BY <1>3
<1> QED
  BY <1>1, <1>2, <1>3 DEF Next, vars, Block, Unblock

\* What an answer relies on survives every step: only the answer of the other
\* participant could change it, and that one answers this participant's requests.
LEMMA NextUnanswered ==
    ASSUME Clients # "free", TypeOK, Unanswered, [Next]_vars PROVE Unanswered'
<1>1. OneInFlight /\ OneInFlight'
  BY NextOneInFlight DEF OneInFlight, Unanswered
<1>2. ASSUME NEW g \in Handlers, req'[g].pc = "respond"
      PROVE  requests'[req'[g].id].status = "PENDING"
  <2> DEFINE i == req[g].id
  <2>1. i \in Ids /\ req'[g].id = i /\ req'[g].user = req[g].user
    BY <1>2, AnswererRead DEF TypeOK, Request
  <2>2. CASE req[g].pc # "respond"
    BY <1>2, <2>1, <2>2, AnswererRead DEF Pending
  <2>3. CASE req[g].pc = "respond"
    <3>1. Pending(i) /\ requests[i].by # req[g].user /\ requests[i] # NoRow
      BY <2>3 DEF Unanswered, TypeOK, Pending, NoRow
    <3>2. ASSUME NEW h \in Handlers, Respond(h) PROVE requests'[i] = requests[i]
      <4>1. h # g
        BY <1>2, <3>2 DEF Respond, Finish, Idle, TypeOK
      <4>2. req[h].user # req[g].user /\ req[h].user \in Users /\ req[g].user \in Users
        BY <1>1, <2>3, <3>2, <4>1 DEF OneInFlight, Respond, TypeOK
      <4>3. requests[req[h].id].by # req[h].user /\ requests[req[h].id].by \in Users
            /\ requests[i].by \in Users /\ requests[i].by # req[g].user
        BY <2>3, <3>2 DEF Respond, TypeOK
      <4>4. req[h].id # i
        BY <4>2, <4>3 DEF Users
      <4> QED
        BY <2>1, <3>2, <4>4 DEF Respond, TypeOK
    <3>3. ASSUME NEW h \in Handlers, CreateRequest(h) PROVE requests'[i] = requests[i]
      BY <2>1, <3>1, <3>3 DEF CreateRequest, Fresh, TypeOK
    <3>4. requests'[i] = requests[i]
      BY <3>2, <3>3 DEF Next, vars, FindForRequest, FindForRespond, CheckBlockedByTarget,
         CheckViewerBlocked, FindPending, FindRequest, Fail, Block, Unblock
    <3> QED
      BY <2>1, <3>1, <3>4 DEF Pending
  <2> QED
    BY <2>2, <2>3
<1> QED
  BY <1>1, <1>2 DEF Unanswered, OneInFlight, Pending

\* A request is still open when its answer is written, while clients wait.
THEOREM NobodyElseAnswers == ASSUME Clients # "free" PROVE Spec => []Unanswered
<1>1. Init => Unanswered
  BY DEF Init, Unanswered, Idle
<1> QED
  BY <1>1, NextUnanswered, TypeCorrect, PTL DEF Spec

\* Under that discipline an answered request keeps its answer, though :1217
\* updates by id.
LEMMA StepKeepsAnswers ==
    ASSUME TypeOK, Unanswered, [Next]_vars, NEW i \in Ids,
           requests[i].status \in {"ACCEPTED", "DECLINED"}
    PROVE  requests'[i] = requests[i]
<1>1. ASSUME NEW h \in Handlers, Respond(h) PROVE requests'[i] = requests[i]
  BY <1>1 DEF Respond, Unanswered, Pending, TypeOK
<1>2. ASSUME NEW h \in Handlers, CreateRequest(h) PROVE requests'[i] = requests[i]
  BY <1>2 DEF CreateRequest, Fresh, NoRow, TypeOK
<1> QED
  BY <1>1, <1>2 DEF Next, vars, FindForRequest, FindForRespond, CheckBlockedByTarget,
     CheckViewerBlocked, FindPending, FindRequest, Fail, Block, Unblock

\* An answer is final while clients wait for theirs.
THEOREM AnswersStand == ASSUME Clients # "free" PROVE Spec => AnswersAreFinal
<1>1. TypeOK /\ Unanswered /\ [Next]_vars =>
        \A i \in Ids :
          requests[i].status \in {"ACCEPTED", "DECLINED"} => requests'[i] = requests[i]
  BY StepKeepsAnswers
<1> QED
  BY <1>1, TypeCorrect, NobodyElseAnswers, PTL DEF Spec, AnswersAreFinal

\* Visible numbers are always explained by an accepted request: no later answer
\* takes the acceptance back.
THEOREM SharingExplained == ASSUME Clients # "free" PROVE Spec => []SharedMeansAccepted
<1>1. Init => SharedMeansAccepted
  BY DEF Init, SharedMeansAccepted
<1>2. ASSUME TypeOK, Unanswered, SharedMeansAccepted, [Next]_vars
      PROVE  SharedMeansAccepted'
  <2>1. CASE shared
    <3>1. PICK i \in Ids : requests[i].status = "ACCEPTED"
      BY <2>1, <1>2 DEF SharedMeansAccepted
    <3>2. requests'[i] = requests[i]
      BY <1>2, <3>1, StepKeepsAnswers
    <3> QED
      BY <3>1, <3>2 DEF SharedMeansAccepted, Ids
  <2>2. CASE ~shared /\ shared'
    <3>1. PICK h \in Handlers : Respond(h)
      BY <2>2, <1>2 DEF Next, vars, FindForRequest, FindForRespond, CheckBlockedByTarget,
         CheckViewerBlocked, FindPending, CreateRequest, FindRequest, Fail, Block, Unblock
    <3>2. req[h].id \in Ids /\ requests'[req[h].id].status = "ACCEPTED"
      BY <1>2, <2>2, <3>1 DEF Respond, TypeOK, Request, Row
    <3> QED
      BY <3>2 DEF SharedMeansAccepted, Ids
  <2>3. CASE ~shared'
    BY <2>3 DEF SharedMeansAccepted
  <2> QED
    BY <2>1, <2>2, <2>3
<1> QED
  BY <1>1, <1>2, TypeCorrect, NobodyElseAnswers, PTL DEF Spec

-----------------------------------------------------------------------------
(* One open request of each user, and blocks, while clients wait.          *)

\* Nobody else opens a request of the user of a handler that found none: it is the
\* user's only one.
NoneOpen ==
    \A h \in Handlers : req[h].pc = "create" =>
        \A i \in Ids : Pending(i) => requests[i].by # req[h].user

\* A handler is about to create only after it found no open request.
LEMMA CreatorSearched ==
    ASSUME TypeOK, [Next]_vars, NEW h \in Handlers, req'[h].pc = "create"
    PROVE  /\ req'[h].user = req[h].user
           /\ \/ req[h].pc = "create"
              \/ requests' = requests /\ \A i \in Ids : ~Pending(i)
<1> USE DEF TypeOK, Request, Goto, Finish, Idle
<1>1. ASSUME NEW g \in Handlers, FindPending(g)
      PROVE  /\ req'[h].user = req[h].user
             /\ \/ req[h].pc = "create"
                \/ requests' = requests /\ \A i \in Ids : ~Pending(i)
  BY <1>1 DEF FindPending
<1>2. ASSUME req' = req \/ \E g \in Handlers : req'[g].pc # "create" /\ req' = [req EXCEPT ![g] = req'[g]]
      PROVE  req[h].pc = "create" /\ req'[h] = req[h]
  BY <1>2
<1>3. ASSUME NEW g \in Handlers, CheckBlockedByTarget(g) \/ CheckViewerBlocked(g) \/ FindRequest(g)
                                 \/ CreateRequest(g) \/ Respond(g) \/ Fail(g)
      PROVE  req'[g].pc # "create" /\ req' = [req EXCEPT ![g] = req'[g]]
  BY <1>3 DEF CheckBlockedByTarget, CheckViewerBlocked, AfterBlockCheck, FindRequest,
              CreateRequest, Respond, Fail
<1>4. ASSUME NEW g \in Handlers, NEW u \in Users, FindForRequest(g, u) \/ FindForRespond(g, u)
      PROVE  req'[g].pc # "create" /\ req' = [req EXCEPT ![g] = req'[g]]
  BY <1>4 DEF FindForRequest, FindForRespond
<1>5. ASSUME NEW u \in Users, Block(u) \/ Unblock(u) PROVE req' = req
  BY <1>5 DEF Block, Unblock
<1>6. ASSUME UNCHANGED vars PROVE req' = req
  BY <1>6 DEF vars
<1> QED
  BY <1>1, <1>2, <1>3, <1>4, <1>5, <1>6 DEF Next

\* A step opens no request, or its handler's user opens one.
LEMMA Opened ==
    ASSUME TypeOK, [Next]_vars
    PROVE  \/ \A i \in Ids : Pending(i)' => Pending(i) /\ requests'[i].by = requests[i].by
           \/ \E g \in Handlers, j \in Ids :
                 /\ req[g].pc = "create" /\ req'[g].pc = "idle"
                 /\ requests'[j].by = req[g].user
                 /\ \A i \in Ids \ {j} : requests'[i] = requests[i]
<1> USE DEF TypeOK, Row, Pending
<1>1. ASSUME NEW h \in Handlers, CreateRequest(h)
      PROVE  \E g \in Handlers, j \in Ids :
                 /\ req[g].pc = "create" /\ req'[g].pc = "idle"
                 /\ requests'[j].by = req[g].user
                 /\ \A i \in Ids \ {j} : requests'[i] = requests[i]
  BY <1>1 DEF CreateRequest, Finish, Idle
<1>2. ASSUME NEW h \in Handlers, Respond(h)
      PROVE  \A i \in Ids : Pending(i)' => Pending(i) /\ requests'[i].by = requests[i].by
  BY <1>2 DEF Respond
<1> QED
  BY <1>1, <1>2 DEF Next, vars, FindForRequest, FindForRespond, CheckBlockedByTarget,
     CheckViewerBlocked, FindPending, FindRequest, Fail, Block, Unblock

\* Every step keeps both: the only step that opens a request ends its handler, and no
\* other handler is the user's.
LEMMA NextOpen ==
    ASSUME TypeOK, OneInFlight, OneOpenRequestEach, NoneOpen, [Next]_vars
    PROVE  OneOpenRequestEach' /\ NoneOpen'
<1>1. CASE \A i \in Ids : Pending(i)' => Pending(i) /\ requests'[i].by = requests[i].by
  <2>1. OneOpenRequestEach'
    BY <1>1 DEF OneOpenRequestEach
  <2>2. ASSUME NEW h \in Handlers, req'[h].pc = "create", NEW i \in Ids, Pending(i)'
        PROVE  requests'[i].by # req'[h].user
    BY <1>1, <2>2, CreatorSearched DEF NoneOpen
  <2> QED
    BY <2>1, <2>2 DEF NoneOpen
<1>2. CASE \E g \in Handlers, j \in Ids :
              /\ req[g].pc = "create" /\ req'[g].pc = "idle"
              /\ requests'[j].by = req[g].user
              /\ \A i \in Ids \ {j} : requests'[i] = requests[i]
  <2>1. PICK g \in Handlers, j \in Ids :
              /\ req[g].pc = "create" /\ req'[g].pc = "idle"
              /\ requests'[j].by = req[g].user
              /\ \A i \in Ids \ {j} : requests'[i] = requests[i]
    BY <1>2
  <2>2. \A i \in Ids \ {j} : Pending(i)' => Pending(i) /\ requests'[i].by # requests'[j].by
    BY <2>1 DEF NoneOpen, Pending
  <2>3. OneOpenRequestEach'
    BY <2>1, <2>2 DEF OneOpenRequestEach, Pending
  <2>4. ASSUME NEW h \in Handlers, req'[h].pc = "create", NEW i \in Ids, Pending(i)'
        PROVE  requests'[i].by # req'[h].user
    <3>1. CASE req[h].pc = "create"
      <4>1. req'[h].user = req[h].user /\ h # g /\ req[h].user # req[g].user
        BY <2>1, <2>4, <3>1, CreatorSearched DEF OneInFlight
      <4> QED
        BY <2>1, <2>2, <2>4, <3>1, <4>1 DEF NoneOpen, Pending
    <3>2. CASE req[h].pc # "create"
      <4>1. requests' = requests /\ ~Pending(i)
        BY <2>4, <3>2, CreatorSearched
      <4> QED
        BY <2>4, <4>1 DEF Pending
    <3> QED
      BY <3>1, <3>2
  <2> QED
    BY <2>3, <2>4 DEF NoneOpen
<1> QED
  BY <1>1, <1>2, Opened

\* While clients wait for their answers, a user has at most one open request
\* (messaging.service.ts:1151).
THEOREM OneOpenAtATime == ASSUME Clients # "free" PROVE Spec => []OneOpenRequestEach
<1>1. Init => OneOpenRequestEach /\ NoneOpen
  BY DEF Init, OneOpenRequestEach, NoneOpen, Pending, NoRow, Idle
<1>2. Unanswered => OneInFlight
  BY DEF Unanswered, OneInFlight
<1> QED
  BY <1>1, <1>2, NextOpen, TypeCorrect, NobodyElseAnswers, PTL DEF Spec

\* A handler past its block check is of a user who blocks the other one no more.
PastCheck(h) == req[h].pc \in {"findPending", "create", "findRequest", "respond"}

NoOwnBlock ==
    \A h \in Handlers : PastCheck(h) => <<req[h].user, Other(req[h].user)>> \notin blocks

\* Every step keeps it: who has a request in flight blocks nobody meanwhile.
LEMMA NextNoOwnBlock ==
    ASSUME Clients # "free", TypeOK, NoOwnBlock, [Next]_vars PROVE NoOwnBlock'
<1> USE DEF TypeOK, NoOwnBlock, PastCheck, Request
<1>1. ASSUME NEW h \in Handlers, CheckViewerBlocked(h) PROVE NoOwnBlock'
  <2>1. /\ \A g \in Handlers \ {h} : req'[g] = req[g]
        /\ req'[h].pc = "idle" \/ (/\ req'[h].user = req[h].user
                                   /\ <<req[h].user, Other(req[h].user)>> \notin blocks)
    BY <1>1 DEF CheckViewerBlocked, AfterBlockCheck, Goto, Finish, Idle
  <2>2. blocks' = blocks
    BY <1>1 DEF CheckViewerBlocked
  <2> QED
    BY <2>1, <2>2
<1>2. ASSUME NEW h \in Handlers, CheckBlockedByTarget(h) \/ FindPending(h) \/ CreateRequest(h)
                                 \/ FindRequest(h) \/ Respond(h) \/ Fail(h)
      PROVE  NoOwnBlock'
  <2>1. /\ \A g \in Handlers \ {h} : req'[g] = req[g]
        /\ \/ ~PastCheck(h)'
           \/ req'[h].user = req[h].user /\ PastCheck(h)
    BY <1>2 DEF CheckBlockedByTarget, FindPending, CreateRequest, FindRequest, Respond, Fail,
                Responding, Goto, Finish, Idle
  <2>2. blocks' = blocks
    BY <1>2 DEF CheckBlockedByTarget, FindPending, CreateRequest, FindRequest, Respond, Fail
  <2> QED
    BY <2>1, <2>2
<1>3. ASSUME NEW h \in Handlers, NEW u \in Users, FindForRequest(h, u) \/ FindForRespond(h, u)
      PROVE  NoOwnBlock'
  <2>1. /\ \A g \in Handlers \ {h} : req'[g] = req[g]
        /\ ~PastCheck(h)'
    <3>1. CASE FindForRequest(h, u)
      BY <3>1 DEF FindForRequest, Idle
    <3>2. CASE FindForRespond(h, u)
      <4>1. PICK i \in Ids, a \in BOOLEAN :
              req' = [req EXCEPT ![h] = [Idle EXCEPT !.user = u, !.pc = "respondByTarget",
                                                     !.id = i, !.accept = a]]
        BY <3>2 DEF FindForRespond
      <4> QED
        BY <4>1 DEF Idle
    <3> QED
      BY <1>3, <3>1, <3>2
  <2>2. blocks' = blocks
    BY <1>3 DEF FindForRequest, FindForRespond
  <2> QED
    BY <2>1, <2>2
<1>4. ASSUME NEW u \in Users, Block(u) PROVE NoOwnBlock'
  <2>1. ASSUME NEW h \in Handlers, PastCheck(h) PROVE req[h].user # u
    BY <1>4, <2>1, ClientsAssumption DEF Block, MayStart
  <2>2. req' = req /\ blocks' = blocks \cup {<<u, Other(u)>>}
    BY <1>4 DEF Block
  <2> QED
    BY <2>1, <2>2
<1>5. ASSUME NEW u \in Users, Unblock(u) PROVE NoOwnBlock'
  BY <1>5 DEF Unblock
<1>6. CASE UNCHANGED vars
  BY <1>6 DEF vars
<1> QED
  BY <1>1, <1>2, <1>3, <1>4, <1>5, <1>6 DEF Next

\* While clients wait, nobody asks for numbers, or hands them out, in a conversation
\* with a user they block (messaging-block.service.ts:30).
THEOREM NothingSharedWithBlocked ==
    ASSUME Clients # "free" PROVE Spec => NothingWithBlocked
<1>1. Init => NoOwnBlock
  BY DEF Init, NoOwnBlock, PastCheck, Idle
<1>2. NoOwnBlock =>
        \A h \in Handlers :
          (CreateRequest(h) \/ Respond(h)) => <<req[h].user, Other(req[h].user)>> \notin blocks
  BY DEF NoOwnBlock, PastCheck, CreateRequest, Respond
<1> QED
  BY <1>1, <1>2, NextNoOwnBlock, TypeCorrect, PTL DEF Spec, NothingWithBlocked

=============================================================================
