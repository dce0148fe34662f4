---------------------------- MODULE NumberShare ----------------------------
(***************************************************************************)
(* Phone number sharing in one ACTIVE conversation: requestNumberShare and *)
(* respondNumberShare, with blocks coming and going.  The conversation     *)
(* stays ACTIVE (Conversation.tla); each await is a step.                  *)
(***************************************************************************)
EXTENDS Naturals, Pair

CONSTANT MaxRequests   \* bound on NumberShareRequest rows

ASSUME MaxRequestsAssumption == MaxRequests \in Nat \ {0}

VARIABLES
    shared,     \* Conversation.numbersShared
    requests,   \* NumberShareRequest rows by id; status "NONE" is no row yet
    blocks,     \* Block rows, as pairs <<blocker, blocked>>
    req         \* per handler: user, next step, and what it was asked or has read

vars == <<shared, requests, blocks, req>>

Ids == 1 .. MaxRequests

Row == [status : {"NONE", "PENDING", "ACCEPTED", "DECLINED"}, by : Users \cup {Nobody}]

NoRow == [status |-> "NONE", by |-> Nobody]

\* id, accept: the body of a response; sawShared: numbersShared in the snapshot.
Idle == [user |-> Nobody, pc |-> "idle", id |-> 1, accept |-> FALSE, sawShared |-> FALSE]

Init ==
    /\ shared = FALSE
    /\ requests = [i \in Ids |-> NoRow]
    /\ blocks = {}
    /\ req = [h \in Handlers |-> Idle]

Goto(h, step) == req' = [req EXCEPT ![h].pc = step]

Finish(h) == req' = [req EXCEPT ![h] = Idle]

Responding(h) == req[h].pc \in {"respondByTarget", "respondByViewer", "findRequest", "respond"}

Pending(i) == requests[i].status = "PENDING"

-----------------------------------------------------------------------------
(* Requesting.                                                             *)

\* assertParticipant: the snapshot of the conversation.
FindForRequest(h, u) ==
    /\ req[h].pc = "idle"
    /\ MayStart(u, req)
    /\ req' = [req EXCEPT ![h] = [Idle EXCEPT !.user = u, !.pc = "byTarget",
                                              !.sawShared = shared]]
    /\ UNCHANGED <<shared, requests, blocks>>

\* The numbersShared test comes after the block check, on the snapshot.
AfterBlockCheck(h) ==
    CASE Responding(h) -> Goto(h, "findRequest")
      [] req[h].sawShared -> Finish(h)
      [] OTHER -> Goto(h, "findPending")

\* Mutant of FindPending: only the other participant's open request counts.
FindOthersPending(h) ==
    /\ req[h].pc = "findPending"
    /\ IF \E i \in Ids : Pending(i) /\ requests[i].by # req[h].user
       THEN Finish(h)
       ELSE Goto(h, "create")
    /\ UNCHANGED <<shared, requests, blocks>>

FindPending(h) ==
    /\ req[h].pc = "findPending"
    /\ IF \E i \in Ids : Pending(i) THEN Finish(h) ELSE Goto(h, "create")
    /\ UNCHANGED <<shared, requests, blocks>>

\* Ids are random in the code; which free one is taken does not matter.
Fresh(i) == requests[i] = NoRow /\ \A j \in 1 .. i - 1 : requests[j] # NoRow

CreateRequest(h) ==
    /\ req[h].pc = "create"
    /\ \E i \in Ids :
          /\ Fresh(i)
          /\ requests' = [requests EXCEPT ![i] = [status |-> "PENDING", by |-> req[h].user]]
    /\ Finish(h)
    /\ UNCHANGED <<shared, blocks>>

-----------------------------------------------------------------------------
(* Responding.                                                             *)

FindForRespond(h, u) ==
    /\ req[h].pc = "idle"
    /\ MayStart(u, req)
    /\ \E i \in Ids, accept \in BOOLEAN :
          /\ requests[i] # NoRow
          /\ req' = [req EXCEPT ![h] = [Idle EXCEPT !.user = u, !.pc = "respondByTarget",
                                                    !.id = i, !.accept = accept]]
    /\ UNCHANGED <<shared, requests, blocks>>

\* Mutant of FindRequest: an answer may be given again.
FindAnsweredRequest(h) ==
    /\ req[h].pc = "findRequest"
    /\ IF requests[req[h].id].by # req[h].user THEN Goto(h, "respond") ELSE Finish(h)
    /\ UNCHANGED <<shared, requests, blocks>>

FindRequest(h) ==
    /\ req[h].pc = "findRequest"
    /\ IF Pending(req[h].id) /\ requests[req[h].id].by # req[h].user
       THEN Goto(h, "respond")
       ELSE Finish(h)
    /\ UNCHANGED <<shared, requests, blocks>>

\* Mutant of Respond: a refusal shares the numbers too.
RespondSharing(h) ==
    /\ req[h].pc = "respond"
    /\ requests' = [requests EXCEPT
                      ![req[h].id].status = IF req[h].accept THEN "ACCEPTED" ELSE "DECLINED"]
    /\ shared' = TRUE
    /\ Finish(h)
    /\ UNCHANGED blocks

\* One transaction, both updates by id.
Respond(h) ==
    /\ req[h].pc = "respond"
    /\ requests' = [requests EXCEPT
                      ![req[h].id].status = IF req[h].accept THEN "ACCEPTED" ELSE "DECLINED"]
    /\ shared' = (shared \/ req[h].accept)
    /\ Finish(h)
    /\ UNCHANGED blocks

-----------------------------------------------------------------------------
(* The block check, blocks, failures.                                      *)

CheckBlockedByTarget(h) ==
    LET u == req[h].user IN
    /\ req[h].pc \in {"byTarget", "respondByTarget"}
    /\ IF <<Other(u), u>> \in blocks
       THEN Finish(h)
       ELSE Goto(h, IF Responding(h) THEN "respondByViewer" ELSE "byViewer")
    /\ UNCHANGED <<shared, requests, blocks>>

\* Mutant of CheckViewerBlocked: the first query run twice.
CheckBlockedByTargetAgain(h) ==
    LET u == req[h].user IN
    /\ req[h].pc \in {"byViewer", "respondByViewer"}
    /\ IF <<Other(u), u>> \in blocks THEN Finish(h) ELSE AfterBlockCheck(h)
    /\ UNCHANGED <<shared, requests, blocks>>

CheckViewerBlocked(h) ==
    LET u == req[h].user IN
    /\ req[h].pc \in {"byViewer", "respondByViewer"}
    /\ IF <<u, Other(u)>> \in blocks THEN Finish(h) ELSE AfterBlockCheck(h)
    /\ UNCHANGED <<shared, requests, blocks>>

\* The Block row appears or goes (safety.service.ts; see Conversation.tla).
Block(u) ==
    /\ MayStart(u, req)
    /\ blocks' = blocks \cup {<<u, Other(u)>>}
    /\ UNCHANGED <<shared, requests, req>>

Unblock(u) ==
    /\ MayStart(u, req)
    /\ blocks' = blocks \ {<<u, Other(u)>>}
    /\ UNCHANGED <<shared, requests, req>>

\* A failed query or a crash; also a create beyond MaxRequests.
Fail(h) ==
    /\ req[h].pc # "idle"
    /\ Finish(h)
    /\ UNCHANGED <<shared, requests, blocks>>

Next ==
    \/ \E h \in Handlers, u \in Users : FindForRequest(h, u)
    \/ \E h \in Handlers, u \in Users : FindForRespond(h, u)
    \/ \E h \in Handlers : CheckBlockedByTarget(h)
    \/ \E h \in Handlers : CheckViewerBlocked(h)
    \/ \E h \in Handlers : FindPending(h)
    \/ \E h \in Handlers : CreateRequest(h)
    \/ \E h \in Handlers : FindRequest(h)
    \/ \E h \in Handlers : Respond(h)
    \/ \E h \in Handlers : Fail(h)
    \/ \E u \in Users : Block(u)
    \/ \E u \in Users : Unblock(u)

Spec == Init /\ [][Next]_vars

-----------------------------------------------------------------------------
(* Properties.                                                             *)

Steps == {"idle", "byTarget", "byViewer", "findPending", "create",
          "respondByTarget", "respondByViewer", "findRequest", "respond"}

Request == [user : Users \cup {Nobody}, pc : Steps, id : Ids,
            accept : BOOLEAN, sawShared : BOOLEAN]

\* Every variable has its type, and a handler that may answer a request answers
\* one of the other participant's.
TypeOK ==
    /\ shared \in BOOLEAN
    /\ requests \in [Ids -> Row]
    /\ \A i \in Ids : requests[i].by = Nobody <=> requests[i].status = "NONE"
    /\ blocks \subseteq Users \X Users
    /\ req \in [Handlers -> Request]
    /\ \A h \in Handlers : req[h].pc # "idle" => req[h].user \in Users
    /\ \A h \in Handlers : req[h].pc = "respond" =>
          requests[req[h].id].by \in Users \ {req[h].user}

\* Numbers become visible only in the step that accepts a request, and that step
\* is the other participant's (messaging.service.ts:1209, :1216), whatever races.
ConsentOfBoth ==
    [][shared' /\ ~shared =>
         \E i \in Ids, h \in Handlers :
            /\ requests'[i].status = "ACCEPTED"
            /\ requests[i].by # Nobody /\ Other(requests[i].by) = req[h].user
            /\ req[h].accept /\ req[h].id = i]_vars

\* While a client waits for its answers, nobody else answers the request that its
\* handler is about to answer: the user has one request in flight, and the request
\* is still open at the write (messaging.service.ts:1203 still holds at :1217).
Unanswered ==
    /\ \A g, h \in Handlers :
          /\ req[g].pc # "idle" /\ req[h].pc # "idle"
          /\ req[g].user = req[h].user
          => g = h
    /\ \A h \in Handlers : req[h].pc = "respond" => Pending(req[h].id)

\* An answered request keeps its answer (messaging.service.ts:1203).
AnswersAreFinal ==
    [][\A i \in Ids :
         requests[i].status \in {"ACCEPTED", "DECLINED"} => requests'[i] = requests[i]]_vars

\* Visible numbers are explained by a request that stands accepted.
SharedMeansAccepted == shared => \E i \in Ids : requests[i].status = "ACCEPTED"

\* While clients wait for their answers, a user has at most one open request
\* (messaging.service.ts:1151).
OneOpenRequestEach ==
    \A i, j \in Ids :
        Pending(i) /\ Pending(j) /\ requests[i].by = requests[j].by => i = j

\* While clients wait for their answers, nobody asks for or hands out numbers in a
\* conversation with a user they have blocked themselves, whatever the other side
\* blocks meanwhile (messaging-block.service.ts:30).
NothingWithBlocked ==
    [][\A h \in Handlers :
         (CreateRequest(h) \/ Respond(h)) => <<req[h].user, Other(req[h].user)>> \notin blocks]_vars

=============================================================================
