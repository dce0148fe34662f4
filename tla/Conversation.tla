--------------------------- MODULE Conversation ---------------------------
(***************************************************************************)
(* The conversation row of one pair of users and the requests that race on *)
(* it: POST /conversations, accept, reject, POST messages, POST /blocks,   *)
(* POST /reports, DELETE /blocks, and the nightly archive job.             *)
(*                                                                         *)
(* Every await on the database is a step of its own, so a handler acts on  *)
(* what it read some steps ago.  A transaction, and an updateMany with a   *)
(* status filter, is one step: Postgres takes the row lock and evaluates   *)
(* the filter again on the committed row.                                  *)
(***************************************************************************)
EXTENDS Naturals, Pair

CONSTANT MaxEarly   \* the count of messages before acceptance saturates here

ASSUME MaxEarlyAssumption == MaxEarly \in Nat \ {0, 1}

VARIABLES
    conv,     \* the Conversation row; status "NONE" when there is no row
    blocks,   \* Block rows, as pairs <<blocker, blocked>>
    req,      \* per handler: whose request, next step, step after the block check
    acked,    \* history: blocks whose POST was answered with success
    early,    \* history: messages of each user while the current request is PENDING
    ignored   \* history: the current request has been waiting for 30 days

vars == <<conv, blocks, req, acked, early, ignored>>

Statuses == {"NONE", "PENDING", "ACTIVE", "REJECTED", "ARCHIVED"}

Commits == {"accept", "reject", "reply", "post", "insert", "reopen"}

\* What may follow the block check; "idle" stands for a refusal.
AfterCheck == {"idle", "createFind", "accept", "reject", "reply", "post"}

Steps == {"idle", "byTarget", "byViewer", "createFind", "acceptFind", "rejectFind",
          "sendFind", "blockFind", "blockInsert", "sweep", "report"} \cup Commits

\* overdue: createdAt is more than 30 days ago; a reopened row keeps its createdAt.
Row == [status : Statuses, initiator : Users \cup {Nobody}, accepted : BOOLEAN,
        rejectedBy : Users \cup {Nobody}, archived : BOOLEAN, overdue : BOOLEAN]

NoRow == [status |-> "NONE", initiator |-> Nobody, accepted |-> FALSE,
          rejectedBy |-> Nobody, archived |-> FALSE, overdue |-> FALSE]

Idle == [user |-> Nobody, pc |-> "idle", then |-> "idle"]

Init ==
    /\ conv = NoRow
    /\ blocks = {}
    /\ req = [h \in Handlers |-> Idle]
    /\ acked = {}
    /\ early = [u \in Users |-> 0]
    /\ ignored = FALSE

-----------------------------------------------------------------------------
(* Moving a handler through its steps.                                     *)

Goto(h, step) == req' = [req EXCEPT ![h].pc = step]

Finish(h) == req' = [req EXCEPT ![h] = Idle]

\* Run the block check, then go on to commit.
CheckThen(h, step) == req' = [req EXCEPT ![h].pc = "byTarget", ![h].then = step]

Begin(h, u) ==
    /\ req[h].pc = "idle"
    /\ MayStart(u, req)
    /\ \/ req' = [req EXCEPT ![h] = [user |-> u, pc |-> "byTarget", then |-> "createFind"]]
       \/ \E step \in {"acceptFind", "rejectFind", "sendFind", "blockFind", "report"} :
             req' = [req EXCEPT ![h] = [user |-> u, pc |-> step, then |-> "idle"]]
    /\ UNCHANGED <<conv, blocks, acked, early, ignored>>

\* An answer other than success that no variable here decides: recipient gone,
\* rate limit, a pending report, a failed query, a crash of the process.
Fail(h) ==
    /\ req[h].pc # "idle"
    /\ Finish(h)
    /\ UNCHANGED <<conv, blocks, acked, early, ignored>>

-----------------------------------------------------------------------------
(* The reads.                                                              *)

\* assertCanMessage, first query.
CheckBlockedByTarget(h) ==
    LET u == req[h].user IN
    /\ req[h].pc = "byTarget"
    /\ IF <<Other(u), u>> \in blocks THEN Finish(h) ELSE Goto(h, "byViewer")
    /\ UNCHANGED <<conv, blocks, acked, early, ignored>>

\* assertCanMessage, second query.  sendMessage turns a closed conversation and
\* a waiting initiator away after the block check: its "then" is "idle".
CheckViewerBlocked(h) ==
    LET u == req[h].user IN
    /\ req[h].pc = "byViewer"
    /\ IF <<u, Other(u)>> \in blocks \/ req[h].then = "idle"
       THEN Finish(h)
       ELSE Goto(h, req[h].then)
    /\ UNCHANGED <<conv, blocks, acked, early, ignored>>

\* Mutant of Reopenable: a pending request is reopened.
ReopenableWhilePending(u) ==
    \/ conv.status \in {"ARCHIVED", "PENDING"}
    \/ conv.status = "REJECTED" /\ conv.initiator # u

Reopenable(u) ==
    \/ conv.status = "ARCHIVED"
    \/ conv.status = "REJECTED" /\ conv.initiator # u

FindForCreate(h) ==
    /\ req[h].pc = "createFind"
    /\ CASE conv.status = "NONE" -> Goto(h, "insert")
         [] Reopenable(req[h].user) -> Goto(h, "reopen")
         [] OTHER -> Finish(h)
    /\ UNCHANGED <<conv, blocks, acked, early, ignored>>

\* Mutant of FindForDecision: the initiator may decide too.
FindForDecisionByAnyone(h, find, commit) ==
    /\ req[h].pc = find
    /\ IF conv.status = "PENDING" THEN CheckThen(h, commit) ELSE Finish(h)
    /\ UNCHANGED <<conv, blocks, acked, early, ignored>>

FindForDecision(h, find, commit) ==
    /\ req[h].pc = find
    /\ IF conv.status = "PENDING" /\ conv.initiator # req[h].user
       THEN CheckThen(h, commit)
       ELSE Finish(h)
    /\ UNCHANGED <<conv, blocks, acked, early, ignored>>

FindForAccept(h) == FindForDecision(h, "acceptFind", "accept")

FindForReject(h) == FindForDecision(h, "rejectFind", "reject")

FindForSend(h) ==
    /\ req[h].pc = "sendFind"
    /\ CASE conv.status = "NONE" -> Finish(h)
         [] conv.status = "ACTIVE" -> CheckThen(h, "post")
         [] conv.status = "PENDING" /\ conv.initiator # req[h].user -> CheckThen(h, "reply")
         [] OTHER -> CheckThen(h, "idle")
    /\ UNCHANGED <<conv, blocks, acked, early, ignored>>

FindBlock(h) ==
    LET u == req[h].user IN
    /\ req[h].pc = "blockFind"
    /\ Goto(h, IF <<u, Other(u)>> \in blocks THEN "sweep" ELSE "blockInsert")
    /\ UNCHANGED <<conv, blocks, acked, early, ignored>>

-----------------------------------------------------------------------------
(* The writes.  Each is the transaction that ends its handler.             *)

\* One more message of u while the request is PENDING.
Early(u) == [early EXCEPT ![u] = IF @ < MaxEarly THEN @ + 1 ELSE @]

\* The intro of u opens the episode.
Intro(u) == [w \in Users |-> IF w = u THEN 1 ELSE 0]

\* participants are unique: the loser of two inserts gets a 409.
InsertConversation(h) ==
    LET u == req[h].user IN
    /\ req[h].pc = "insert"
    /\ IF conv.status = "NONE"
       THEN /\ conv' = [NoRow EXCEPT !.status = "PENDING", !.initiator = u]
            /\ early' = Intro(u)
            /\ ignored' = FALSE
       ELSE UNCHANGED <<conv, early, ignored>>
    /\ Finish(h)
    /\ UNCHANGED <<blocks, acked>>

\* The update is by id: it does not look at the status again.
ReopenedRow(u) ==
    [conv EXCEPT !.status = "PENDING", !.initiator = u, !.accepted = FALSE,
                 !.rejectedBy = Nobody, !.archived = FALSE]

ReopenConversation(h) ==
    LET u == req[h].user IN
    /\ req[h].pc = "reopen"
    /\ conv' = ReopenedRow(u)
    /\ early' = IF conv.status = "PENDING" THEN Early(u) ELSE Intro(u)
    /\ ignored' = FALSE
    /\ Finish(h)
    /\ UNCHANGED <<blocks, acked>>

AcceptedRow ==
    IF conv.status = "PENDING"
    THEN [conv EXCEPT !.status = "ACTIVE", !.accepted = TRUE]
    ELSE conv

\* acceptConversationRequest, and sendMessage by the recipient: the message of
\* an implicit accept is rolled back with the update when the count is not 1.
CommitAccept(h) ==
    /\ req[h].pc \in {"accept", "reply"}
    /\ conv' = AcceptedRow
    /\ Finish(h)
    /\ UNCHANGED <<blocks, acked, early, ignored>>

RejectedRow(u) ==
    IF conv.status = "PENDING"
    THEN [conv EXCEPT !.status = "REJECTED", !.rejectedBy = u]
    ELSE conv

CommitReject(h) ==
    /\ req[h].pc = "reject"
    /\ conv' = RejectedRow(req[h].user)
    /\ Finish(h)
    /\ UNCHANGED <<blocks, acked, early, ignored>>

\* sendMessage on a conversation it saw ACTIVE: no status filter.
CommitPost(h) ==
    /\ req[h].pc = "post"
    /\ early' = IF conv.status = "PENDING" THEN Early(req[h].user) ELSE early
    /\ Finish(h)
    /\ UNCHANGED <<conv, blocks, acked, ignored>>

-----------------------------------------------------------------------------
(* Blocking, reporting, unblocking.                                        *)

\* rejectPendingWhenBlockerReceives: only the blocked user's own request.
SweptRow(u) ==
    IF conv.initiator = Other(u) THEN RejectedRow(u) ELSE conv

\* blocker and blocked are unique: a second insert fails before the sweep.
InsertBlock(h) ==
    LET pair == <<req[h].user, Other(req[h].user)>> IN
    /\ req[h].pc = "blockInsert"
    /\ IF pair \in blocks THEN Finish(h) ELSE Goto(h, "sweep")
    /\ blocks' = blocks \cup {pair}
    /\ UNCHANGED <<conv, acked, early, ignored>>

SweepPending(h) ==
    LET u == req[h].user IN
    /\ req[h].pc = "sweep"
    /\ conv' = SweptRow(u)
    /\ acked' = acked \cup ({<<u, Other(u)>>} \cap blocks)
    /\ Finish(h)
    /\ UNCHANGED <<blocks, early, ignored>>

\* createReport: report, block and sweep are one transaction.
FileReport(h) ==
    LET u == req[h].user IN
    /\ req[h].pc = "report"
    /\ blocks' = blocks \cup {<<u, Other(u)>>}
    /\ conv' = SweptRow(u)
    /\ acked' = acked \cup {<<u, Other(u)>>}
    /\ Finish(h)
    /\ UNCHANGED <<early, ignored>>

Unblock(u) ==
    /\ MayStart(u, req)
    /\ <<u, Other(u)>> \in blocks
    /\ blocks' = blocks \ {<<u, Other(u)>>}
    /\ acked' = acked \ {<<u, Other(u)>>}
    /\ UNCHANGED <<conv, req, early, ignored>>

-----------------------------------------------------------------------------
(* Time and the nightly job.                                               *)

\* No handler lives that long: every request in flight has ended by then.
ThirtyDaysPass ==
    /\ conv.status # "NONE"
    /\ ~conv.overdue \/ (conv.status = "PENDING" /\ ~ignored)
    /\ conv' = [conv EXCEPT !.overdue = TRUE]
    /\ ignored' = (conv.status = "PENDING")
    /\ req' = [h \in Handlers |-> Idle]
    /\ UNCHANGED <<blocks, acked, early>>

\* Mutants of Stale: rejected rows archived as well, the cutoff compared backwards.
StaleOrRejected == conv.status \in {"PENDING", "REJECTED"} /\ conv.overdue

StaleBackwards == conv.status = "PENDING" /\ ~conv.overdue

Stale == conv.status = "PENDING" /\ conv.overdue

ArchiveStalePending ==
    /\ Stale
    /\ conv' = [conv EXCEPT !.status = "ARCHIVED", !.archived = TRUE]
    /\ UNCHANGED <<blocks, req, acked, early, ignored>>

-----------------------------------------------------------------------------

Handle(h) ==
    \/ CheckBlockedByTarget(h)
    \/ CheckViewerBlocked(h)
    \/ FindForCreate(h)
    \/ FindForAccept(h)
    \/ FindForReject(h)
    \/ FindForSend(h)
    \/ FindBlock(h)
    \/ InsertConversation(h)
    \/ ReopenConversation(h)
    \/ CommitAccept(h)
    \/ CommitReject(h)
    \/ CommitPost(h)
    \/ InsertBlock(h)
    \/ SweepPending(h)
    \/ FileReport(h)

Next ==
    \/ \E h \in Handlers, u \in Users : Begin(h, u)
    \/ \E h \in Handlers : Handle(h)
    \/ \E h \in Handlers : Fail(h)
    \/ \E u \in Users : Unblock(u)
    \/ ThirtyDaysPass
    \/ ArchiveStalePending

Spec == Init /\ [][Next]_vars

\* Time passes and the job runs every night; users owe the system nothing.
Fairness == WF_vars(ThirtyDaysPass) /\ WF_vars(ArchiveStalePending)

FairSpec == Spec /\ Fairness

-----------------------------------------------------------------------------
(* Properties.                                                             *)

\* Every variable has its type, and an idle handler carries nothing over.
TypeOK ==
    /\ conv \in Row
    /\ blocks \subseteq Users \X Users
    /\ req \in [Handlers -> [user : Users \cup {Nobody}, pc : Steps, then : AfterCheck]]
    /\ \A h \in Handlers : req[h].pc # "idle" => req[h].user \in Users
    /\ acked \subseteq blocks
    /\ early \in [Users -> 0 .. MaxEarly]
    /\ ignored \in BOOLEAN

\* The marks of the row tell the same story as its status, whatever races:
\* acceptedAt iff ACTIVE, rejectedBy iff REJECTED, archivedAt iff ARCHIVED.
\* Reopening (messaging.service.ts:668, :725) clears what an earlier episode left.
RowConsistent ==
    /\ conv.accepted <=> conv.status = "ACTIVE"
    /\ conv.rejectedBy # Nobody <=> conv.status = "REJECTED"
    /\ conv.archived <=> conv.status = "ARCHIVED"
    /\ conv.initiator = Nobody <=> conv.status = "NONE"

\* A request is decided once: accept, reject, reply, block, report and the
\* archive job move a row only out of PENDING, so the first one wins.
DecidedOnce ==
    [][conv'.status \in {"ACTIVE", "REJECTED", "ARCHIVED"} /\ conv'.status # conv.status
         => conv.status = "PENDING"]_vars

\* Only the recipient accepts or rejects a request: the handler that takes the
\* row out of PENDING is not its initiator's (messaging.service.ts:516, :568).
RecipientDecides ==
    [][\A h \in Handlers :
         (CommitAccept(h) \/ CommitReject(h)) /\ conv' # conv
           => conv.initiator # req[h].user]_vars

\* After a rejection the initiator cannot request again; only the user who was
\* asked can reopen the row, in the other direction (messaging.service.ts:655).
RejectLock ==
    [][conv.status = "REJECTED" /\ conv'.status # "REJECTED"
         => conv'.status = "PENDING" /\ conv'.initiator # conv.initiator]_vars

\* While clients wait for their answers: a pending request comes with the intro of
\* its initiator, and nobody's words reach the thread twice before it is accepted,
\* also where two requests cross or an ACTIVE thread is written to.
OneIntroEach ==
    conv.status = "PENDING" =>
        /\ early[conv.initiator] = 1
        /\ early[Other(conv.initiator)] <= 1

\* Once POST /blocks or POST /reports has answered, no request of the blocked
\* user is pending with the blocker (safety.service.ts:58).
NoPendingFromBlocked ==
    \A u \in Users :
        <<u, Other(u)>> \in acked
          => ~(conv.status = "PENDING" /\ conv.initiator = Other(u))

\* The archive job gives up only on requests that were ignored for 30 days.
ArchiveOnlyIgnored ==
    [][conv.status # "ARCHIVED" /\ conv'.status = "ARCHIVED" => ignored]_vars

\* While a client waits for its answers, nothing it decided on is withdrawn under
\* it: the user has one request in flight; what that request decides is still the
\* other user's; and a row it is about to reopen has not been opened or locked by
\* this same user since it was read.
OneInFlight ==
    \A g, h \in Handlers :
        /\ req[g].pc # "idle" /\ req[h].pc # "idle"
        /\ req[g].user = req[h].user
        => g = h

Deciding(h) ==
    \/ req[h].pc \in {"accept", "reject", "reply"}
    \/ /\ req[h].pc \in {"byTarget", "byViewer"}
       /\ req[h].then \in {"accept", "reject", "reply"}

Undisturbed ==
    /\ OneInFlight
    /\ \A h \in Handlers :
        /\ Deciding(h) => conv.initiator = Other(req[h].user)
        /\ req[h].pc = "reopen" =>
              /\ conv.status \in {"PENDING", "REJECTED", "ARCHIVED"}
              /\ conv.status # "ARCHIVED" => conv.initiator = Other(req[h].user)

\* No request waits for ever: it is decided, or the nightly job archives it.
RequestsExpire == conv.status = "PENDING" ~> conv.status # "PENDING"

\* The row implements the promise of RequestLifecycle.
Promise == INSTANCE RequestLifecycle WITH
    status <- conv.status, initiator <- conv.initiator, rejectedBy <- conv.rejectedBy

KeepsPromise == Promise!LifecycleSpec

=============================================================================
