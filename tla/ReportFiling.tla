--------------------------- MODULE ReportFiling ---------------------------
(***************************************************************************)
(* The rows of reports against one user: filing one (createReport), the    *)
(* admin's decisions on it (patchReport), the ban (banUser) and the        *)
(* deletion of the account by its owner.  Any number of requests file at   *)
(* once.  The block and the sweep of requests that a report brings along   *)
(* are in Conversation.tla, the mail that follows it is in ReportMail.tla. *)
(***************************************************************************)
EXTENDS Naturals, FiniteSets

CONSTANTS
    Handlers,   \* requests to file a report that may be in flight
    Topics,     \* pairs of a reporter and a conversation, or none
    Ids         \* report ids, 1 to the number ever filed

Open == {"PENDING", "REVIEWING"}
Closed == {"RESOLVED", "DISMISSED"}

VARIABLES
    user,       \* the reported user: "here", or deleted and by what
    ban,        \* the admin's ban: "none", or "found" once it found the user
    row,        \* per id: the report, or NoRow
    req         \* per handler: step and topic; history, met: another request
                \* for its topic was between the search and the commit with it

vars == <<user, ban, row, req>>

\* A row; history, met: see req; late: it was committed after the ban.
NoRow == [status |-> "none"]

NoReq == [pc |-> "idle", topic |-> "none", met |-> FALSE]

Init ==
    /\ user = "here"
    /\ ban = "none"
    /\ row = [i \in Ids |-> NoRow]
    /\ req = [h \in Handlers |-> NoReq]

End(h) == req' = [req EXCEPT ![h] = NoReq]

-----------------------------------------------------------------------------

\* The reported user and the conversation are looked up; a deleted user is 404.
FindUser(h) ==
    /\ req[h].pc = "idle"
    /\ user = "here"
    /\ \E t \in Topics : req' = [req EXCEPT ![h] = [NoReq EXCEPT !.pc = "search", !.topic = t]]
    /\ UNCHANGED <<user, ban, row>>

\* Handler h starts to search; it meets the others on their way to the commit.
Search(h, found) ==
    LET met == {g \in Handlers \ {h} : req[g].pc = "commit" /\ req[g].topic = req[h].topic} IN
    /\ req[h].pc = "search"
    /\ req' = IF found
                THEN [req EXCEPT ![h] = NoReq]
                ELSE [g \in Handlers |->
                        IF g = h THEN [req[h] EXCEPT !.pc = "commit", !.met = met # {}]
                        ELSE [req[g] EXCEPT !.met = @ \/ g \in met]]
    /\ UNCHANGED <<user, ban, row>>

\* Rows are numbered in the order of their creation.
NextId == Cardinality({i \in Ids : row[i] # NoRow}) + 1

Filed(topic, statuses) ==
    \E i \in Ids : row[i].status \in statuses /\ row[i].topic = topic

\* Mutant of FindPending: it looks for reports under review.
FindReviewing(h) == Search(h, Filed(req[h].topic, {"REVIEWING"}))

\* A report of the same topic that is PENDING is answered instead.
FindPending(h) == Search(h, Filed(req[h].topic, {"PENDING"}))

\* The transaction: the report is created.
Commit(h) ==
    /\ req[h].pc = "commit"
    /\ LET i == NextId IN
          /\ i \in Ids
          /\ row' = [row EXCEPT ![i] = [status |-> "PENDING", topic |-> req[h].topic,
                        resolved |-> FALSE, met |-> req[h].met, late |-> user = "banned"]]
    /\ End(h)
    /\ UNCHANGED <<user, ban>>

\* A query fails, or the process dies; the transaction fails also when another
\* request has created the same block meanwhile.
Fail(h) ==
    /\ req[h].pc # "idle"
    /\ End(h)
    /\ UNCHANGED <<user, ban, row>>

\* patchReport: any status but PENDING, from any status; the time of resolution
\* is never taken back.
Patch(i) ==
    /\ row[i] # NoRow
    /\ \E status \in {"REVIEWING", "RESOLVED", "DISMISSED"} :
          row' = [row EXCEPT ![i].status = status,
                             ![i].resolved = @ \/ status \in Closed]
    /\ UNCHANGED <<user, ban, req>>

\* banUser finds a user who is not deleted, or answers 404.
FindForBan ==
    /\ ban = "none" /\ user = "here"
    /\ ban' = "found"
    /\ UNCHANGED <<user, row, req>>

\* The transaction of the ban: the user is deleted, whatever happened since, and
\* PENDING reports are resolved.
Ban ==
    /\ ban = "found"
    /\ user' = "banned"
    /\ ban' = "none"
    /\ row' = [i \in Ids |-> IF row[i].status = "PENDING"
                               THEN [row[i] EXCEPT !.status = "RESOLVED", !.resolved = TRUE]
                               ELSE row[i]]
    /\ UNCHANGED req

\* DELETE /users/me leaves the reports as they are.
DeleteAccount ==
    /\ user = "here"
    /\ user' = "deleted"
    /\ UNCHANGED <<ban, row, req>>

Next ==
    \/ \E h \in Handlers : FindUser(h) \/ FindPending(h) \/ Commit(h) \/ Fail(h)
    \/ \E i \in Ids : Patch(i)
    \/ FindForBan \/ Ban \/ DeleteAccount

Spec == Init /\ [][Next]_vars

-----------------------------------------------------------------------------
(* Properties.                                                             *)

Report == [status : Open \cup Closed, topic : Topics, resolved : BOOLEAN,
           met : BOOLEAN, late : BOOLEAN]

\* Every variable has its type; a closed report has its time of resolution.
TypeOK ==
    /\ user \in {"here", "deleted", "banned"} /\ ban \in {"none", "found"}
    /\ row \in [Ids -> Report \cup {NoRow}]
    /\ req \in [Handlers -> [pc : {"idle", "search", "commit"},
                             topic : Topics \cup {"none"}, met : BOOLEAN]]
    /\ \A i \in Ids : row[i].status \in Closed => row[i].resolved

\* API_CONTRACT.md: a report that is PENDING is answered again. Two stay PENDING
\* on a topic only when their requests met between the search and the commit.
DuplicatesMet ==
    \A i, j \in Ids :
        /\ i # j
        /\ row[i].status = "PENDING" /\ row[j].status = "PENDING"
        /\ row[i].topic = row[j].topic
        => row[i].met /\ row[j].met

\* A ban leaves a report PENDING only if its request found the user before.
BanClosesReports ==
    user = "banned" => \A i \in Ids : row[i].status = "PENDING" => row[i].late

=============================================================================
