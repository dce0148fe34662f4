---------------------------- MODULE MCSharedRows ----------------------------
(***************************************************************************)
(* What readers and writers of shared rows see, for TLC: RowEdits,         *)
(* KeysetPaging, PublicView, ReportFiling and SseFanout.  They share no    *)
(* state, so a behaviour runs one of them while the others stay at their   *)
(* first state: "part" says which.                                         *)
(***************************************************************************)
EXTENDS RowEdits, TLC

CONSTANTS
    Ids, Times, Limits,                     \* KeysetPaging
    Viewers,                                \* PublicView
    Handlers, Topics, Reports,              \* ReportFiling
    Users, Streams, MaxEvents               \* SseFanout

VARIABLES
    part,
    list, pageRow, walk, cursor, more, todo, shown, kept, repeated,
    bars, viewReq,
    user, ban, reportRow, filingReq,
    subscribers, stream, events, got, due

pages == <<list, pageRow, walk, cursor, more, todo, shown, kept, repeated>>
view == <<bars, viewReq>>
filing == <<user, ban, reportRow, filingReq>>
sse == <<subscribers, stream, events, got, due>>

Pages == INSTANCE KeysetPaging WITH row <- pageRow
View == INSTANCE PublicView WITH Requests <- Viewers, req <- viewReq
Filing == INSTANCE ReportFiling WITH Ids <- Reports, row <- reportRow, req <- filingReq
Sse == INSTANCE SseFanout

ASSUME PartsAssumption == Pages!PagingAssumption /\ Sse!SseAssumption

\* One first state for each part that does not run.
PartsInit ==
    /\ part \in {"edits", "pages", "view", "filing", "sse"}
    /\ Init /\ Filing!Init
    /\ View!Init
    /\ part # "view" => bars = {}
    /\ Sse!Init
    /\ part # "sse" => \A s \in Streams : stream[s].user = CHOOSE u \in Users : TRUE
    /\ Pages!Init
    /\ part # "pages" =>
          /\ list = "messages"
          /\ pageRow = [i \in Ids |-> CHOOSE x \in Pages!Rows : x.fits /\ ~x.hidden]

PartsNext ==
    \/ part = "edits" /\ Next /\ UNCHANGED <<part, pages, view, filing, sse>>
    \/ part = "pages" /\ Pages!Next /\ UNCHANGED <<part, vars, view, filing, sse>>
    \/ part = "view" /\ View!Next /\ UNCHANGED <<part, vars, pages, filing, sse>>
    \/ part = "filing" /\ Filing!Next /\ UNCHANGED <<part, vars, pages, view, sse>>
    \/ part = "sse" /\ Sse!Next /\ UNCHANGED <<part, vars, pages, view, filing>>

PartsSpec == PartsInit /\ [][PartsNext]_<<part, vars, pages, view, filing, sse>>

\* Handlers, edits and three of the streams are interchangeable; sound for safety.
Symmetry == Permutations(Handlers)

\* A walk through a list returns every row that keeps its place, once: nothing is
\* returned twice and nothing skipped but what moved, arrived or left on the way
\* (the cursor queries of messaging, browse and admin).
PagesExact == Pages!TypeOK /\ Pages!NoRepeats /\ Pages!NothingSkipped

\* A page is shown only if no reason to hide it held all through the request, and
\* hidden only for a reason of its kind that held at some time during it
\* (getPublicListing, getPublicProfile).
ShownUnlessBarred == View!TypeOK /\ View!ShownWasFree /\ View!HiddenForReason

\* Two reports of one topic stay PENDING only when their requests met between the
\* search and the commit, and a ban leaves PENDING only those whose request found
\* the user before it (createReport, patchReport, the ban).
ReportsSettled == Filing!TypeOK /\ Filing!DuplicatesMet /\ Filing!BanClosesReports

\* The map has the streams that were made and are not closed, under their own users,
\* and an open stream gets exactly what is published to its user (sse.service.ts).
StreamsServed == Sse!TypeOK /\ Sse!MapHasLiveStreams /\ Sse!NothingMissed

=============================================================================
