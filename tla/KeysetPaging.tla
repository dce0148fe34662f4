---------------------------- MODULE KeysetPaging ----------------------------
(***************************************************************************)
(* A client walks one of the API's lists page by page while the rows       *)
(* underneath change: threads and requests of the inbox, the history of a  *)
(* thread, the two browse tabs (flats also by move-in date), and the admin *)
(* queues.  Every list asks for limit + 1 rows beyond a cursor made of the *)
(* sort key and the id of the last row returned.  Which list is walked is  *)
(* chosen at the start.                                                    *)
(***************************************************************************)
EXTENDS Naturals, FiniteSets

CONSTANTS
    Ids,     \* ids of the rows; their order is that of the database
    Times,   \* values of the sort key
    Limits   \* numbers of rows a client may ask for

PagingAssumption ==
    /\ IsFiniteSet(Ids) /\ Ids \subseteq Nat
    /\ Times \subseteq Nat
    /\ Limits \subseteq Nat \ {0}

VARIABLES
    list,    \* which list is walked
    row,     \* per id: the row, as far as the list depends on it
    walk,    \* "idle", "ready" to ask for a page, "building" one, or "done"
    cursor,  \* nextCursor of the last page
    more,    \* hasMore of the last page
    todo,    \* rows of the fetched page whose summary is still to be built
    shown,   \* rows returned in this walk
    kept,    \* history: rows listed when the walk began and not changed since
    repeated \* history: rows of kept that were returned twice

vars == <<list, row, walk, cursor, more, todo, shown, kept, repeated>>

Lists == {"messages", "threads", "requests", "flats", "soonest", "flatmates", "reports", "reviews"}

NoCursor == [at |-> 0, id |-> 0, none |-> TRUE]
Cursor(r) == [at |-> row[r].at, id |-> r, none |-> FALSE]

\* fits: the row passes the list's where clause.  hidden: its summary is null,
\* because the other user is gone or one of the two has blocked the other.
Rows == [exists : BOOLEAN, at : Times, fits : BOOLEAN, hidden : BOOLEAN]

\* What can change under a walk.  A message neither leaves its thread nor
\* changes its time; a thread moves with each message, a flat with its
\* move-in date; only inbox summaries are dropped after the query.
KeyMoves == list \in {"threads", "soonest"}
Leaves == list # "messages"
Summarised == list \in {"threads", "requests"}

OldestFirst == list \in {"soonest", "reports", "reviews"}

\* orderBy: the sort key, then the id, both ascending or both descending.
Before(r, s) ==
    IF OldestFirst
    THEN row[r].at < row[s].at \/ (row[r].at = row[s].at /\ r < s)
    ELSE row[r].at > row[s].at \/ (row[r].at = row[s].at /\ r > s)

-----------------------------------------------------------------------------
(* The cursor conditions, one per list.                                    *)

\* The history's cursor is an id; the message's time is read again.
MessageAfter(c, r) ==
    \/ row[r].at < row[c.id].at
    \/ row[r].at = row[c.id].at /\ r < c.id

\* Mutant of ThreadAfter: the last row of a page opens the next one.
ThreadAfterOrAt(c, r) == row[r].at < c.at \/ (row[r].at = c.at /\ r <= c.id)

ThreadAfter(c, r) == row[r].at < c.at \/ (row[r].at = c.at /\ r < c.id)

RequestAfter(c, r) == row[r].at < c.at \/ (row[r].at = c.at /\ r < c.id)

FlatAfter(c, r) ==
    IF list = "flats"
    THEN row[r].at < c.at \/ (row[r].at = c.at /\ r < c.id)
    ELSE row[r].at > c.at \/ (row[r].at = c.at /\ r > c.id)

FlatmateAfter(c, r) == row[r].at < c.at \/ (row[r].at = c.at /\ r < c.id)

ReportAfter(c, r) == row[r].at > c.at \/ (row[r].at = c.at /\ r > c.id)

ReviewAfter(c, r) == row[r].at > c.at \/ (row[r].at = c.at /\ r > c.id)

After(c, r) ==
    \/ c.none
    \/ list = "messages" /\ MessageAfter(c, r)
    \/ list = "threads" /\ ThreadAfter(c, r)
    \/ list = "requests" /\ RequestAfter(c, r)
    \/ list \in {"flats", "soonest"} /\ FlatAfter(c, r)
    \/ list = "flatmates" /\ FlatmateAfter(c, r)
    \/ list = "reports" /\ ReportAfter(c, r)
    \/ list = "reviews" /\ ReviewAfter(c, r)

Listed(r) == row[r].exists /\ row[r].fits

Matching == {r \in Ids : Listed(r) /\ After(cursor, r)}

-----------------------------------------------------------------------------
Init ==
    /\ list \in Lists
    /\ row \in [Ids -> {x \in Rows : (Leaves \/ x.fits) /\ (Summarised \/ ~x.hidden)}]
    /\ walk = "idle"
    /\ cursor = NoCursor
    /\ more = FALSE
    /\ todo = {}
    /\ shown = {}
    /\ kept = {}
    /\ repeated = {}

\* The client asks for the first page.
Start ==
    /\ walk = "idle"
    /\ walk' = "ready"
    /\ kept' = {r \in Ids : Listed(r) /\ ~row[r].hidden}
    /\ UNCHANGED <<list, row, cursor, more, todo, shown, repeated>>

\* findMany with take: limit + 1; slice is what is left without the extra row.
Sliced(slice, limit) ==
    /\ \A r \in slice : \A s \in Matching \ slice : Before(r, s)
    /\ \/ slice = Matching /\ Cardinality(slice) <= limit
       \/ slice # Matching /\ Cardinality(slice) = limit

LastOf(slice, r) == r \in slice /\ \A s \in slice \ {r} : Before(s, r)

\* hasMore and nextCursor of the page.
Advance(slice) ==
    IF slice = Matching
    THEN more' = FALSE /\ UNCHANGED cursor
    ELSE more' = TRUE /\ \E r \in slice : LastOf(slice, r) /\ cursor' = Cursor(r)

Return(rows) ==
    /\ shown' = shown \cup rows
    /\ repeated' = repeated \cup (rows \cap shown \cap kept)

\* A page whose rows are returned as the one query finds them.
PageOf(limit) ==
    /\ walk = "ready"
    /\ \E slice \in SUBSET Matching :
          /\ Sliced(slice, limit)
          /\ Advance(slice)
          /\ Return(slice)
    /\ walk' = IF more' THEN "ready" ELSE "done"
    /\ UNCHANGED <<list, row, todo, kept>>

\* The query of an inbox page; the summaries are built afterwards.
FetchOf(limit) ==
    /\ walk = "ready"
    /\ \E slice \in SUBSET Matching :
          /\ Sliced(slice, limit)
          /\ Advance(slice)
          /\ todo' = slice
    /\ walk' = "building"
    /\ UNCHANGED <<list, row, shown, kept, repeated>>

MessagePage(limit) == list = "messages" /\ PageOf(limit)

FlatPage(limit) == list \in {"flats", "soonest"} /\ PageOf(limit)

FlatmatePage(limit) == list = "flatmates" /\ PageOf(limit)

ReportPage(limit) == list = "reports" /\ PageOf(limit)

ReviewPage(limit) == list = "reviews" /\ PageOf(limit)

ThreadPage(limit) == list = "threads" /\ FetchOf(limit)

RequestPage(limit) == list = "requests" /\ FetchOf(limit)

\* buildConversationSummary reads the blocks and counts the unread messages;
\* a null summary is left out of the page.
Summarise(r) ==
    /\ walk = "building" /\ r \in todo
    /\ todo' = todo \ {r}
    /\ Return({r} \ {s \in Ids : row[s].hidden})
    /\ UNCHANGED <<list, row, walk, cursor, more, kept>>

AnswerPage ==
    /\ walk = "building" /\ todo = {}
    /\ walk' = IF more THEN "ready" ELSE "done"
    /\ UNCHANGED <<list, row, cursor, more, todo, shown, kept, repeated>>

-----------------------------------------------------------------------------
(* What others do meanwhile.                                               *)

Change(r, x) ==
    /\ row' = [row EXCEPT ![r] = x]
    /\ kept' = kept \ {r}
    /\ UNCHANGED <<list, walk, cursor, more, todo, shown, repeated>>

\* A row is committed; its time was taken before, so it may not be the newest.
Arrive(r, t) ==
    /\ ~row[r].exists
    /\ Change(r, [exists |-> TRUE, at |-> t, fits |-> TRUE, hidden |-> FALSE])

\* A message moves a thread, and an edit a flat: to another time in either
\* direction, as two sends may commit in the order opposite to their times.
Move(r, t) ==
    /\ KeyMoves /\ row[r].exists
    /\ t # row[r].at
    /\ Change(r, [row[r] EXCEPT !.at = t])

\* The row stops matching the where clause, or matches again.
Refile(r) ==
    /\ Leaves /\ row[r].exists
    /\ Change(r, [row[r] EXCEPT !.fits = ~@])

\* A block or a deletion hides the other user of a thread; an unblock shows them.
Hide(r) ==
    /\ Summarised /\ row[r].exists
    /\ Change(r, [row[r] EXCEPT !.hidden = ~@])

Next ==
    \/ Start \/ AnswerPage
    \/ \E limit \in Limits :
          \/ MessagePage(limit) \/ FlatPage(limit) \/ FlatmatePage(limit)
          \/ ReportPage(limit) \/ ReviewPage(limit)
          \/ ThreadPage(limit) \/ RequestPage(limit)
    \/ \E r \in Ids : Summarise(r) \/ Refile(r) \/ Hide(r)
    \/ \E r \in Ids, t \in Times : Arrive(r, t) \/ Move(r, t)

Spec == Init /\ [][Next]_vars

-----------------------------------------------------------------------------
TypeOK ==
    /\ list \in Lists
    /\ row \in [Ids -> Rows]
    /\ walk \in {"idle", "ready", "building", "done"}
    /\ cursor \in [at : Times \cup {0}, id : Ids \cup {0}, none : BOOLEAN]
    /\ more \in BOOLEAN
    /\ {todo, shown, kept, repeated} \subseteq SUBSET Ids
    /\ walk = "ready" => todo = {}

\* A row that keeps its place during the walk is returned at most once,
\* whatever is inserted, moved or removed around it, also among rows of one
\* millisecond.
NoRepeats == repeated \cap kept = {}

\* When the walk is over, every row that was listed from its first request to
\* its last has been returned.
NothingSkipped == walk = "done" => kept \subseteq shown
=============================================================================
