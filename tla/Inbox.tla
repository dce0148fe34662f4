------------------------------- MODULE Inbox -------------------------------
(***************************************************************************)
(* The reading side of one thread.  A sender, who opened the thread, sends *)
(* messages to a viewer; the viewer accepts, replies, lists and marks the  *)
(* messages as read, and polls the unread count, which is cached in Redis. *)
(* Every command on Postgres or Redis is a step, so requests interleave    *)
(* between them; Redis may fail; and the viewer's event stream comes and   *)
(* goes.  Only messages to the viewer count, so only those are kept.      *)
(***************************************************************************)
EXTENDS Naturals, FiniteSets

CONSTANTS
    Handlers,     \* requests in flight
    MaxMessages,  \* bound on the messages ever written; the first is the intro
    MaxFailures   \* bound on the requests that Redis fails

InboxAssumption ==
    /\ IsFiniteSet(Handlers)
    /\ MaxMessages \in Nat \ {0}
    /\ MaxFailures \in Nat

VARIABLES
    active,     \* the thread is ACTIVE, else PENDING
    sent,       \* messages committed
    read,       \* messages with a readAt
    cache,      \* messaging:unread:<viewer>
    req,        \* per handler: next command and what it has read
    connected,  \* the viewer has an event stream open in this process
    missed,     \* history: messages whose send was answered and that an open
                \* stream of the viewer was not told of
    taken,      \* history: createdAt given to messages so far; it is their number
    listed,     \* history: messages returned to the viewer, or about to be
    anchor,     \* history: newest createdAt up to which the viewer marked as read
    late,       \* history: requests whose count was overtaken before it is stored
    excused,    \* history: nothing was due to delete the stale count now cached
    failures    \* history: requests that Redis failed

vars == <<active, sent, read, cache, req, connected, missed,
          taken, listed, anchor, late, excused, failures>>
thread == <<active, sent, read, late>>
stream == <<connected, missed>>
reading == <<taken, listed, anchor>>
counting == <<cache, excused, failures>>

Messages == 1 .. MaxMessages
Intro == 1

Nothing == [count |-> 0, ttl |-> FALSE, there |-> FALSE]

\* away: the viewer had no stream at some time since the message was committed.
Idle == [pc |-> "idle", msg |-> 0, away |-> FALSE, page |-> {}, count |-> 0]

\* countUnreadMessages.
Unread == IF active THEN Cardinality(sent \ read) ELSE 0

Init ==
    /\ active = FALSE
    /\ sent = {Intro}
    /\ read = {}
    /\ cache = Nothing
    /\ req = [h \in Handlers |-> Idle]
    /\ connected = FALSE
    /\ missed = {}
    /\ taken = 1
    /\ listed = {}
    /\ anchor = 0
    /\ late = {}
    /\ excused = FALSE
    /\ failures = 0

Goto(h, step) == req' = [req EXCEPT ![h].pc = step]

Finish(h) == req' = [req EXCEPT ![h] = Idle]

\* The thread changes; counts that were computed before are overtaken.
Becomes(a, s, r) ==
    /\ active' = a
    /\ sent' = s
    /\ read' = r
    /\ late' = IF <<a, s, r>> = <<active, sent, read>>
               THEN late
               ELSE late \cup {h \in Handlers : req[h].pc = "store"}

Wrong == cache.there /\ cache.count # Unread

-----------------------------------------------------------------------------
(* Sending and accepting.                                                  *)

\* The sender's POST finds the thread active; the message gets its createdAt
\* when the transaction begins.
BeginSend(h) ==
    /\ req[h].pc = "idle"
    /\ active /\ taken < MaxMessages
    /\ taken' = taken + 1
    /\ req' = [req EXCEPT ![h].pc = "commit", ![h].msg = taken + 1]
    /\ UNCHANGED <<thread, stream, counting, listed, anchor>>

\* Transactions that overlap may commit in another order than they began.
CommitSend(h) ==
    /\ req[h].pc = "commit"
    /\ Becomes(active, sent \cup {req[h].msg}, read)
    /\ req' = [req EXCEPT ![h].pc = "dropViewers", ![h].away = ~connected]
    /\ UNCHANGED <<stream, reading, counting>>

\* The deletion of the sender's own key, before the events.
DropOwn(h) ==
    /\ req[h].pc = "dropSenders"
    /\ Goto(h, "publish")
    /\ UNCHANGED <<thread, stream, reading, counting>>

Answered(h, told) ==
    /\ missed' = IF told \/ req[h].away THEN missed ELSE missed \cup {req[h].msg}
    /\ Finish(h)

\* Mutant of Publish: the event goes to the author of the message.
PublishToAuthor(h) ==
    /\ req[h].pc = "publish"
    /\ Answered(h, FALSE)
    /\ UNCHANGED <<thread, connected, reading, counting>>

\* message_new to the viewer's stream, if there is one, and the answer to the sender.
Publish(h) ==
    /\ req[h].pc = "publish"
    /\ Answered(h, connected)
    /\ UNCHANGED <<thread, connected, reading, counting>>

\* POST accept: the intro now counts, and no cached count is deleted.
Accept ==
    /\ ~active
    /\ Becomes(TRUE, sent, read)
    /\ UNCHANGED <<cache, failures, req, stream, reading>>
    /\ excused' = (excused \/ Wrong')

\* A message of the viewer accepts a pending request; then both counts are
\* deleted, the sender's first.
Reply(h) ==
    /\ req[h].pc = "idle"
    /\ Becomes(TRUE, sent, read)
    /\ Goto(h, "dropSendersOfReply")
    /\ UNCHANGED <<stream, reading, counting>>

DropOthersOfReply(h) ==
    /\ req[h].pc = "dropSendersOfReply"
    /\ Goto(h, "drop")
    /\ UNCHANGED <<thread, stream, reading, counting>>

-----------------------------------------------------------------------------
(* Reading.                                                                *)

\* A page of the history: messages next to each other, without those newer
\* than the cursor and those beyond the limit.
FetchMessages(h) ==
    /\ req[h].pc = "idle"
    /\ \E lo \in Messages, hi \in Messages :
          LET page == sent \cap (lo .. hi) IN
          /\ page # {}
          /\ listed' = listed \cup page
          /\ IF page \subseteq read
             THEN UNCHANGED req
             ELSE req' = [req EXCEPT ![h].pc = "mark", ![h].page = page \ read]
    /\ UNCHANGED <<thread, stream, taken, anchor, counting>>

\* Mutant of MarkListed: everything unread in the thread, not the page.
MarkThread(h) ==
    /\ req[h].pc = "mark"
    /\ Becomes(active, sent, sent)
    /\ req' = [req EXCEPT ![h] = [Idle EXCEPT !.pc = "drop"]]
    /\ UNCHANGED <<stream, reading, counting>>

\* Mutant of MarkListed: the cached count is left to its TTL.
MarkListedOnly(h) ==
    /\ req[h].pc = "mark"
    /\ Becomes(active, sent, read \cup req[h].page)
    /\ Finish(h)
    /\ UNCHANGED <<stream, reading, counting>>

\* The unread messages of the page, by id.
MarkListed(h) ==
    /\ req[h].pc = "mark"
    /\ Becomes(active, sent, read \cup req[h].page)
    /\ req' = [req EXCEPT ![h] = [Idle EXCEPT !.pc = "drop"]]
    /\ UNCHANGED <<stream, reading, counting>>

\* PATCH read up to a message that the viewer names; without one it is up to
\* the newest.
MarkRead(h, upTo) ==
    /\ req[h].pc = "idle"
    /\ upTo \in sent
    /\ Becomes(active, sent, read \cup {m \in sent : m <= upTo})
    /\ anchor' = IF upTo > anchor THEN upTo ELSE anchor
    /\ Goto(h, "drop")
    /\ UNCHANGED <<stream, taken, listed, counting>>

\* DEL of the viewer's key, by a request that changed the thread.
DropCount(h) ==
    /\ req[h].pc \in {"dropViewers", "drop"}
    /\ cache' = Nothing
    /\ excused' = FALSE
    /\ IF req[h].pc = "drop" THEN Finish(h) ELSE Goto(h, "dropSenders")
    /\ UNCHANGED <<thread, stream, reading, failures>>

\* DEL is rejected: the request fails, although it has changed the thread.
DropFails(h) ==
    /\ req[h].pc \in {"dropViewers", "dropSenders", "dropSendersOfReply", "drop"}
    /\ failures < MaxFailures
    /\ failures' = failures + 1
    /\ excused' = (excused \/ Wrong)
    /\ Finish(h)
    /\ UNCHANGED <<thread, stream, reading, cache>>

-----------------------------------------------------------------------------
(* The unread count.                                                       *)

\* GET: a hit is the answer.
MissCount(h) ==
    /\ req[h].pc = "idle" /\ ~cache.there
    /\ Goto(h, "count")
    /\ UNCHANGED <<thread, stream, reading, counting>>

Count(h) ==
    /\ req[h].pc = "count"
    /\ req' = [req EXCEPT ![h].pc = "store", ![h].count = Unread]
    /\ UNCHANGED <<thread, stream, reading, counting>>

\* Mutant of StoreCount: SET without EX.
StoreCountForever(h) ==
    /\ req[h].pc = "store"
    /\ cache' = [count |-> req[h].count, ttl |-> FALSE, there |-> TRUE]
    /\ excused' = (h \in late)
    /\ late' = late \ {h}
    /\ Finish(h)
    /\ UNCHANGED <<active, sent, read, stream, reading, failures>>

\* SET with EX 5, of a count that may be overtaken by now.
StoreCount(h) ==
    /\ req[h].pc = "store"
    /\ cache' = [count |-> req[h].count, ttl |-> TRUE, there |-> TRUE]
    /\ excused' = (h \in late)
    /\ late' = late \ {h}
    /\ Finish(h)
    /\ UNCHANGED <<active, sent, read, stream, reading, failures>>

\* The five seconds are over.
CountExpires ==
    /\ cache.there /\ cache.ttl
    /\ cache' = Nothing
    /\ excused' = FALSE
    /\ UNCHANGED <<thread, stream, reading, failures, req>>

-----------------------------------------------------------------------------
(* The event stream.                                                       *)

Connect ==
    /\ ~connected
    /\ connected' = TRUE
    /\ UNCHANGED <<thread, missed, reading, counting, req>>

\* What is on its way when the stream closes is not kept for the next one.
Disconnect ==
    /\ connected
    /\ connected' = FALSE
    /\ req' = [h \in Handlers |->
                 IF req[h].pc \in {"dropViewers", "dropSenders", "publish"}
                 THEN [req[h] EXCEPT !.away = TRUE] ELSE req[h]]
    /\ UNCHANGED <<thread, missed, reading, counting>>

-----------------------------------------------------------------------------
Continue(h) ==
    \/ CommitSend(h) \/ DropOwn(h) \/ Publish(h) \/ DropOthersOfReply(h)
    \/ MarkListed(h) \/ DropCount(h) \/ Count(h) \/ StoreCount(h)

Next ==
    \/ Accept \/ CountExpires \/ Connect \/ Disconnect
    \/ \E h \in Handlers :
          \/ Continue(h)
          \/ BeginSend(h) \/ Reply(h) \/ FetchMessages(h) \/ MissCount(h) \/ DropFails(h)
          \/ \E upTo \in Messages : MarkRead(h, upTo)

Spec == Init /\ [][Next]_vars

\* A request that was begun goes on, and Redis expires keys.
FairSpec ==
    /\ Spec
    /\ WF_vars(CountExpires)
    /\ \A h \in Handlers : WF_vars(Continue(h))

-----------------------------------------------------------------------------
TypeOK ==
    /\ active \in BOOLEAN /\ connected \in BOOLEAN /\ excused \in BOOLEAN
    /\ {sent, read, missed, listed} \subseteq SUBSET Messages
    /\ req \in [Handlers -> [pc : {"idle", "commit", "dropViewers", "dropSenders", "publish",
                                   "dropSendersOfReply", "mark", "drop", "count", "store"},
                             msg : 0 .. MaxMessages, away : BOOLEAN, page : SUBSET Messages,
                             count : 0 .. MaxMessages]]
    /\ cache \in [count : 0 .. MaxMessages, ttl : BOOLEAN, there : BOOLEAN]
    /\ taken \in Messages
    /\ anchor \in 0 .. MaxMessages
    /\ late \subseteq Handlers
    /\ failures \in Nat

\* A cached count is wrong only while a request that changed the thread is
\* still to delete it, or when nothing was going to: it was computed before a
\* change and stored after it, the thread was accepted by POST accept, or the
\* deletion failed.
WrongCountExplained ==
    Wrong =>
        \/ excused
        \/ \E h \in Handlers : req[h].pc \in {"dropViewers", "dropSendersOfReply", "drop"}

\* A message is marked as read only if it was in a page for the viewer, or not
\* newer than one up to which they marked: never because it arrived meanwhile.
ReadMeansListed == read \subseteq listed \cup (1 .. anchor)

\* A message whose send succeeded was announced to a viewer whose stream was
\* open from its commit to its answer.
AnsweredMeansAnnounced == missed = {}

\* When the thread is no longer changed, the count that is polled becomes
\* right for good, whatever was cached by then.
CountCatchesUp == <>[]~Wrong
=============================================================================
