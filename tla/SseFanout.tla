----------------------------- MODULE SseFanout -----------------------------
(***************************************************************************)
(* The event streams of one process (sse.service.ts): a map from users to  *)
(* the set of their streams, one per tab, which requests join and leave    *)
(* while handlers publish events.  The code between two awaits is atomic:  *)
(* a publication, a subscription and a finalizer each run to their end.    *)
(* What a handler publishes when, and what a lost event means to a client, *)
(* is in Inbox.tla.                                                        *)
(***************************************************************************)
EXTENDS Naturals

CONSTANTS
    Users,
    Streams,    \* the requests for a stream that are ever made
    MaxEvents   \* events that are ever published

SseAssumption == MaxEvents \in Nat

VARIABLES
    subscribers,  \* user :> set of streams, for the users with an entry
    stream,       \* per stream: its user and state
    events,       \* number of events published
    got,          \* per stream: the events sent to its client
    due           \* history, per stream: events published to its user while it was open

vars == <<subscribers, stream, events, got, due>>

NoEntries == [u \in {} |-> {}]

Init ==
    /\ subscribers = NoEntries
    /\ stream \in [Streams -> {[user |-> u, pc |-> "new"] : u \in Users}]
    /\ events = 0
    /\ got = [s \in Streams |-> {}]
    /\ due = [s \in Streams |-> {}]

\* subscribers.get(userId) with a default.
SetOf(u) == IF u \in DOMAIN subscribers THEN subscribers[u] ELSE {}

\* The map with the set of user u replaced, and no entry for an empty set.
WithSet(u, set) ==
    [v \in (DOMAIN subscribers \ {u}) \cup {w \in {u} : set # {}} |->
        IF v = u THEN set ELSE subscribers[v]]

Goto(s, step) == stream' = [stream EXCEPT ![s].pc = step]

OpenOf(u) == {s \in Streams : stream[s].user = u /\ stream[s].pc = "open"}

-----------------------------------------------------------------------------

\* subscribe: the subject is in the map before anybody listens to it.
Subscribe(s) ==
    LET u == stream[s].user IN
    /\ stream[s].pc = "new"
    /\ subscribers' = WithSet(u, SetOf(u) \cup {s})
    /\ Goto(s, "made")
    /\ UNCHANGED <<events, got, due>>

\* The framework subscribes to what was returned; the response is being sent.
Open(s) ==
    /\ stream[s].pc = "made"
    /\ Goto(s, "open")
    /\ UNCHANGED <<subscribers, events, got, due>>

\* Mutant of Close: the entry of the user goes with the stream.
CloseDroppingUser(s) ==
    /\ stream[s].pc = "open"
    /\ subscribers' = WithSet(stream[s].user, {})
    /\ Goto(s, "closed")
    /\ UNCHANGED <<events, got, due>>

\* The client is gone: the finalizer takes the subject out of the set the user has by
\* now, and the entry with the last one.
Close(s) ==
    LET u == stream[s].user IN
    /\ stream[s].pc = "open"
    /\ subscribers' = WithSet(u, SetOf(u) \ {s})
    /\ Goto(s, "closed")
    /\ UNCHANGED <<events, got, due>>

\* publish: the streams of the user get the event if somebody listens to them.
Publish(u) ==
    LET e == events + 1 IN
    /\ events < MaxEvents
    /\ events' = e
    /\ got' = [s \in Streams |->
                 IF s \in SetOf(u) /\ stream[s].pc = "open" THEN got[s] \cup {e} ELSE got[s]]
    /\ due' = [s \in Streams |-> IF s \in OpenOf(u) THEN due[s] \cup {e} ELSE due[s]]
    /\ UNCHANGED <<subscribers, stream>>

\* onModuleDestroy, or a crash: the streams end with the process, which starts anew.
Restart ==
    /\ subscribers # NoEntries
    /\ subscribers' = NoEntries
    /\ stream' = [s \in Streams |->
                    IF stream[s].pc \in {"made", "open"}
                      THEN [stream[s] EXCEPT !.pc = "closed"] ELSE stream[s]]
    /\ UNCHANGED <<events, got, due>>

Next ==
    \/ \E s \in Streams : Subscribe(s) \/ Open(s) \/ Close(s)
    \/ \E u \in Users : Publish(u)
    \/ Restart

Spec == Init /\ [][Next]_vars

-----------------------------------------------------------------------------
(* Properties.                                                             *)

\* Every variable has its type; the map has no empty set, so its size is bounded by
\* the streams that are there.
TypeOK ==
    /\ DOMAIN subscribers \subseteq Users
    /\ \A u \in DOMAIN subscribers : subscribers[u] \in (SUBSET Streams) \ {{}}
    /\ stream \in [Streams -> [user : Users, pc : {"new", "made", "open", "closed"}]]
    /\ events \in 0 .. MaxEvents
    /\ got \in [Streams -> SUBSET (1 .. events)] /\ due \in [Streams -> SUBSET (1 .. events)]

\* The map has the streams that were made and are not closed, each under its own user:
\* the sweep every 30 s of subscribers that are dead has nothing to find.
MapHasLiveStreams ==
    \A u \in Users :
        SetOf(u) = {s \in Streams : stream[s].user = u /\ stream[s].pc \in {"made", "open"}}

\* A stream gets exactly the events published to its user while it is open, whichever
\* of the user's other tabs come and go.
NothingMissed == \A s \in Streams : got[s] = due[s]

=============================================================================
