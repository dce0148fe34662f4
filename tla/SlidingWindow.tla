--------------------------- MODULE SlidingWindow ---------------------------
(***************************************************************************)
(* The two limits kept as a sorted set of times in Redis: messages of one  *)
(* user (assertMessageSendRate in messaging-rate-limit.service.ts), which  *)
(* adds itself before it counts and leaves when refused, and requests from *)
(* one address (auth-ip-rate-limit.interceptor.ts), which counts before it *)
(* adds itself.  Requests interleave between their commands and die.       *)
(* Time ticks; a window is Window ticks and a request takes at most Life.  *)
(* The key's TTL, renewed by every request that is admitted, is not        *)
(* shorter than the window: the end of the key removes what the next       *)
(* request would trim, and is left out.                                    *)
(***************************************************************************)
EXTENDS Integers, FiniteSets

CONSTANTS
    Requests,   \* the requests that are ever made
    Max,        \* MSG_PER_MINUTE, MAX_PER_WINDOW
    Window,     \* MSG_WINDOW_MS, WINDOW_MS, in ticks
    Life        \* ticks a request takes at most

WindowAssumption ==
    /\ IsFiniteSet(Requests)
    /\ Max \in Nat \ {0}
    /\ Window \in Nat /\ Life \in Nat /\ Life < Window

VARIABLES
    limiter,    \* which of the two: "send" or "auth"
    pc,         \* per request: its step
    age,        \* per request: ticks since its Date.now(), at most Old
    entries,    \* the sorted set: the requests that have a member in it
    met         \* history: the requests that were between their count and their
                \* last command to the set while another one was

vars == <<limiter, pc, age, entries, met>>

Old == 2 * Window

Init ==
    /\ limiter \in {"send", "auth"}
    /\ pc = [r \in Requests |-> "idle"]
    /\ age = [r \in Requests |-> 0]
    /\ entries = {}
    /\ met = {}

Goto(r, step) == pc' = [pc EXCEPT ![r] = step]

InFlight == {r \in Requests : pc[r] \in {"add", "trim", "count", "remove"}}

\* Steps of a request whose effect on the set and on the count are apart.
Racing ==
    {r \in Requests : pc[r] \in IF limiter = "send" THEN {"trim", "count", "remove"} ELSE {"add"}}

\* Request r joins the requests that race.
Meets(r) == met' = IF Racing = {} THEN met ELSE met \cup Racing \cup {r}

-----------------------------------------------------------------------------

\* Date.now(); age 0 is now.
Start(r) ==
    /\ pc[r] = "idle"
    /\ Goto(r, IF limiter = "send" THEN "add" ELSE "trim")
    /\ UNCHANGED <<limiter, age, entries, met>>

\* ZADD.  The message goes on to trim; the request from an address is admitted
\* after its PEXPIRE.
Add(r) ==
    /\ pc[r] = "add"
    /\ entries' = entries \cup {r}
    /\ IF limiter = "send"
         THEN Goto(r, "trim") /\ Meets(r)
         ELSE Goto(r, "admitted") /\ UNCHANGED met
    /\ UNCHANGED <<limiter, age>>

\* ZREMRANGEBYSCORE: members a window older than the time of the request.
Trim(r) ==
    /\ pc[r] = "trim"
    /\ entries' = {q \in entries : age[q] - age[r] < Window}
    /\ Goto(r, "count")
    /\ UNCHANGED <<limiter, age, met>>

\* ZCARD and the comparison; the message also renews the TTL.
Count(r) ==
    LET n == Cardinality(entries) IN
    /\ pc[r] = "count"
    /\ IF limiter = "send"
         THEN Goto(r, IF n > Max THEN "remove" ELSE "admitted") /\ UNCHANGED met
         ELSE IF n >= Max
           THEN Goto(r, "refused") /\ UNCHANGED met
           ELSE Goto(r, "add") /\ Meets(r)
    /\ UNCHANGED <<limiter, age, entries>>

\* Mutant of Remove: a refused message stays in the set.
RemoveNothing(r) ==
    /\ pc[r] = "remove"
    /\ Goto(r, "refused")
    /\ UNCHANGED <<limiter, age, entries, met>>

\* ZREM of the own member, 429.
Remove(r) ==
    /\ pc[r] = "remove"
    /\ entries' = entries \ {r}
    /\ Goto(r, "refused")
    /\ UNCHANGED <<limiter, age, met>>

\* The process dies, or Redis fails: a member that was added stays.
Die(r) ==
    /\ r \in InFlight
    /\ Goto(r, "dead")
    /\ UNCHANGED <<limiter, age, entries, met>>

\* Time passes; a request in flight is never older than Life.
Tick ==
    /\ \A r \in InFlight : age[r] < Life
    /\ age' = [r \in Requests |->
                 IF pc[r] # "idle" /\ age[r] < Old THEN age[r] + 1 ELSE age[r]]
    /\ UNCHANGED <<limiter, pc, entries, met>>

Next ==
    \/ \E r \in Requests :
          Start(r) \/ Add(r) \/ Trim(r) \/ Count(r) \/ Remove(r) \/ Die(r)
    \/ Tick

Spec == Init /\ [][Next]_vars

-----------------------------------------------------------------------------
(* Properties.                                                             *)

Steps == {"idle", "add", "trim", "count", "remove", "admitted", "refused", "dead"}

\* Every variable has its type; who is admitted was added, who is refused is not
\* in the set.
TypeOK ==
    /\ limiter \in {"send", "auth"}
    /\ pc \in [Requests -> Steps]
    /\ age \in [Requests -> 0 .. Old]
    /\ entries \subseteq Requests /\ met \subseteq Requests
    /\ \A r \in Requests : pc[r] = "refused" => r \notin entries

\* The admitted requests of a window, less what a request takes, that begins with r.
AdmittedFrom(r) ==
    {q \in Requests : pc[q] = "admitted" /\ age[r] - age[q] \in 0 .. Window - Life - 1}

\* No window lets in more than Max messages, however they race: a message is in
\* the set before it counts.  Requests from an address can pass together when
\* they meet between the count and the addition, and only then.
WithinLimit ==
    \A r \in Requests :
        pc[r] = "admitted" /\ age[r] < Old =>
            Cardinality(IF limiter = "send" THEN AdmittedFrom(r)
                        ELSE AdmittedFrom(r) \ met) <= Max

\* A request that met no other is refused only if Max of those within a window
\* of it were admitted, or died after they were added: refused ones never count.
RefusedWhenFull ==
    \A r \in Requests \ met :
        pc[r] = "refused" /\ age[r] < Window =>
            Cardinality({q \in Requests : /\ pc[q] \in {"admitted", "dead"}
                                          /\ age[q] - age[r] < Window}) >= Max

=============================================================================
