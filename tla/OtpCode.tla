------------------------------ MODULE OtpCode ------------------------------
(***************************************************************************)
(* The one-time code of one purpose and identifier: otp.service.ts, and    *)
(* how the flows use it (issue, send, record the delivery; verify).  The   *)
(* Redis hash and the set of deliveries are touched one command at a time, *)
(* so any number of requests for the same identifier interleave between    *)
(* the commands; a process may die between two of them.                    *)
(***************************************************************************)
EXTENDS Naturals, FiniteSets

CONSTANTS
    Handlers,     \* requests in flight for this identifier
    MaxAttempts,  \* MAX_VERIFY_ATTEMPTS
    MaxResends,   \* MAX_RESENDS
    HourlyMax,    \* MAX_OTP_REQUESTS_PER_HOUR
    MaxCodes,     \* bound on the codes ever issued
    MaxCrashes    \* bound on the handlers that die between two writes

ASSUME OtpAssumption ==
    /\ IsFiniteSet(Handlers)
    /\ {MaxAttempts, HourlyMax, MaxCodes} \subseteq Nat \ {0}
    /\ {MaxResends, MaxCrashes} \subseteq Nat

VARIABLES
    key,        \* the hash otp:<purpose>:<identifier>
    deliveries, \* entries of ratelimit:otp:... younger than an hour
    req,        \* per handler: next command and what it has read
    issued,     \* history: codes stored so far; the code itself is its number
    guesses,    \* history, per code: wrong guesses compared with it
    accepted,   \* history: codes some verify has accepted
    crashes     \* history: handlers that died between two writes

vars == <<key, deliveries, req, issued, guesses, accepted, crashes>>

Codes == 1 .. MaxCodes
NoCode == 0

\* cool: lastResendAt is less than RESEND_COOLDOWN_MS ago.  ttl: "none" when no
\* EXPIRE was ever done on this key, "fresh" when one was done after the last
\* HSET, "running" when only an older one is ticking.
NoKey == [code |-> NoCode, attempts |-> 0, resends |-> 0, cool |-> FALSE, ttl |-> "none"]

\* A key without fields does not exist; HINCRBY alone makes one without a code.
Exists == key.code # NoCode \/ key.attempts > 0

Idle == [pc |-> "idle", code |-> NoCode, resends |-> 0]

Init ==
    /\ key = NoKey
    /\ deliveries = 0
    /\ req = [h \in Handlers |-> Idle]
    /\ issued = 0
    /\ guesses = [c \in Codes |-> 0]
    /\ accepted = {}
    /\ crashes = 0

Goto(h, step) == req' = [req EXCEPT ![h].pc = step]

Finish(h) == req' = [req EXCEPT ![h] = Idle]

-----------------------------------------------------------------------------
(* Issuing.                                                                *)

\* Mutant of AssertHourlyLimit: one more than the limit.
AssertHourlyLimitOffByOne(h) ==
    /\ req[h].pc = "idle"
    /\ deliveries <= HourlyMax
    /\ Goto(h, "readForIssue")
    /\ UNCHANGED <<key, deliveries, issued, guesses, accepted, crashes>>

\* ZCARD of the last hour's deliveries; at the limit the answer is 429.
AssertHourlyLimit(h) ==
    /\ req[h].pc = "idle"
    /\ deliveries < HourlyMax
    /\ Goto(h, "readForIssue")
    /\ UNCHANGED <<key, deliveries, issued, guesses, accepted, crashes>>

\* HGETALL: cooling down or out of resends answers 429 or 400.  The number of
\* resends to store is computed from this read.
ReadForIssue(h) ==
    /\ req[h].pc = "readForIssue"
    /\ IF key.code # NoCode /\ (key.cool \/ key.resends >= MaxResends)
       THEN Finish(h)
       ELSE req' = [req EXCEPT ![h].pc = "store",
                        ![h].resends = IF key.code # NoCode THEN key.resends + 1 ELSE 0]
    /\ UNCHANGED <<key, deliveries, issued, guesses, accepted, crashes>>

\* HSET of all fields; it leaves the key's TTL alone.
Stored(resends) ==
    [code |-> issued + 1, attempts |-> 0, resends |-> resends, cool |-> TRUE,
     ttl |-> IF key.ttl = "none" THEN "none" ELSE "running"]

\* Mutant of StoreCode: the EXPIRE forgotten.
StoreCodeForever(h) ==
    /\ req[h].pc = "store"
    /\ issued < MaxCodes
    /\ key' = Stored(req[h].resends)
    /\ issued' = issued + 1
    /\ Goto(h, "send")
    /\ UNCHANGED <<deliveries, guesses, accepted, crashes>>

StoreCode(h) ==
    /\ req[h].pc = "store"
    /\ issued < MaxCodes
    /\ key' = Stored(req[h].resends)
    /\ issued' = issued + 1
    /\ Goto(h, "expire")
    /\ UNCHANGED <<deliveries, guesses, accepted, crashes>>

\* EXPIRE; it does nothing when the key is gone.
SetTtl(h) ==
    /\ req[h].pc = "expire"
    /\ key' = IF Exists THEN [key EXCEPT !.ttl = "fresh"] ELSE key
    /\ Goto(h, "send")
    /\ UNCHANGED <<deliveries, issued, guesses, accepted, crashes>>

\* The mail or SMS goes out, or fails and is not recorded.
Send(h) ==
    /\ req[h].pc = "send"
    /\ Goto(h, "record") \/ Finish(h)
    /\ UNCHANGED <<key, deliveries, issued, guesses, accepted, crashes>>

\* recordSuccessfulOtpDelivery.
RecordDelivery(h) ==
    /\ req[h].pc = "record"
    /\ deliveries' = deliveries + 1
    /\ Finish(h)
    /\ UNCHANGED <<key, issued, guesses, accepted, crashes>>

-----------------------------------------------------------------------------
(* Verifying.                                                              *)

\* Mutant of ReadForVerify: one more attempt than the limit.
ReadForVerifyOffByOne(h, right) ==
    /\ req[h].pc = "idle"
    /\ key.code # NoCode
    /\ IF key.attempts > MaxAttempts
       THEN Goto(h, "drop") /\ UNCHANGED guesses
       ELSE /\ req' = [req EXCEPT ![h].pc = IF right THEN "accept" ELSE "count",
                                  ![h].code = key.code]
            /\ guesses' = IF right THEN guesses ELSE [guesses EXCEPT ![key.code] = @ + 1]
    /\ UNCHANGED <<key, deliveries, issued, accepted, crashes>>

\* HGETALL and the comparison, with no await between them.  No code stored:
\* OTP_EXPIRED, and nothing happens.
ReadForVerify(h, right) ==
    /\ req[h].pc = "idle"
    /\ key.code # NoCode
    /\ IF key.attempts >= MaxAttempts
       THEN Goto(h, "drop") /\ UNCHANGED guesses
       ELSE /\ req' = [req EXCEPT ![h].pc = IF right THEN "accept" ELSE "count",
                                  ![h].code = key.code]
            /\ guesses' = IF right THEN guesses ELSE [guesses EXCEPT ![key.code] = @ + 1]
    /\ UNCHANGED <<key, deliveries, issued, accepted, crashes>>

\* Mutant of Accept: the code stays in Redis.
AcceptKeepingKey(h) ==
    /\ req[h].pc = "accept"
    /\ accepted' = accepted \cup {req[h].code}
    /\ Finish(h)
    /\ UNCHANGED <<key, deliveries, issued, guesses, crashes>>

\* DEL, whatever the key holds by now; the verification has succeeded.
Accept(h) ==
    /\ req[h].pc = "accept"
    /\ key' = NoKey
    /\ accepted' = accepted \cup {req[h].code}
    /\ Finish(h)
    /\ UNCHANGED <<deliveries, issued, guesses, crashes>>

\* HINCRBY attempts: a key that is gone comes back with this one field.
CountAttempt(h) ==
    /\ req[h].pc = "count"
    /\ key' = [key EXCEPT !.attempts = @ + 1]
    /\ Goto(h, "readAttempts")
    /\ UNCHANGED <<deliveries, issued, guesses, accepted, crashes>>

\* HGET attempts: INVALID_OTP, or the last attempt was used up.
ReadAttempts(h) ==
    /\ req[h].pc = "readAttempts"
    /\ IF key.attempts >= MaxAttempts THEN Goto(h, "drop") ELSE Finish(h)
    /\ UNCHANGED <<key, deliveries, issued, guesses, accepted, crashes>>

\* DEL: TOO_MANY_ATTEMPTS.
Drop(h) ==
    /\ req[h].pc = "drop"
    /\ key' = NoKey
    /\ Finish(h)
    /\ UNCHANGED <<deliveries, issued, guesses, accepted, crashes>>

-----------------------------------------------------------------------------
(* Account deletion, time, crashes.                                        *)

InvalidateIdentifiers ==
    /\ Exists \/ deliveries > 0
    /\ key' = NoKey
    /\ deliveries' = 0
    /\ UNCHANGED <<req, issued, guesses, accepted, crashes>>

CooldownEnds ==
    /\ key.cool
    /\ key' = [key EXCEPT !.cool = FALSE]
    /\ UNCHANGED <<deliveries, req, issued, guesses, accepted, crashes>>

\* OTP_TTL_SEC is longer than the cooldown that starts with the same HSET.
KeyExpires ==
    /\ key.ttl = "running" \/ (key.ttl = "fresh" /\ ~key.cool)
    /\ key' = NoKey
    /\ UNCHANGED <<deliveries, req, issued, guesses, accepted, crashes>>

\* The oldest delivery is an hour old.
DeliveryAges ==
    /\ deliveries > 0
    /\ deliveries' = deliveries - 1
    /\ UNCHANGED <<key, req, issued, guesses, accepted, crashes>>

\* A command fails or the process dies.  It leaves its mark only where a write is
\* followed by another: a code without a TTL, a guess that is not counted.
Die(h) ==
    /\ req[h].pc # "idle"
    /\ IF req[h].pc \in {"expire", "count"}
       THEN crashes < MaxCrashes /\ crashes' = crashes + 1
       ELSE UNCHANGED crashes
    /\ Finish(h)
    /\ UNCHANGED <<key, deliveries, issued, guesses, accepted>>

Next ==
    \/ \E h \in Handlers :
          \/ AssertHourlyLimit(h) \/ ReadForIssue(h) \/ StoreCode(h) \/ SetTtl(h)
          \/ Send(h) \/ RecordDelivery(h)
          \/ Accept(h) \/ CountAttempt(h) \/ ReadAttempts(h) \/ Drop(h)
          \/ Die(h)
    \/ \E h \in Handlers, right \in BOOLEAN : ReadForVerify(h, right)
    \/ InvalidateIdentifiers
    \/ CooldownEnds
    \/ KeyExpires
    \/ DeliveryAges

Spec == Init /\ [][Next]_vars

-----------------------------------------------------------------------------
(* Properties.                                                             *)

Steps == {"idle", "readForIssue", "store", "expire", "send", "record",
          "accept", "count", "readAttempts", "drop"}

Key == [code : {NoCode} \cup Codes, attempts : Nat, resends : 0 .. MaxResends,
        cool : BOOLEAN, ttl : {"none", "running", "fresh"}]

Request == [pc : Steps, code : {NoCode} \cup Codes, resends : 0 .. MaxResends]

\* A handler that compared a code knows which one.
RequestsOK ==
    /\ req \in [Handlers -> Request]
    /\ \A h \in Handlers :
          /\ req[h].code <= issued
          /\ req[h].pc \in {"accept", "count"} => req[h].code \in Codes

\* There is nothing about codes that were not issued yet.
StoreOK ==
    /\ key \in Key
    /\ deliveries \in Nat
    /\ issued \in 0 .. MaxCodes
    /\ key.code <= issued
    /\ guesses \in [Codes -> Nat]
    /\ \A c \in Codes : c > issued => guesses[c] = 0
    /\ accepted \subseteq 1 .. issued
    /\ crashes \in 0 .. MaxCrashes

\* Every variable has its type, and no history runs ahead of the codes issued.
TypeOK == RequestsOK /\ StoreOK

\* Wrong guesses at code c that are on their way to be counted.
Counting(c) == {h \in Handlers : req[h].pc = "count" /\ req[h].code = c}

\* Every wrong guess at the stored code is counted on it, is about to be, or was
\* lost with its handler: overlapping issues, deletions and guesses at an older
\* code never make the counter fall behind (otp.service.ts:150-163).
AttemptsAccounted ==
    key.code # NoCode =>
        guesses[key.code] <= key.attempts + Cardinality(Counting(key.code)) + crashes

\* A code is tried at most MaxAttempts times, one more for each request that was
\* compared while the others were not counted yet, and for each crash.
GuessesBounded ==
    \A c \in Codes :
        guesses[c] < MaxAttempts + Cardinality(Handlers) + crashes

\* A code is never stored without a TTL, except by a handler that is about to set
\* it or has died: also when the key was deleted and made again by a late
\* HINCRBY in between (otp.service.ts:122, :161).
CodesExpire ==
    key.code # NoCode /\ key.ttl = "none" =>
        crashes > 0 \/ \E h \in Handlers : req[h].pc = "expire"

\* A verification that starts after a code was accepted does not accept it again.
AcceptedIsSpent == key.code \notin accepted

\* Requests on their way to a recorded delivery.
Issuing == {h \in Handlers : req[h].pc \in {"readForIssue", "store", "expire", "send", "record"}}

\* An hour sees at most HourlyMax deliveries, one more for each request that was
\* let in while the others were not recorded yet (otp.service.ts:68, :137).
HourlyCap ==
    deliveries + Cardinality(Issuing) < HourlyMax + Cardinality(Handlers)

=============================================================================
