------------------------------ MODULE Uploads ------------------------------
(***************************************************************************)
(* Photos of one user, from the signed URL to the confirmation             *)
(* (uploads.service.ts).  A request for a URL takes a unit of the hour,    *)
(* signs a PUT for a fresh key and writes the declared size to Redis; the  *)
(* client uploads to the bucket; a confirmation reads the metadata, asks   *)
(* the bucket for the size and deletes the metadata.  URLs live for 600 s  *)
(* and metadata for 900 s: time ticks in steps of 300 s.  Keys of others   *)
(* and of the other kind of photo are refused (403) before anything is     *)
(* read, so every key is the user's own.  The key of an hour's counter     *)
(* lives for two hours, which no request for a URL does.                   *)
(***************************************************************************)
EXTENDS Integers, FiniteSets

CONSTANTS
    Objects,    \* random object keys: one per request for a URL
    Confirms,   \* confirmations that may be in flight
    Limit,      \* UPLOAD_URL_GEN_PER_HOUR
    LastHour    \* the UTC hours are 1 .. LastHour; time stops there

UploadsAssumption ==
    /\ IsFiniteSet(Objects) /\ Objects # {}
    /\ Limit \in Nat \ {0}
    /\ LastHour \in Nat \ {0}

Hours == 1 .. LastHour

\* SIGNED_URL_EXPIRES_SEC and PENDING_META_TTL_SEC, in steps of 300 s.
UrlTtl == 2
MetaTtl == 3

VARIABLES
    hour,       \* the current UTC hour
    counter,    \* per hour: uploads:urlgen:<user>:<hour>
    put,        \* per object: step of its request, hour of its unit
    urlAge,     \* per object: age of its signature; UrlTtl once it is too old
    metaAge,    \* per object: age of uploads:meta:<key>; MetaTtl when absent
    stored,     \* per object: what the bucket has
    confirm,    \* per confirmation: step and object
    spent,      \* history: objects whose metadata a confirmation deleted
    fitted      \* history: objects that had their declared size at some time

vars == <<hour, counter, put, urlAge, metaAge, stored, confirm, spent, fitted>>

NoConfirm == [pc |-> "idle", key |-> CHOOSE o \in Objects : TRUE]

Init ==
    /\ hour = 1
    /\ counter = [t \in Hours |-> 0]
    /\ put = [o \in Objects |-> [pc |-> "idle", hour |-> 1]]
    /\ urlAge = [o \in Objects |-> UrlTtl]
    /\ metaAge = [o \in Objects |-> MetaTtl]
    /\ stored = [o \in Objects |-> "nothing"]
    /\ confirm = [c \in Confirms |-> NoConfirm]
    /\ spent = {}
    /\ fitted = {}

Goto(o, step) == put' = [put EXCEPT ![o].pc = step]

-----------------------------------------------------------------------------
(* POST /listings/me/photos/upload-url and its like for the profile photo. *)

\* Mutant of Reserve: the value before the INCR is compared.
ReserveComparingOldValue(o) ==
    /\ put[o].pc = "idle"
    /\ counter' = [counter EXCEPT ![hour] = @ + 1]
    /\ put' = [put EXCEPT ![o] = [hour |-> hour,
                  pc |-> IF counter[hour] > Limit THEN "refuse" ELSE "sign"]]
    /\ UNCHANGED <<hour, urlAge, metaAge, stored, confirm, spent, fitted>>

\* reserveUploadUrlGeneration: INCR on the key of the hour, which is kept.
Reserve(o) ==
    /\ put[o].pc = "idle"
    /\ counter' = [counter EXCEPT ![hour] = @ + 1]
    /\ put' = [put EXCEPT ![o] = [hour |-> hour,
                  pc |-> IF counter'[hour] > Limit THEN "refuse" ELSE "sign"]]
    /\ UNCHANGED <<hour, urlAge, metaAge, stored, confirm, spent, fitted>>

\* Over the limit: DECR on the same key, 429.
Refuse(o) ==
    /\ put[o].pc = "refuse"
    /\ counter' = [counter EXCEPT ![put[o].hour] = @ - 1]
    /\ Goto(o, "refused")
    /\ UNCHANGED <<hour, urlAge, metaAge, stored, confirm, spent, fitted>>

\* getSignedUrl: the signature is valid from now on.
Sign(o) ==
    /\ put[o].pc = "sign"
    /\ urlAge' = [urlAge EXCEPT ![o] = 0]
    /\ Goto(o, "save")
    /\ UNCHANGED <<hour, counter, metaAge, stored, confirm, spent, fitted>>

\* Mutant of SaveMeta: the metadata lives for 300 s only.
SaveMetaWithUrl(o) ==
    /\ put[o].pc = "save"
    /\ metaAge' = [metaAge EXCEPT ![o] = MetaTtl - 1]
    /\ Goto(o, "answered")
    /\ UNCHANGED <<hour, counter, urlAge, stored, confirm, spent, fitted>>

\* storePendingMeta, and the answer with the URL.
SaveMeta(o) ==
    /\ put[o].pc = "save"
    /\ metaAge' = [metaAge EXCEPT ![o] = 0]
    /\ Goto(o, "answered")
    /\ UNCHANGED <<hour, counter, urlAge, stored, confirm, spent, fitted>>

\* The signature or Redis fails (503, 500), or the process dies: the client
\* learns no URL and the unit is not given back.
FailPut(o) ==
    /\ put[o].pc \in {"refuse", "sign", "save"}
    /\ Goto(o, IF put[o].pc = "refuse" THEN "stuck" ELSE "wasted")
    /\ UNCHANGED <<hour, counter, urlAge, metaAge, stored, confirm, spent, fitted>>

\* The client's PUT to the bucket while the URL lives, of the declared size or not.
Upload(o) ==
    /\ put[o].pc = "answered"
    /\ urlAge[o] < UrlTtl
    /\ \E size \in {"declared", "other"} :
          /\ stored' = [stored EXCEPT ![o] = size]
          /\ fitted' = IF size = "declared" THEN fitted \cup {o} ELSE fitted
    /\ UNCHANGED <<hour, counter, put, urlAge, metaAge, confirm, spent>>

-----------------------------------------------------------------------------
(* POST /uploads/confirm.                                                  *)

End(c) == confirm' = [confirm EXCEPT ![c] = NoConfirm]

\* GET of the metadata; a missing entry is answered 400.
ReadMeta(c) ==
    /\ confirm[c].pc = "idle"
    /\ \E o \in Objects :
          /\ metaAge[o] < MetaTtl
          /\ confirm' = [confirm EXCEPT ![c] = [pc |-> "head", key |-> o]]
    /\ UNCHANGED <<hour, counter, put, urlAge, metaAge, stored, spent, fitted>>

\* HEAD: an object whose size is within 5 % of the declared one, or 400.
Head(c) ==
    LET o == confirm[c].key IN
    /\ confirm[c].pc = "head"
    /\ IF stored[o] = "declared"
         THEN confirm' = [confirm EXCEPT ![c].pc = "delete"]
         ELSE End(c)
    /\ UNCHANGED <<hour, counter, put, urlAge, metaAge, stored, spent, fitted>>

\* DEL of the metadata, and the answer, which a death may swallow; a racing
\* confirmation may be ahead.
Confirm(c) ==
    LET o == confirm[c].key IN
    /\ confirm[c].pc = "delete"
    /\ metaAge' = [metaAge EXCEPT ![o] = MetaTtl]
    /\ spent' = spent \cup {o}
    /\ End(c)
    /\ UNCHANGED <<hour, counter, put, urlAge, stored, fitted>>

\* The bucket or Redis fails, or the process dies.
FailConfirm(c) ==
    /\ confirm[c].pc # "idle"
    /\ End(c)
    /\ UNCHANGED <<hour, counter, put, urlAge, metaAge, stored, spent, fitted>>

-----------------------------------------------------------------------------

\* 300 s pass: signatures and metadata age, and the hour may end.
Older(age, ttl) == [o \in Objects |-> IF age[o] < ttl THEN age[o] + 1 ELSE ttl]

Tick ==
    /\ urlAge' = Older(urlAge, UrlTtl)
    /\ metaAge' = Older(metaAge, MetaTtl)
    /\ hour' \in {hour, hour + 1} \cap Hours
    /\ UNCHANGED <<counter, put, stored, confirm, spent, fitted>>

Next ==
    \/ \E o \in Objects :
          Reserve(o) \/ Refuse(o) \/ Sign(o) \/ SaveMeta(o) \/ FailPut(o) \/ Upload(o)
    \/ \E c \in Confirms : ReadMeta(c) \/ Head(c) \/ Confirm(c) \/ FailConfirm(c)
    \/ Tick

Spec == Init /\ [][Next]_vars

-----------------------------------------------------------------------------
(* Properties.                                                             *)

Steps == {"idle", "refuse", "sign", "save", "answered", "refused", "stuck", "wasted"}

\* Every variable has its type; metadata is written once its URL is signed.
TypeOK ==
    /\ hour \in Hours
    /\ counter \in [Hours -> Int]
    /\ put \in [Objects -> [pc : Steps, hour : Hours]]
    /\ urlAge \in [Objects -> 0 .. UrlTtl]
    /\ metaAge \in [Objects -> 0 .. MetaTtl]
    /\ stored \in [Objects -> {"nothing", "declared", "other"}]
    /\ confirm \in [Confirms -> [pc : {"idle", "head", "delete"}, key : Objects]]
    /\ spent \subseteq Objects /\ fitted \subseteq Objects
    /\ \A o \in Objects : metaAge[o] < MetaTtl => put[o].pc = "answered"

InHour(t, steps) == {o \in Objects : put[o].hour = t /\ put[o].pc \in steps}

\* Units of hour t for a URL: handed out, under way, or wasted by a failure
\* after the reservation.
Granted(t) == InHour(t, {"sign", "save", "answered", "wasted"})

\* The counter of an hour is the URLs of the hour, wasted ones included, and the
\* refusals on their way: a refusal that ends leaves no trace, a failure does.
QuotaAccounting ==
    \A t \in Hours :
        counter[t] = Cardinality(Granted(t)) + Cardinality(InHour(t, {"refuse", "stuck"}))

\* The hours read as an allowance: the units for a URL, never given back.
Hourly == INSTANCE Allowance WITH
    Periods <- Hours,
    Cap <- Limit,
    held <- [t \in Hours |-> Cardinality(Granted(t))],
    surplus <- [t \in Hours |-> 0]

\* UPLOAD_URL_GEN_PER_HOUR caps the URLs signed per clock hour, however many
\* requests race and wherever they end: no hour is given another's unit.
KeepsAllowance == Hourly!ExactSpec

\* While its URL works, an upload can be confirmed: the metadata outlives the
\* signature, and nothing but a confirmation removes it sooner.
LiveUrlHasMeta ==
    \A o \in Objects :
        put[o].pc = "answered" /\ urlAge[o] < UrlTtl /\ metaAge[o] = MetaTtl =>
            o \in spent

\* Metadata is spent only on an object that was uploaded in its declared size,
\* whatever uploads and confirmations race with it.
SpentOnUpload == spent \subseteq fitted

=============================================================================
