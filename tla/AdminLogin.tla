----------------------------- MODULE AdminLogin -----------------------------
(***************************************************************************)
(* POST /admin/login from one address (admin.service.ts): a counter in     *)
(* Redis with INCR, an EXPIRE by the request that creates it, the limit,   *)
(* and the comparison of the password.  Requests interleave and die        *)
(* between the two commands.  A server without a password answers 403      *)
(* after the limit, which leaves the same state as a wrong password.       *)
(***************************************************************************)
EXTENDS Integers, FiniteSets

CONSTANTS
    Handlers,   \* logins in flight from the address
    LoginMax,   \* LOGIN_MAX
    Ttl,        \* LOGIN_WINDOW_SEC, in ticks
    Most        \* INCRs of one life of the key that are told apart

LoginAssumption ==
    /\ IsFiniteSet(Handlers)
    /\ LoginMax \in Nat /\ Most \in Nat /\ LoginMax < Most
    /\ Ttl \in Nat \ {0}

VARIABLES
    count,      \* ratelimit:admin:login:<ip>, 0 when absent
    left,       \* ticks until it expires; Ttl + 1: never
    pc,         \* per handler: its step
    orphaned    \* history: who created the key died before the EXPIRE

vars == <<count, left, pc, orphaned>>

Never == Ttl + 1

Init ==
    /\ count = 0
    /\ left = Never
    /\ pc = [h \in Handlers |-> "idle"]
    /\ orphaned = FALSE

Goto(h, step) == pc' = [pc EXCEPT ![h] = step]

More(n) == IF n < Most THEN n + 1 ELSE n

Decided(n) == IF n > LoginMax THEN "refuse" ELSE "compare"

-----------------------------------------------------------------------------

\* Mutant of Attempt: every attempt renews the TTL.
AttemptRenewing(h) ==
    /\ pc[h] = "idle"
    /\ count' = More(count)
    /\ left' = IF count = 0 THEN left ELSE Ttl
    /\ Goto(h, IF count = 0 THEN "expire" ELSE Decided(count + 1))
    /\ UNCHANGED orphaned

\* INCR; the first one sets the TTL next.
Attempt(h) ==
    /\ pc[h] = "idle"
    /\ count' = More(count)
    /\ Goto(h, IF count = 0 THEN "expire" ELSE Decided(count + 1))
    /\ UNCHANGED <<left, orphaned>>

\* Mutant of SetTtl: the EXPIRE is sent only if the counter, read again, is 1.
SetTtlOnlyWhenAlone(h) ==
    /\ pc[h] = "expire"
    /\ left' = IF count = 1 THEN Ttl ELSE left
    /\ Goto(h, Decided(1))
    /\ UNCHANGED <<count, orphaned>>

\* EXPIRE, and the comparison of the first attempt with the limit.
SetTtl(h) ==
    /\ pc[h] = "expire"
    /\ left' = Ttl
    /\ Goto(h, Decided(1))
    /\ UNCHANGED <<count, orphaned>>

\* 429.
Refuse(h) ==
    /\ pc[h] = "refuse"
    /\ Goto(h, "idle")
    /\ UNCHANGED <<count, left, orphaned>>

\* The password is wrong, 401, or right, and a token is signed: nothing is stored, so
\* an attempt that succeeds counts as one that fails.
Compare(h) ==
    /\ pc[h] = "compare"
    /\ Goto(h, "idle")
    /\ UNCHANGED <<count, left, orphaned>>

\* The process dies, or Redis fails: before the EXPIRE, the key stays for ever.
Die(h) ==
    /\ pc[h] # "idle"
    /\ orphaned' = (orphaned \/ pc[h] = "expire")
    /\ Goto(h, "idle")
    /\ UNCHANGED <<count, left>>

\* Time passes, and the key expires with its last tick.
Tick ==
    /\ left # Never
    /\ left' = IF left = 1 THEN Never ELSE left - 1
    /\ IF left = 1
         THEN count' = 0 /\ orphaned' = FALSE
         ELSE UNCHANGED <<count, orphaned>>
    /\ UNCHANGED pc

Next ==
    \/ \E h \in Handlers :
          Attempt(h) \/ SetTtl(h) \/ Refuse(h) \/ Compare(h) \/ Die(h)
    \/ Tick

Spec == Init /\ [][Next]_vars

\* The server goes on with what it began, and time passes.
Fairness ==
    /\ \A h \in Handlers : WF_vars(SetTtl(h) \/ Refuse(h) \/ Compare(h) \/ Die(h))
    /\ WF_vars(Tick)

FairSpec == Spec /\ Fairness

-----------------------------------------------------------------------------
(* Properties.                                                             *)

\* Every variable has its type; an absent key has no TTL and no history.
TypeOK ==
    /\ count \in 0 .. Most
    /\ left \in 1 .. Never
    /\ pc \in [Handlers -> {"idle", "expire", "refuse", "compare"}]
    /\ orphaned \in BOOLEAN
    /\ count = 0 => left = Never /\ ~orphaned

\* A key that never expires is about to get its TTL, or lost the request that
\* would have set it: no other interleaving locks the address for ever.
LockedForEverExplained ==
    count > 0 /\ left = Never =>
        orphaned \/ \E h \in Handlers : pc[h] = "expire"

\* A lockout ends by itself, even while attempts go on, unless its key lost the
\* request that would have set the TTL.
LockoutEnds == (count > LoginMax /\ ~orphaned) ~> (count = 0 \/ orphaned)

=============================================================================
