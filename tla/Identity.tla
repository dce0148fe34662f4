------------------------------ MODULE Identity ------------------------------
(***************************************************************************)
(* Who may hold which work address.  A visitor asks for the review of a    *)
(* company, an admin approves or rejects, and the API process keeps the    *)
(* allowed domains in memory; a visitor signs up in three calls; and the   *)
(* owner of a verified phone moves an account to another address in two.   *)
(* Handlers stop at every await, so they interleave between them, and the  *)
(* process may restart.                                                    *)
(***************************************************************************)
EXTENDS FiniteSets

CONSTANTS
    Handlers,   \* requests in flight
    Users,      \* account rows
    Emails,     \* addresses
    Domains,    \* their domains
    DomainOf,   \* domain of each address
    Seeded,     \* domains allowed from the start
    Reviews,    \* manual review rows ever created
    About,      \* address of each
    OneAdmin    \* admins wait for one decision before they begin the next

None == "none"

ASSUME IdentityAssumption ==
    /\ IsFiniteSet(Handlers)
    /\ DomainOf \in [Emails -> Domains]
    /\ About \in [Reviews -> Emails]
    /\ Seeded \subseteq Domains
    /\ OneAdmin \in BOOLEAN
    /\ None \notin Users \cup Emails \cup Reviews

VARIABLES
    review,     \* ManualReviewRequest, the status of each row
    allowed,    \* CompanyAllowlist, the active rows
    cached,     \* DomainService.allowDomains of the process
    account,    \* per row: address and deletion mark
    signup,     \* addresses with a sign-up code or token that is still good
    recovery,   \* accounts whose phone recovery token is valid
    meta,       \* email-rebind-meta:<address>: the account that asked
    coded,      \* addresses with a current code, otp:email-rebind:<address>
    req,        \* per handler: next await and what it has read
    asked,      \* history: per address, the accounts a code was made for
    strangers,  \* history: accounts moved by a code older than their own
    behind      \* history: the last refresh failed, so the cache may lag

vars == <<review, allowed, cached, account, signup, recovery, meta, coded,
          req, asked, strangers, behind>>
domains == <<review, allowed, cached, behind>>
rebinds == <<recovery, meta, coded, asked, strangers>>

NoRow == [email |-> None, deleted |-> FALSE]

\* allow: the domains of a refresh.  own: the code that was spent was made when
\* the account had asked already.
Idle == [pc |-> "idle", email |-> None, user |-> None, review |-> None,
         own |-> FALSE, allow |-> {}]

Init ==
    /\ review = [r \in Reviews |-> None]
    /\ allowed = Seeded
    /\ cached = Seeded
    /\ account = [u \in Users |-> NoRow]
    /\ signup = {}
    /\ recovery = {}
    /\ meta = [e \in Emails |-> None]
    /\ coded = {}
    /\ req = [h \in Handlers |-> Idle]
    /\ asked = [e \in Emails |-> {}]
    /\ strangers = {}
    /\ behind = FALSE

Goto(h, step) == req' = [req EXCEPT ![h].pc = step]

Finish(h) == req' = [req EXCEPT ![h] = Idle]

Enter(h, step, e, u, r) ==
    /\ req[h].pc = "idle"
    /\ req' = [req EXCEPT ![h] = [Idle EXCEPT !.pc = step, !.email = e, !.user = u, !.review = r]]

\* checkSignupDomain says "allow".
Recognised(e) == DomainOf[e] \in cached

\* findFirst by address among accounts that are not deleted.
Holders(e) == {u \in Users : account[u].email = e /\ ~account[u].deleted}

\* The unique index on users.email also covers deleted rows.
Free(e, u) == \A v \in Users \ {u} : account[v].email # e

-----------------------------------------------------------------------------
(* The review of a company.                                                *)

AskReview(r) ==
    /\ review[r] = None
    /\ review' = [review EXCEPT ![r] = "PENDING"]
    /\ UNCHANGED <<allowed, cached, behind, account, signup, rebinds, req>>

AdminFree == OneAdmin => \A h \in Handlers :
                req[h].pc \notin {"approve", "readAllowlist", "setCache", "reject"}

FindForApprove(h, r) ==
    /\ AdminFree
    /\ review[r] = "PENDING"
    /\ Enter(h, "approve", About[r], None, r)
    /\ UNCHANGED <<domains, account, signup, rebinds>>

\* Mutant of CommitApprove: the cache is not refreshed.
CommitApproveOnly(h) ==
    /\ req[h].pc = "approve"
    /\ review' = [review EXCEPT ![req[h].review] = "APPROVED"]
    /\ allowed' = allowed \cup {DomainOf[req[h].email]}
    /\ Finish(h)
    /\ UNCHANGED <<cached, behind, account, signup, rebinds>>

\* The transaction writes by id, whatever became of the request meanwhile.
CommitApprove(h) ==
    /\ req[h].pc = "approve"
    /\ review' = [review EXCEPT ![req[h].review] = "APPROVED"]
    /\ allowed' = allowed \cup {DomainOf[req[h].email]}
    /\ Goto(h, "readAllowlist")
    /\ UNCHANGED <<cached, behind, account, signup, rebinds>>

\* refreshAllowlist reads the rows; the set is replaced when they arrive.
ReadAllowlist(h) ==
    /\ req[h].pc = "readAllowlist"
    /\ req' = [req EXCEPT ![h].pc = "setCache", ![h].allow = allowed]
    /\ UNCHANGED <<domains, account, signup, rebinds>>

SetCache(h) ==
    /\ req[h].pc = "setCache"
    /\ cached' = req[h].allow
    /\ behind' = FALSE
    /\ Finish(h)
    /\ UNCHANGED <<review, allowed, account, signup, rebinds>>

\* The query fails: the admin gets an error, and a retry a 404.
RefreshFails(h) ==
    /\ req[h].pc = "readAllowlist"
    /\ behind' = TRUE
    /\ Finish(h)
    /\ UNCHANGED <<review, allowed, cached, account, signup, rebinds>>

FindForReject(h, r) ==
    /\ AdminFree
    /\ review[r] = "PENDING"
    /\ Enter(h, "reject", About[r], None, r)
    /\ UNCHANGED <<domains, account, signup, rebinds>>

CommitReject(h) ==
    /\ req[h].pc = "reject"
    /\ review' = [review EXCEPT ![req[h].review] = "REJECTED"]
    /\ Finish(h)
    /\ UNCHANGED <<allowed, cached, behind, account, signup, rebinds>>

\* The process dies with its requests and starts again; a list that cannot be
\* loaded leaves it with an empty one.
Restart(loaded) ==
    /\ cached' = IF loaded THEN allowed ELSE {}
    /\ behind' = ~loaded
    /\ req' = [h \in Handlers |-> Idle]
    /\ UNCHANGED <<review, allowed, account, signup, rebinds>>

-----------------------------------------------------------------------------
(* Signing up.                                                             *)

\* The code goes out, is brought back, checked and spent (OtpCode), and becomes
\* a token that is good for any number of uses.
RequestSignup(e) ==
    /\ Recognised(e)
    /\ Holders(e) = {}
    /\ signup' = signup \cup {e}
    /\ UNCHANGED <<domains, account, rebinds, req>>

SignupExpires(e) ==
    /\ e \in signup
    /\ signup' = signup \ {e}
    /\ UNCHANGED <<domains, account, rebinds, req>>

\* set-pin looks for an account, then checks the domain again, with no await
\* between the two; hashing the PIN comes next.
FindForSetPin(h, e) ==
    /\ e \in signup
    /\ Holders(e) = {}
    /\ Recognised(e)
    /\ Enter(h, "create", e, None, None)
    /\ UNCHANGED <<domains, account, signup, rebinds>>

\* The insert, which fails when any row has the address, also a deleted one.
CreateUser(h) ==
    /\ req[h].pc = "create"
    /\ IF Free(req[h].email, None)
       THEN \E u \in Users :
               /\ account[u] = NoRow
               /\ account' = [account EXCEPT ![u] = [email |-> req[h].email, deleted |-> FALSE]]
       ELSE UNCHANGED account
    /\ Finish(h)
    /\ UNCHANGED <<domains, signup, rebinds>>

-----------------------------------------------------------------------------
(* Moving to another address.                                              *)

\* The code of the phone was right: a token for the account with that phone.
VerifyPhone(u) ==
    /\ account[u] # NoRow /\ ~account[u].deleted
    /\ recovery' = recovery \cup {u}
    /\ UNCHANGED <<domains, account, signup, meta, coded, asked, strangers, req>>

RecoveryExpires(u) ==
    /\ u \in recovery
    /\ recovery' = recovery \ {u}
    /\ UNCHANGED <<domains, account, signup, meta, coded, asked, strangers, req>>

\* Mutant of FindTaken: no look at the domain.
FindTakenAnywhere(h, u, e) ==
    /\ u \in recovery
    /\ Holders(e) \subseteq {u}
    /\ Enter(h, "issue", e, u, None)
    /\ UNCHANGED <<domains, account, signup, rebinds>>

\* Mutant of FindTaken: the token's account is not kept.
FindTakenAnonymous(h, u, e) ==
    /\ u \in recovery
    /\ Recognised(e)
    /\ Holders(e) \subseteq {u}
    /\ Enter(h, "issue", e, None, None)
    /\ UNCHANGED <<domains, account, signup, rebinds>>

\* update-email: token, domain, and no other account with the address.
FindTaken(h, u, e) ==
    /\ u \in recovery
    /\ Recognised(e)
    /\ Holders(e) \subseteq {u}
    /\ Enter(h, "issue", e, u, None)
    /\ UNCHANGED <<domains, account, signup, rebinds>>

\* issueOtp stores the code.
Issue(h) ==
    /\ req[h].pc = "issue"
    /\ coded' = coded \cup {req[h].email}
    /\ asked' = [asked EXCEPT ![req[h].email] = @ \cup {req[h].user}]
    /\ Goto(h, "setMeta")
    /\ UNCHANGED <<domains, account, signup, recovery, meta, strangers>>

\* Mutant of IssueRefused: the owner of the address is noted all the same.
IssueRefusedNoted(h) ==
    /\ req[h].pc = "issue"
    /\ meta' = [meta EXCEPT ![req[h].email] = req[h].user]
    /\ Finish(h)
    /\ UNCHANGED <<domains, account, signup, recovery, coded, asked, strangers>>

\* It refuses a second code within a minute, and the fourth resend.
IssueRefused(h) ==
    /\ req[h].pc = "issue"
    /\ Finish(h)
    /\ UNCHANGED <<domains, account, signup, rebinds>>

\* Who asked; the mail that follows changes no state here.
SetMeta(h) ==
    /\ req[h].pc = "setMeta"
    /\ meta' = [meta EXCEPT ![req[h].email] = req[h].user]
    /\ Finish(h)
    /\ UNCHANGED <<domains, account, signup, recovery, coded, asked, strangers>>

\* confirm-new-email: the token must be the one that asked.
ReadMeta(h, u, e) ==
    /\ u \in recovery
    /\ meta[e] = u
    /\ Enter(h, "verify", e, u, None)
    /\ UNCHANGED <<domains, account, signup, rebinds>>

\* verifyOtp spends the code when the body's code is right, and the request
\* ends when it is not.
VerifyRebind(h) ==
    /\ req[h].pc = "verify"
    /\ \/ LET e == req[h].email IN
          /\ e \in coded
          /\ coded' = coded \ {e}
          /\ req' = [req EXCEPT ![h].pc = "move", ![h].own = req[h].user \in asked[e]]
       \/ UNCHANGED coded /\ Finish(h)
    /\ UNCHANGED <<domains, account, signup, recovery, meta, asked, strangers>>

\* The update is by id, of a deleted account too; the index may refuse it.
MoveEmail(h) ==
    /\ req[h].pc = "move"
    /\ LET u == req[h].user  e == req[h].email IN
       IF Free(e, u)
       THEN /\ account' = [account EXCEPT ![u].email = e]
            /\ strangers' = IF req[h].own THEN strangers ELSE strangers \cup {u}
            /\ Goto(h, "dropMeta")
       ELSE UNCHANGED <<account, strangers>> /\ Finish(h)
    /\ UNCHANGED <<domains, signup, recovery, meta, coded, asked>>

\* The key is deleted, whoever has set it by now.
DropMeta(h) ==
    /\ req[h].pc = "dropMeta"
    /\ meta' = [meta EXCEPT ![req[h].email] = None]
    /\ Finish(h)
    /\ UNCHANGED <<domains, account, signup, recovery, coded, asked, strangers>>

\* Keys and codes last ten minutes.
MetaExpires(e) ==
    /\ meta[e] # None
    /\ meta' = [meta EXCEPT ![e] = None]
    /\ UNCHANGED <<domains, account, signup, recovery, coded, asked, strangers, req>>

CodeExpires(e) ==
    /\ e \in coded
    /\ coded' = coded \ {e}
    /\ UNCHANGED <<domains, account, signup, recovery, meta, asked, strangers, req>>

\* The owner deletes the account, or an admin bans it.
Delete(u) ==
    /\ account[u] # NoRow /\ ~account[u].deleted
    /\ account' = [account EXCEPT ![u].deleted = TRUE]
    /\ UNCHANGED <<domains, signup, rebinds, req>>

-----------------------------------------------------------------------------
Admin(h) ==
    \/ CommitApprove(h) \/ ReadAllowlist(h) \/ SetCache(h) \/ RefreshFails(h) \/ CommitReject(h)
    \/ \E r \in Reviews : FindForApprove(h, r) \/ FindForReject(h, r)

Rebind(h) ==
    \/ Issue(h) \/ IssueRefused(h) \/ SetMeta(h)
    \/ VerifyRebind(h) \/ MoveEmail(h) \/ DropMeta(h)
    \/ \E u \in Users, e \in Emails : FindTaken(h, u, e) \/ ReadMeta(h, u, e)

Next ==
    \/ \E h \in Handlers :
          \/ Admin(h) \/ Rebind(h) \/ CreateUser(h)
          \/ \E e \in Emails : FindForSetPin(h, e)
    \/ \E e \in Emails :
          \/ RequestSignup(e) \/ SignupExpires(e)
          \/ MetaExpires(e) \/ CodeExpires(e)
    \/ \E r \in Reviews : AskReview(r)
    \/ \E u \in Users : Delete(u) \/ VerifyPhone(u) \/ RecoveryExpires(u)
    \/ \E loaded \in BOOLEAN : Restart(loaded)

Spec == Init /\ [][Next]_vars

-----------------------------------------------------------------------------
TypeOK ==
    /\ review \in [Reviews -> {None, "PENDING", "APPROVED", "REJECTED"}]
    /\ {allowed, cached} \subseteq SUBSET Domains
    /\ account \in [Users -> [email : Emails \cup {None}, deleted : BOOLEAN]]
    /\ {signup, coded} \subseteq SUBSET Emails
    /\ {recovery, strangers} \subseteq SUBSET Users
    /\ meta \in [Emails -> Users \cup {None}]
    /\ req \in [Handlers -> [pc : {"idle", "approve", "readAllowlist", "setCache", "reject", "create",
                                   "issue", "setMeta", "verify", "move", "dropMeta"},
                             email : Emails \cup {None}, user : Users \cup {None},
                             review : Reviews \cup {None}, own : BOOLEAN,
                             allow : SUBSET Domains]]
    /\ asked \in [Emails -> SUBSET Users]
    /\ behind \in BOOLEAN

\* An approved company can sign up: when no decision is under way, the process
\* knows every allowed domain, unless its last look at the list failed.
CacheCatchesUp ==
    \/ behind
    \/ \E h \in Handlers : req[h].pc \in {"readAllowlist", "setCache"}
    \/ cached = allowed

\* Every address that an account holds is of an allowed domain, although the
\* domain is checked several calls before the address is written.
MembersAllowed == \A u \in Users : account[u].email # None => DomainOf[account[u].email] \in allowed

\* An account moves to an address only with a code that was mailed there at or
\* after its own request, even when two accounts want the same address at once.
MovedByOwnCode == strangers = {}
=============================================================================
