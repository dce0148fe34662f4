-------------------------- MODULE MCConvInboxLogin --------------------------
(***************************************************************************)
(* The components with fairness for TLC: Conversation, Inbox and           *)
(* AdminLogin.  Their modules share no state (the thread of Inbox begins   *)
(* as one pending request and only ever gets accepted), so a behaviour     *)
(* runs one of them while the others stay at their first state: "part"     *)
(* says which, and only that one is owed progress.                         *)
(***************************************************************************)
EXTENDS Conversation, TLC

CONSTANTS
    MaxMessages, MaxFailures,           \* Inbox
    Logins, LoginMax, Ttl, Most         \* AdminLogin

VARIABLES
    part,
    active, sent, read, cache, inboxReq, connected, missed,
    taken, listed, anchor, late, excused, failures,
    count, left, pc, orphaned

inbox == <<active, sent, read, cache, inboxReq, connected, missed,
           taken, listed, anchor, late, excused, failures>>
login == <<count, left, pc, orphaned>>

Box == INSTANCE Inbox WITH req <- inboxReq
Login == INSTANCE AdminLogin WITH Handlers <- Logins

ASSUME PartsAssumption == Box!InboxAssumption /\ Login!LoginAssumption

PartsInit ==
    /\ part \in {"conversation", "inbox", "login"}
    /\ Init /\ Box!Init /\ Login!Init

PartsNext ==
    \/ part = "conversation" /\ Next /\ UNCHANGED <<part, inbox, login>>
    \/ part = "inbox" /\ Box!Next /\ UNCHANGED <<part, vars, login>>
    \/ part = "login" /\ Login!Next /\ UNCHANGED <<part, vars, inbox>>

PartsSpec == PartsInit /\ [][PartsNext]_<<part, vars, inbox, login>>

\* The fairness of each module's FairSpec, owed by the part that runs.
PartsFairSpec ==
    /\ PartsSpec
    /\ WF_vars(part = "conversation" /\ ThirtyDaysPass)
    /\ WF_vars(part = "conversation" /\ ArchiveStalePending)
    /\ WF_inbox(part = "inbox" /\ Box!CountExpires)
    /\ \A h \in Handlers : WF_inbox(part = "inbox" /\ Box!Continue(h))
    /\ \A h \in Logins :
          WF_login(/\ part = "login"
                   /\ Login!SetTtl(h) \/ Login!Refuse(h) \/ Login!Compare(h) \/ Login!Die(h))
    /\ WF_login(part = "login" /\ Login!Tick)

\* A cached count is wrong only while a request that changed the thread is
\* still to delete it, or when nothing was going to: it was computed before a
\* change and stored after it, the thread was accepted by POST accept, or the
\* deletion failed (getUnreadCount, invalidateUnreadCache).
WrongCountExplained == Box!TypeOK /\ Box!WrongCountExplained

\* A message is marked as read only if it was in a page for the viewer, or not
\* newer than one up to which they marked (listMessages, markMessagesRead).
ReadMeansListed == Box!ReadMeansListed

\* A message whose send succeeded was announced to a viewer whose stream was
\* open from its commit to its answer (sendMessage).
AnsweredMeansAnnounced == Box!AnsweredMeansAnnounced

\* When the thread is no longer changed, the count that is polled becomes
\* right for good, whatever was cached by then (getUnreadCount).
CountCatchesUp == Box!CountCatchesUp

\* A login counter that never expires is about to get its TTL, or lost the request
\* that would have set it: no other interleaving locks the address for ever.
LockedForEverExplained == Login!TypeOK /\ Login!LockedForEverExplained

\* A lockout of the admin login ends by itself, even while attempts go on, unless
\* its key lost the request that would have set the TTL (login of admin.service.ts).
LockoutEnds == Login!LockoutEnds

=============================================================================
