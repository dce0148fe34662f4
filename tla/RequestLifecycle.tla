------------------------- MODULE RequestLifecycle -------------------------
(***************************************************************************)
(* What the conversation row of one pair of users promises: a request is   *)
(* opened by one of the two, decided at most once, by the other, or left   *)
(* to expire.  A rejected request can only be followed by one in the other *)
(* direction, and an accepted one stays accepted.  A pending request may   *)
(* be replaced by a request that crosses it.  Conversation.tla is shown to *)
(* implement this module.                                                  *)
(***************************************************************************)
CONSTANTS Alice, Bob, Nobody

VARIABLES status, initiator, rejectedBy

lifecycle == <<status, initiator, rejectedBy>>

Peer(u) == IF u = Alice THEN Bob ELSE Alice

Start ==
    /\ status = "NONE"
    /\ initiator = Nobody
    /\ rejectedBy = Nobody

\* u opens a request: the first one of the pair, one after an ignored one, one
\* towards the user u turned down, or one that crosses the peer's.
Request(u) ==
    /\ \/ status \in {"NONE", "ARCHIVED"}
       \/ status \in {"REJECTED", "PENDING"} /\ initiator = Peer(u)
    /\ status' = "PENDING"
    /\ initiator' = u
    /\ rejectedBy' = Nobody

Accept ==
    /\ status = "PENDING"
    /\ status' = "ACTIVE"
    /\ UNCHANGED <<initiator, rejectedBy>>

Decline ==
    /\ status = "PENDING"
    /\ status' = "REJECTED"
    /\ rejectedBy' = Peer(initiator)
    /\ UNCHANGED initiator

Expire ==
    /\ status = "PENDING"
    /\ status' = "ARCHIVED"
    /\ UNCHANGED <<initiator, rejectedBy>>

Advance ==
    \/ \E u \in {Alice, Bob} : Request(u)
    \/ Accept
    \/ Decline
    \/ Expire

LifecycleSpec == Start /\ [][Advance]_lifecycle

=============================================================================
