------------------------------- MODULE Pair -------------------------------
(***************************************************************************)
(* The two participants of a conversation and the requests they have in    *)
(* flight at the server.                                                   *)
(***************************************************************************)
CONSTANTS
    Alice, Bob,     \* the two participants
    Nobody,         \* a null user id
    Handlers,       \* request handlers the server may run at once
    Clients         \* how requests overlap: see MayStart

Users == {Alice, Bob}

ASSUME UsersAssumption == Alice # Bob /\ Nobody \notin Users
ASSUME ClientsAssumption == Clients \in {"serial", "perUser", "free"}

Other(u) == IF u = Alice THEN Bob ELSE Alice

\* When u may send one more request, req[h] being what handler h is doing.
\* "free": any requests overlap, two tabs of one user included.  "perUser": a
\* client waits for an answer before it sends its next request.  "serial": one
\* request at a time in the whole system.
MayStart(u, req) ==
    /\ Clients = "serial" => \A h \in Handlers : req[h].pc = "idle"
    /\ Clients = "perUser" => \A h \in Handlers : req[h].user # u

=============================================================================
