---------------------------- MODULE MCRateLimits ----------------------------
(***************************************************************************)
(* The limits kept in Redis on messages, requests and mails for TLC:       *)
(* NewConversationQuota, SlidingWindow and ReportMail.  They share no      *)
(* state, so a behaviour runs one of them while the others stay at their   *)
(* first state: "part" says which.                                         *)
(***************************************************************************)
EXTENDS NewConversationQuota, TLC

CONSTANTS
    Requests, RateWindow, Life,     \* SlidingWindow
    Ids                         \* ReportMail

VARIABLES
    part,
    limiter, pc, age, entries, met,
    filed, mailReq, lastAge, count, countAge, counted, told, silent, mailAge

rate == <<limiter, pc, age, entries, met>>
mail == <<filed, mailReq, lastAge, count, countAge, counted, told, silent, mailAge>>

Rate == INSTANCE SlidingWindow WITH Window <- RateWindow
Mail == INSTANCE ReportMail WITH req <- mailReq

ASSUME PartsAssumption == Rate!WindowAssumption

\* One first state for each part that does not run.
PartsInit ==
    /\ part \in {"quota", "rate", "mail"}
    /\ Init /\ Rate!Init /\ Mail!Init
    /\ part # "rate" => limiter = "send"

PartsNext ==
    \/ part = "quota" /\ Next /\ UNCHANGED <<part, rate, mail>>
    \/ part = "rate" /\ Rate!Next /\ UNCHANGED <<part, vars, mail>>
    \/ part = "mail" /\ Mail!Next /\ UNCHANGED <<part, vars, rate>>

PartsSpec == PartsInit /\ [][PartsNext]_<<part, vars, rate, mail>>

\* Handlers are interchangeable, and so are three of the requests; sound for the
\* safety runs.
Symmetry == Permutations(Handlers)

\* Each handler may lose or misplace a slot again and again; two per day suffice.
FewFaults == \A d \in Days : lost[d] <= 2 /\ wrong[d] <= 2

\* The sliding windows refuse exactly at the limit: no window admits more than Max,
\* but for the requests of an address that meet, and who met nobody is refused only
\* by a full window, never by refused requests (assertMessageSendRate, enforceLimit).
RateExact == Rate!TypeOK /\ Rate!WithinLimit /\ Rate!RefusedWhenFull

\* A report nobody is notifying about any more is counted for the next mail, was
\* covered by one, or is silent for a known reason; and a second mail within five
\* minutes has a known reason as well (sendAdminReportNotification).
ReportsAnnounced == Mail!TypeOK /\ Mail!EveryReportHeard /\ Mail!WindowKept

=============================================================================
